----------------------------- MODULE EosXERC20 ------------------------------
(***************************************************************************)
(* The xERC20 token of EOS as a state machine: every action of             *)
(* xerc20.token.cpp, authorized by any of the signatures in Signatures,    *)
(* and time.                                                               *)
(*                                                                         *)
(* mintedWithin and burnedWithin are history variables, not tables:        *)
(* mintedWithin[b][k] is what bridge b minted against its quota in this    *)
(* second and the k seconds before it, since its limits were last set.     *)
(***************************************************************************)
EXTENDS EosXToken

CONSTANTS
    Signatures,     \* sets of accounts that sign an action together
    Quantities,     \* what tokens are moved, minted and burned in
    Pulled,         \* what the freezing account asks for
    Supplies,       \* maximum supplies
    Limits,         \* limits the owner chooses from
    Bridges,        \* accounts given limits
    Lockboxes,      \* accounts made the lockbox
    Freezers        \* accounts made the freezing account

ASSUME InputAssumption ==
    /\ Signatures \subseteq SUBSET Account
    /\ Quantities \subseteq Int /\ Pulled \subseteq Int
    /\ Supplies \subseteq Int /\ Limits \subseteq Int
    /\ Bridges \subseteq Account /\ Lockboxes \subseteq Account
    /\ Freezers \subseteq Account

VARIABLES
    xtoken,         \* the tables of the contract
    mintedWithin,   \* history, see above
    burnedWithin

history == <<mintedWithin, burnedWithin>>
vars == <<xtoken, history>>

Window == 0 .. DURATION - 1

NothingWithin == [k \in Window |-> 0]

Metered(h, b, quantity) == [h EXCEPT ![b] = [k \in Window |-> h[b][k] + quantity]]

Slid(h) == [b \in Account |-> [k \in Window |-> IF k = 0 THEN 0 ELSE h[b][k - 1]]]

TypeOK ==
    /\ xtoken \in XToken
    /\ mintedWithin \in [Account -> [Window -> Nat]]
    /\ burnedWithin \in [Account -> [Window -> Nat]]

Init ==
    /\ xtoken = NewXToken
    /\ mintedWithin = [b \in Account |-> NothingWithin]
    /\ burnedWithin = [b \in Account |-> NothingWithin]

-----------------------------------------------------------------------------
create(auth, maximum_supply) ==
    /\ CanCreate(xtoken, auth, maximum_supply)
    /\ xtoken' = Created(xtoken, maximum_supply)
    /\ UNCHANGED history

mint(auth, caller, to, quantity) ==
    /\ CanMint(xtoken, auth, caller, to, quantity)
    /\ xtoken' = Minted(xtoken, caller, to, quantity)
    /\ mintedWithin' = IF caller = xtoken.lockbox
                       THEN mintedWithin ELSE Metered(mintedWithin, caller, quantity)
    /\ UNCHANGED burnedWithin

burn(auth, caller, quantity) ==
    /\ CanBurn(xtoken, auth, caller, quantity)
    /\ xtoken' = Burned(xtoken, caller, quantity)
    /\ burnedWithin' = IF caller = xtoken.lockbox
                       THEN burnedWithin ELSE Metered(burnedWithin, caller, quantity)
    /\ UNCHANGED mintedWithin

transfer(auth, from, to, quantity) ==
    /\ CanTransfer(xtoken, auth, from, to, quantity)
    /\ xtoken' = Transferred(xtoken, auth, from, to, quantity)
    /\ UNCHANGED history

open(auth, owner, ram_payer) ==
    /\ CanOpenRow(xtoken, auth, owner, ram_payer)
    /\ xtoken' = RowOpened(xtoken, owner, ram_payer)
    /\ UNCHANGED history

close(auth, owner) ==
    /\ CanCloseRow(xtoken, auth, owner)
    /\ xtoken' = RowClosed(xtoken, owner)
    /\ UNCHANGED history

-----------------------------------------------------------------------------
setlockbox(auth, account) ==
    /\ CanSetLockbox(auth)
    /\ xtoken' = LockboxSet(xtoken, account)
    /\ UNCHANGED history

setlimits(auth, account, minting_limit, burning_limit) ==
    /\ CanSetLimits(xtoken, auth, account, minting_limit, burning_limit)
    /\ \E r \in RatesOf(minting_limit), s \in RatesOf(burning_limit) :
          xtoken' = LimitsSet(xtoken, account, minting_limit, burning_limit, r, s)
    /\ mintedWithin' = [mintedWithin EXCEPT ![account] = NothingWithin]
    /\ burnedWithin' = [burnedWithin EXCEPT ![account] = NothingWithin]

setfreezeacc(auth, freezing_account) ==
    /\ CanSetFreezeAcc(auth, freezing_account)
    /\ xtoken' = FreezeAccSet(xtoken, freezing_account)
    /\ UNCHANGED history

freeze(auth, account) ==
    /\ CanFreeze(xtoken, auth, account)
    /\ xtoken' = Frozen(xtoken, account)
    /\ UNCHANGED history

unfreeze(auth, account) ==
    /\ CanUnfreeze(xtoken, auth, account)
    /\ xtoken' = Unfrozen(xtoken, account)
    /\ UNCHANGED history

pullfrozen(auth, account, to, quantity) ==
    /\ CanPullFrozen(xtoken, auth, account, to, quantity)
    /\ xtoken' = FrozenPulled(xtoken, account, to, quantity)
    /\ UNCHANGED history

Tick ==
    /\ xtoken' = AllOlder(xtoken)
    /\ mintedWithin' = Slid(mintedWithin)
    /\ burnedWithin' = Slid(burnedWithin)

-----------------------------------------------------------------------------
HolderStep(auth) ==
    \/ \E caller, to \in Account, q \in Quantities : mint(auth, caller, to, q)
    \/ \E caller \in Account, q \in Quantities : burn(auth, caller, q)
    \/ \E from, to \in Account, q \in Quantities : transfer(auth, from, to, q)
    \/ \E owner, ram_payer \in Account : open(auth, owner, ram_payer)
    \/ \E owner \in Account : close(auth, owner)

OwnerStep(auth) ==
    \/ \E max \in Supplies : create(auth, max)
    \/ \E a \in Lockboxes : setlockbox(auth, a)
    \/ \E b \in Bridges, m, n \in Limits : setlimits(auth, b, m, n)
    \/ \E a \in Freezers : setfreezeacc(auth, a)

FreezerStep(auth) ==
    \/ \E a \in Account : freeze(auth, a)
    \/ \E a \in Account : unfreeze(auth, a)
    \/ \E a, to \in Account, q \in Pulled : pullfrozen(auth, a, to, q)

Next ==
    \/ \E auth \in Signatures : HolderStep(auth) \/ OwnerStep(auth) \/ FreezerStep(auth)
    \/ Tick

Spec == Init /\ [][Next]_vars

-----------------------------------------------------------------------------
(***************************************************************************)
(* Properties.                                                             *)
(***************************************************************************)

\* No sequence of actions creates or destroys tokens beside mint and burn: the
\* balances add up to the supply through transfers, pulls from frozen accounts,
\* also of negative quantities, rows closed and opened and memory that changes
\* its payer (add_balance, sub_balance, open, close, pullfrozen).
SupplyIsSumOfBalances == BalancesSum(xtoken.rows) = xtoken.supply

\* What a bridge used in a window and what it may still use exceed its
\* maximum by no more than what refilled since the window began, and nothing
\* was used after the quota's timestamp.  The inductive form of WindowBound.
HistoryOK(w, q) ==
    \A k \in Window :
        /\ w[k] + CurrentLimit(q) <= q.max + k * q.rate
        /\ k < q.age => w[k] = 0

\* The bookkeeping of both directions is in order for every account, whatever
\* the interleaving of uses, limit changes and time.
QuotaInvariant ==
    \A b \in Account :
        /\ QuotaOK(xtoken.minting[b]) /\ HistoryOK(mintedWithin[b], xtoken.minting[b])
        /\ QuotaOK(xtoken.burning[b]) /\ HistoryOK(burnedWithin[b], xtoken.burning[b])

\* In any stretch of at most a day a bridge mints, and burns, at most its
\* maximum and what refilled meanwhile, whichever way the float was rounded
\* (get_current_limit, use_minter_limits, change_minter_limit).
WindowBound ==
    \A b \in Account, k \in Window :
        /\ mintedWithin[b][k] <= xtoken.minting[b].max + k * xtoken.minting[b].rate
        /\ burnedWithin[b][k] <= xtoken.burning[b].max + k * xtoken.burning[b].rate

\* A limit can be read at every moment, whatever was used and however long
\* ago, as long as the maximum is below half of what an asset holds: the sum
\* taken before the cut at the maximum stays an asset (get_current_limit).
SmallLimitsReadable ==
    \A b \in Account :
        /\ 2 * xtoken.minting[b].max + RateError <= MaxAmount => IsReadable(xtoken.minting[b])
        /\ 2 * xtoken.burning[b].max + RateError <= MaxAmount => IsReadable(xtoken.burning[b])

\* When the owner changes a maximum, what the bridge had spent of the old one
\* stays spent, up to the new one (calculate_new_current_limit).
SpentStaysSpent ==
    [][ \A auth \in Signatures, b \in Bridges, m, n \in Limits :
          setlimits(auth, b, m, n) =>
            LET spent == xtoken.minting[b].max - CurrentLimit(xtoken.minting[b])
            IN  m - CurrentLimit(xtoken'.minting[b]) = IF spent < m THEN spent ELSE m ]_vars

\* While an account is frozen its tokens leave it in one way only, pulled by
\* the freezing account, unless it burns them itself as a bridge or as the
\* lockbox: mint and burn do not look at the frozen accounts (is_frozen).
FrozenTokensStay ==
    [][ \A a \in xtoken.frozen \ (xtoken.bridges \cup {xtoken.lockbox}) :
          \/ xtoken'.rows[a].balance >= xtoken.rows[a].balance
          \/ \E auth \in Signatures, to \in Account, q \in Pulled :
                xtoken.freezer \in auth /\ pullfrozen(auth, a, to, q) ]_vars

=============================================================================
