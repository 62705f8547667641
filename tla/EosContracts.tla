---------------------------- MODULE EosContracts ----------------------------
(***************************************************************************)
(* Four contracts of EOS that share no table, side by side: the xERC20     *)
(* token, the underlying token, the lockbox with several pairs and the     *)
(* fees manager.  Those that call one another meet in EosChain; here each  *)
(* has the properties it keeps whoever calls it.                           *)
(***************************************************************************)
EXTENDS EosXERC20

CONSTANTS
    Issuers,                    \* the underlying token: as in EosIssuance
    Users, PairBridges,         \* the lockbox: as in EosPairs
    XTokens, PairAssets, MaxSupply, Initially,
    Pairs, FreezeTargets, MaxBridged,
    Node, FeeToken, Symbol,     \* the fees manager: as in EosFeesManager
    Assets, Unset, PayersSign, Fees, MaxHeld, Values

VARIABLES
    token,                      \* the underlying token
    registry, held,             \* the lockbox, and who holds what it takes
    frozen, bridged,            \* whom its xERC20 contracts froze and served
    fees, total, allowances     \* the fees manager, fees being what it holds

I == INSTANCE EosIssuance
L == INSTANCE EosPairs WITH Assets <- PairAssets, Bridges <- PairBridges
FM == INSTANCE EosFeesManager WITH Token <- FeeToken, held <- fees

lockboxVars == <<registry, held, frozen, bridged>>
feesVars == <<fees, total, allowances>>

-----------------------------------------------------------------------------
\* Nobody owes tokens and there are no more than the maximum, whatever is
\* issued and retired (issue, retire).
WithinSupply == I!WithinSupply

\* Nobody loses tokens by what others sign (transfer, open, close).
OnlyOwnersSpend == I!OnlyOwnersSpend

\* What the lockbox wrapped it keeps the collateral of (lockbox.cpp,
\* ontransfer, onmint).
PairsBacked == L!PairsBacked

\* Tokens of a registered pair can be wrapped and unwrapped in full, but for a
\* full supply, a frozen account or absent collateral (create, ontransfer).
Redeemable == L!Redeemable

\* Totals are the sums of the nodes' allowances, of tokens that share no symbol
\* with others and of all tokens together (feesmanager.cpp).
TotalIsSum == FM!TotalIsSum

\* What the nodes may withdraw of a token that shares no symbol is there
\* (setallowance, incallowance).
AllowancesCovered == FM!AllowancesCovered

\* A withdrawal takes a node's own allowance, all of it, once, and that node
\* signed it where hosts bill memory (withdrawto).
NodesTakeTheirOwn == FM!NodesTakeTheirOwn

=============================================================================
