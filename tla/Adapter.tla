------------------------------ MODULE Adapter -------------------------------
(***************************************************************************)
(* The Adapter and the XERC20Lockbox of one chain as values.  A side is    *)
(* all the storage the bridge has on one chain: the xERC20 token, the      *)
(* balances of the underlying ERC20, the adapter, the PAM, and the account *)
(* whose receiveUserData the chain is executing, if any.  A call is again  *)
(* a pair of operators, Can... and the side it leaves; a transaction       *)
(* chains the calls it makes.                                              *)
(*                                                                         *)
(* The ERC20 is external: it moves balances and refuses to overdraw them.  *)
(* Holders are taken to have approved the adapter and the lockbox for it,  *)
(* and may pay it to anybody.                                              *)
(***************************************************************************)
EXTENDS XERC20Token, PAMContract

CONSTANTS
    AdapterAddress, LockboxAddress,
    Asset, Erc20,               \* ids of tokens, and that of the underlying one
    FeeBasisPoints, FeeDivisor,
    ConversionRatio,            \* 10 ** (18 - decimals of the ERC20)
    Destination,                \* what swap takes for a destination chain
    Tx,                         \* (block, transaction) pairs
    Data, NoData,               \* user data; NoData is the empty one
    SwapTopic                   \* SWAP_EVENT_TOPIC0

ASSUME RolesAssumption ==
    {AdapterAddress, LockboxAddress} \subseteq Address /\ AdapterAddress # LockboxAddress
ASSUME Erc20Assumption == Erc20 \in Asset
ASSUME FeeAssumption == FeeBasisPoints \in Nat /\ FeeDivisor \in Nat \ {0}
ASSUME RatioAssumption == ConversionRatio \in Nat \ {0}
ASSUME DestinationAssumption == Chain \subseteq Destination

\* The bytes of a swap event, and what a log of a contract looks like to the
\* event attestator (getEventPreImage).
Content ==
    [nonce: Nat, erc20: Asset, destinationChainId: Destination, amount: Uint,
     sender: Address, recipient: Address, data: Data \cup {NoData}]

Preimage ==
    [originChainId: Chain, tx: Tx, emitter: Emitter, topic0: Topic, content: Content]

\* The operation that settles a given event, and nothing else does.
OperationOf(pre) ==
    [tx |-> pre.tx, originChainId |-> pre.originChainId,
     nonce |-> pre.content.nonce, erc20 |-> pre.content.erc20,
     destinationChainId |-> pre.content.destinationChainId,
     amount |-> pre.content.amount, sender |-> pre.content.sender,
     recipient |-> pre.content.recipient, data |-> pre.content.data]

Operation ==
    [tx: Tx, originChainId: Chain, nonce: Nat, erc20: Asset, destinationChainId: Destination,
     amount: Uint, sender: Address, recipient: Address, data: Data \cup {NoData}]

AdapterStorage ==
    [nonce: Nat, feesManager: Address, minFee: Uint, pastEvents: SUBSET Preimage]

Side ==
    [token      : Token,
     underlying : [Address -> Nat],
     adapter    : AdapterStorage,
     pam        : Pam,
     calling    : AddressOrZero]

-----------------------------------------------------------------------------
(***************************************************************************)
(* The lockbox (not native).                                               *)
(***************************************************************************)
Paid(u, from, to, amount) == [[u EXCEPT ![from] = @ - amount] EXCEPT ![to] = @ + amount]

\* _deposit.
CanDeposit(s, from, to, amount) ==
    /\ s.underlying[from] >= amount
    /\ CanMint(s.token, LockboxAddress, to, amount * ConversionRatio)

Deposited(s, from, to, amount) ==
    [s EXCEPT !.underlying = Paid(@, from, LockboxAddress, amount),
              !.token      = Minted(@, LockboxAddress, to, amount * ConversionRatio)]

\* _withdraw: the xERC20 is burned first, in the lockbox's name and with the
\* sender's allowance; what the ratio cannot divide stays in the lockbox, and
\* everything does that it pays to itself.
CanWithdraw(s, sender, to, amount) ==
    /\ CanBurn(s.token, LockboxAddress, sender, amount)
    /\ s.underlying[LockboxAddress] >= amount \div ConversionRatio

\* Faulty: pays out xERC20 units one for one.
WithdrawnUndivided(s, sender, to, amount) ==
    [s EXCEPT !.token      = Burned(@, LockboxAddress, sender, amount),
              !.underlying = Paid(@, LockboxAddress, to, amount)]

Withdrawn(s, sender, to, amount) ==
    [s EXCEPT !.token      = Burned(@, LockboxAddress, sender, amount),
              !.underlying = Paid(@, LockboxAddress, to, amount \div ConversionRatio)]

-----------------------------------------------------------------------------
(***************************************************************************)
(* swap.                                                                   *)
(***************************************************************************)
CalculateFee(a, amount) ==
    LET fee == (amount * FeeBasisPoints) \div FeeDivisor
    IN  IF fee < a.minFee THEN a.minFee ELSE fee

NetAmount(s, amount) == amount - CalculateFee(s.adapter, amount)

FeesTaken(s, amount) ==
    Moved(s.token, AdapterAddress, s.adapter.feesManager, CalculateFee(s.adapter, amount))

\* _finalizeSwap: fees to the fees manager, the rest is burned.
CanFinalizeSwap(s, amount) ==
    /\ amount * FeeBasisPoints <= MaxUint
    /\ CanTransfer(s.token, AdapterAddress, s.adapter.feesManager, CalculateFee(s.adapter, amount))
    /\ CalculateFee(s.adapter, amount) <= amount
    /\ CanBurn(FeesTaken(s, amount), AdapterAddress, AdapterAddress, NetAmount(s, amount))

SwapFinalized(s, amount) ==
    [s EXCEPT
        !.token = Burned(FeesTaken(s, amount), AdapterAddress, AdapterAddress, NetAmount(s, amount)),
        !.adapter.nonce = @ + 1]

\* Faulty: the event names the amount before fees.
SwapContentBeforeFees(s, amount, destination, sender, recipient, data) ==
    [nonce |-> s.adapter.nonce, erc20 |-> Erc20, destinationChainId |-> destination,
     amount |-> amount, sender |-> sender, recipient |-> recipient, data |-> data]

\* The event _finalizeSwap emits: the amount in it is the net one.
SwapContent(s, amount, destination, sender, recipient, data) ==
    [nonce |-> s.adapter.nonce, erc20 |-> Erc20, destinationChainId |-> destination,
     amount |-> NetAmount(s, amount), sender |-> sender, recipient |-> recipient, data |-> data]

\* _swapToken with the xERC20: pulled from the sender.
XERC20Pulled(s, sender, amount) ==
    [s EXCEPT !.token = TransferredFrom(@, AdapterAddress, sender, AdapterAddress, amount)]

CanSwapXERC20(s, sender, amount) ==
    /\ amount > 0
    /\ CanTransferFrom(s.token, AdapterAddress, sender, AdapterAddress, amount)
    /\ CanFinalizeSwap(XERC20Pulled(s, sender, amount), amount)

SwappedXERC20(s, sender, amount) == SwapFinalized(XERC20Pulled(s, sender, amount), amount)

\* _swapToken with the ERC20: pulled from the sender, and on the home chain
\* deposited into the lockbox.  On another chain the address of the ERC20 may
\* be that of some other token, which then stays with the adapter.
ERC20Pulled(s, sender, amount) ==
    LET pulled == [s EXCEPT !.underlying = Paid(@, sender, AdapterAddress, amount)]
    IN  IF s.token.lockbox # NoAddress
        THEN Deposited(pulled, AdapterAddress, AdapterAddress, amount)
        ELSE pulled

CanSwapERC20(s, sender, amount) ==
    /\ amount > 0
    /\ s.underlying[sender] >= amount
    /\ s.token.lockbox # NoAddress =>
          CanMint(s.token, LockboxAddress, AdapterAddress, amount * ConversionRatio)
    /\ CanFinalizeSwap(ERC20Pulled(s, sender, amount), amount)

SwappedERC20(s, sender, amount) == SwapFinalized(ERC20Pulled(s, sender, amount), amount)

-----------------------------------------------------------------------------
(***************************************************************************)
(* settle.                                                                 *)
(***************************************************************************)

\* Minting to the adapter itself and unwrapping for the recipient (home), or
\* minting to the recipient; an amount of 0 skips both.
MintedToSelf(s, amount) ==
    [s EXCEPT !.token = Approved(Minted(@, AdapterAddress, AdapterAddress, amount),
                                 AdapterAddress, LockboxAddress, amount)]

CanDeliver(s, recipient, amount) ==
    \/ amount = 0
    \/ /\ s.token.lockbox # NoAddress
       /\ CanMint(s.token, AdapterAddress, AdapterAddress, amount)
       /\ CanWithdraw(MintedToSelf(s, amount), AdapterAddress, recipient, amount)
    \/ /\ s.token.lockbox = NoAddress
       /\ CanMint(s.token, AdapterAddress, recipient, amount)

Delivered(s, recipient, amount) ==
    IF amount = 0 THEN s
    ELSE IF s.token.lockbox # NoAddress
    THEN Withdrawn(MintedToSelf(s, amount), AdapterAddress, recipient, amount)
    ELSE [s EXCEPT !.token = Minted(@, AdapterAddress, recipient, amount)]

\* Faulty: no memory of past events.
CanSettleAgain(s, chainid, op, metadata) ==
    /\ s.calling = NoAddress
    /\ op.erc20 = Erc20
    /\ IsAuthorized(s.pam, chainid, op, metadata)
    /\ CanDeliver(s, op.recipient, op.amount)

CanSettle(s, chainid, op, metadata) ==
    /\ s.calling = NoAddress        \* nonReentrant
    /\ op.erc20 = Erc20
    /\ IsAuthorized(s.pam, chainid, op, metadata)
    /\ metadata.preimage \notin s.adapter.pastEvents
    /\ CanDeliver(s, op.recipient, op.amount)

\* Up to the call of the recipient, which is made when there is user data.
Settled(s, op, metadata) ==
    [Delivered(s, op.recipient, op.amount) EXCEPT
        !.adapter.pastEvents = @ \cup {metadata.preimage},
        !.calling = IF op.data # NoData THEN op.recipient ELSE NoAddress]

=============================================================================
