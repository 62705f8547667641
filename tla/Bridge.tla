------------------------------- MODULE Bridge -------------------------------
(***************************************************************************)
(* The bridge of one token over several chains: on each chain an adapter   *)
(* with its xERC20 and PAM, on the home chain the lockbox too.  The chains *)
(* run independently and meet only through events: swap emits one, the     *)
(* event attestator signs it, and anybody may bring the signed event to    *)
(* the adapter of any chain, at any time, in any order and repeatedly.     *)
(*                                                                         *)
(* The attestator signs what it is shown, with any of its keys; whether it *)
(* was shown an event yet is no state of this specification.  Others sign  *)
(* too: Fabricated are events that no contract emitted, signed by a key    *)
(* that is not the attestator's, and ForeignLogs are events other          *)
(* contracts emit, or an adapter emits under another topic, which the      *)
(* attestator signs like any event.  With an event a relayer may submit    *)
(* any operation; Relayed are those it submits besides the right one.      *)
(*                                                                         *)
(* A chain executes one transaction at a time.  Every transaction is a     *)
(* step but one: settle calls the recipient when there is user data, and   *)
(* the recipient may call the bridge's contracts before it returns.  A     *)
(* recipient that reverts leaves no trace, so Return covers it.            *)
(*                                                                         *)
(* settlements is a history variable: what each adapter has settled, in    *)
(* the order it did (number), so that a repetition shows.                  *)
(***************************************************************************)
EXTENDS Adapter

CONSTANTS
    Home,               \* the chain of the lockbox
    EmitterOf,          \* the adapter of each chain, as its events name it
    TeeKeys,            \* the attestator's keys
    ForeignLogs, Fabricated,
    Relayed(_),
    Users,              \* who swaps, wraps and transfers
    Recipients,         \* whom they name to receive: the contracts too, if they like
    Amounts,            \* the amounts they do it with
    Payloads,           \* the user data they send
    SwapTxs,            \* the transactions they swap in
    MaxNonce,           \* bound: swaps per chain
    InitialLimit,       \* minting and burning limits of each adapter
    InitialBalance,     \* the users' ERC20 on the home chain
    TwinBalance,        \* and what they have of a token at its address elsewhere
    FirstKey,           \* the signer set at deployment
    Peers,              \* <<c, o>>: the PAM of c is deployed to believe o's adapter
    Limits, MinFees, FeesManagers, Signers, Reconfigured, NewPams   \* the owners' choices

\* What the owners may configure a PAM to believe: the attestator's keys, and
\* the swaps of the bridge's adapters.
WellConfigured(p) ==
    /\ p \in Pam
    /\ {p.teeAddress, p.teeAddressNew} \subseteq TeeKeys \cup {NoKey}
    /\ \A o \in Chain : /\ p.emitters[o] \in {EmitterOf[o], NoEmitter}
                         /\ p.chainIdToTopicZero[o] \in {SwapTopic, NoTopic}

ASSUME BridgeAssumption ==
    /\ IsFiniteSet(Chain) /\ Home \in Chain /\ MaxNonce \in Nat
    /\ EmitterOf \in [Chain -> Emitter]
    /\ TeeKeys \subseteq Key /\ FirstKey \in TeeKeys /\ Signers \subseteq TeeKeys
    /\ ForeignLogs \subseteq Preimage
    /\ \A l \in ForeignLogs : \/ l.emitter # EmitterOf[l.originChainId]
                              \/ l.topic0 \notin {SwapTopic, NoTopic}
    /\ Fabricated \subseteq Preimage
    /\ Users \subseteq Address \ {AdapterAddress, LockboxAddress}
    /\ Recipients \subseteq Address /\ SwapTxs \subseteq Tx
    /\ Amounts \subseteq Uint /\ Limits \subseteq Uint /\ MinFees \subseteq Uint
    /\ FeesManagers \subseteq Address \ {AdapterAddress} /\ FeesManagers # {}
    /\ Payloads \subseteq Data \cup {NoData}
    /\ Peers \subseteq Chain \X Chain /\ Reconfigured \subseteq Peers
    /\ \A p \in NewPams : WellConfigured(p)
    /\ SwapTopic \in Topic /\ SwapTopic # NoTopic /\ InitialLimit \in Uint /\ InitialBalance \in Nat /\ TwinBalance \in Nat

VARIABLES
    side,           \* the contracts of each chain
    logs,           \* the events emitted so far, on all chains
    settlements     \* history, see above

vars == <<side, logs, settlements>>

TypeOK ==
    /\ side \in [Chain -> Side]
    /\ logs \subseteq Preimage
    /\ settlements \subseteq [chain: Chain, number: Nat, operation: Operation]

-----------------------------------------------------------------------------
(***************************************************************************)
(* The state the deployment leaves: limits, signer, emitters and topics    *)
(* are set, and users have approved the contracts once and for all.        *)
(***************************************************************************)
DeployedToken(c) ==
    LimitsSet([NewToken EXCEPT
                  !.lockbox = IF c = Home THEN LockboxAddress ELSE NoAddress,
                  !.allowance = [a \in Address |-> [b \in Address |->
                      IF a \in Users /\ b \in {AdapterAddress, LockboxAddress} THEN MaxUint ELSE 0]]],
              AdapterAddress, InitialLimit, InitialLimit)

DeployedPam(c) ==
    [NewPam EXCEPT
        !.teeAddress = FirstKey,
        !.emitters = [o \in Chain |-> IF <<c, o>> \in Peers THEN EmitterOf[o] ELSE NoEmitter],
        !.chainIdToTopicZero = [o \in Chain |-> IF <<c, o>> \in Peers THEN SwapTopic ELSE NoTopic]]

Deployed(c, feesManager) ==
    [token      |-> DeployedToken(c),
     underlying |-> [a \in Address |-> IF a \notin Users THEN 0
                                       ELSE IF c = Home THEN InitialBalance ELSE TwinBalance],
     adapter    |-> [nonce |-> 0, feesManager |-> feesManager, minFee |-> 0, pastEvents |-> {}],
     pam        |-> DeployedPam(c),
     calling    |-> NoAddress]

Init ==
    /\ \E f \in FeesManagers : side = [c \in Chain |-> Deployed(c, f)]
    /\ logs = {}
    /\ settlements = {}

-----------------------------------------------------------------------------
\* While a recipient runs, its chain does nothing else.
MayCall(c, a) == side[c].calling \in {NoAddress, a}

Idle(c) == side[c].calling = NoAddress

\* The event a swap on chain c emits.
SwapLog(c, tx, content) ==
    [originChainId |-> c, tx |-> tx, emitter |-> EmitterOf[c], topic0 |-> SwapTopic,
     content |-> content]

SwapXERC20(c, tx, sender, amount, destination, recipient, data) ==
    /\ MayCall(c, sender)
    /\ side[c].adapter.nonce < MaxNonce
    /\ CanSwapXERC20(side[c], sender, amount)
    /\ side' = [side EXCEPT ![c] = SwappedXERC20(@, sender, amount)]
    /\ logs' = logs \cup
         {SwapLog(c, tx, SwapContent(side[c], amount, destination, sender, recipient, data))}
    /\ UNCHANGED settlements

SwapERC20(c, tx, sender, amount, destination, recipient, data) ==
    /\ MayCall(c, sender)
    /\ side[c].adapter.nonce < MaxNonce
    /\ CanSwapERC20(side[c], sender, amount)
    /\ side' = [side EXCEPT ![c] = SwappedERC20(@, sender, amount)]
    /\ logs' = logs \cup
         {SwapLog(c, tx, SwapContent(side[c], amount, destination, sender, recipient, data))}
    /\ UNCHANGED settlements

\* Whatever a relayer can bring: signed events, true or not.
Metadata ==
    [preimage: logs, signer: TeeKeys] \cup [preimage: Fabricated, signer: Key \ TeeKeys]

Settle(c, op, metadata) ==
    /\ Idle(c)
    /\ CanSettle(side[c], c, op, metadata)
    /\ side' = [side EXCEPT ![c] = Settled(@, op, metadata)]
    /\ settlements' = settlements \cup
         {[chain |-> c, number |-> Cardinality(settlements), operation |-> op]}
    /\ UNCHANGED logs

\* The recipient's receiveUserData ends, and with it settle.
Return(c) ==
    /\ ~Idle(c)
    /\ side' = [side EXCEPT ![c].calling = NoAddress]
    /\ UNCHANGED <<logs, settlements>>

-----------------------------------------------------------------------------
\* Calls of others than the bridge: the lockbox, transfers, foreign events.

Deposit(c, sender, to, amount) ==
    /\ MayCall(c, sender)
    /\ side[c].token.lockbox # NoAddress
    /\ CanDeposit(side[c], sender, to, amount)
    /\ side' = [side EXCEPT ![c] = Deposited(@, sender, to, amount)]
    /\ UNCHANGED <<logs, settlements>>

Withdraw(c, sender, to, amount) ==
    /\ MayCall(c, sender)
    /\ side[c].token.lockbox # NoAddress
    /\ CanWithdraw(side[c], sender, to, amount)
    /\ side' = [side EXCEPT ![c] = Withdrawn(@, sender, to, amount)]
    /\ UNCHANGED <<logs, settlements>>

Transfer(c, from, to, amount) ==
    /\ MayCall(c, from)
    /\ CanTransfer(side[c].token, from, to, amount)
    /\ side' = [side EXCEPT ![c].token = Moved(@, from, to, amount)]
    /\ UNCHANGED <<logs, settlements>>

\* The underlying token itself: whoever holds some may pay it to anybody, the
\* lockbox and the adapter included.
TransferERC20(c, from, to, amount) ==
    /\ MayCall(c, from)
    /\ side[c].underlying[from] >= amount
    /\ side' = [side EXCEPT ![c].underlying = Paid(@, from, to, amount)]
    /\ UNCHANGED <<logs, settlements>>

ForeignLog(log) ==
    /\ Idle(log.originChainId)
    /\ logs' = logs \cup {log}
    /\ UNCHANGED <<side, settlements>>

-----------------------------------------------------------------------------
\* The owners' calls, each on one chain, and time on all.

SetLimits(c, m, n) ==
    /\ Idle(c)
    /\ CanSetLimits(side[c].token, AdapterAddress)
    /\ side' = [side EXCEPT ![c].token = LimitsSet(@, AdapterAddress, m, n)]
    /\ UNCHANGED <<logs, settlements>>

SetMinFee(c, fee) ==
    /\ Idle(c)
    /\ side' = [side EXCEPT ![c].adapter.minFee = fee]
    /\ UNCHANGED <<logs, settlements>>

SetFeesManager(c, a) ==
    /\ Idle(c)
    /\ side' = [side EXCEPT ![c].adapter.feesManager = a]
    /\ UNCHANGED <<logs, settlements>>

\* setPAM puts another contract in the PAM's place; the rest are the calls of
\* the PAM itself.
PamStep(c, p) ==
    /\ Idle(c)
    /\ side' = [side EXCEPT ![c].pam = p]
    /\ UNCHANGED <<logs, settlements>>

\* Faulty: the past events go with the old PAM.
SetPAMForgetting(c, p) ==
    /\ Idle(c)
    /\ side' = [side EXCEPT ![c].pam = p, ![c].adapter.pastEvents = {}]
    /\ UNCHANGED <<logs, settlements>>

SetPAM(c, p) == PamStep(c, p)

SetTeeSigner(c, key) ==
    CanSetTeeSigner(side[c].pam, key) /\ PamStep(c, TeeSignerSet(side[c].pam, key))

ApplyNewTeeSigner(c) ==
    CanApplyNewTeeSigner(side[c].pam) /\ PamStep(c, NewTeeSignerApplied(side[c].pam))

SetEmitter(c, o) == PamStep(c, EmitterSet(side[c].pam, o, EmitterOf[o]))

UnsetEmitter(c, o) == PamStep(c, EmitterSet(side[c].pam, o, NoEmitter))

SetTopicZero(c, o) == PamStep(c, TopicZeroSet(side[c].pam, o, SwapTopic))

\* A second passes, between transactions.
Tick ==
    /\ \A c \in Chain : Idle(c)
    /\ side' = [c \in Chain |-> [side[c] EXCEPT !.token = SecondPassed(@),
                                                !.pam = GraceElapsing(@)]]
    /\ UNCHANGED <<logs, settlements>>

-----------------------------------------------------------------------------
SwapOrSettle ==
    \E c \in Chain :
        \/ \E tx \in SwapTxs, s \in Users, r \in Recipients, v \in Amounts, d \in Destination,
              p \in Payloads :
              SwapXERC20(c, tx, s, v, d, r, p) \/ SwapERC20(c, tx, s, v, d, r, p)
        \/ \E md \in Metadata : \E op \in Relayed(md.preimage) \cup {OperationOf(md.preimage)} :
              op \in Operation /\ Settle(c, op, md)
        \/ Return(c)

Around ==
    \/ \E c \in Chain, s \in Users, r \in Recipients, v \in Amounts :
          \/ Deposit(c, s, r, v) \/ Deposit(c, s, AdapterAddress, v)
          \/ Withdraw(c, s, r, v)
          \/ TransferERC20(c, s, r, v)
    \/ \E c \in Chain, s \in Users, r \in Address, v \in Amounts : Transfer(c, s, r, v)
    \/ \E log \in ForeignLogs : ForeignLog(log)
    \/ Tick

Administer ==
    \E c \in Chain :
        \/ \E m, n \in Limits : SetLimits(c, m, n)
        \/ \E fee \in MinFees : SetMinFee(c, fee)
        \/ \E a \in FeesManagers : SetFeesManager(c, a)
        \/ \E key \in Signers : SetTeeSigner(c, key)
        \/ ApplyNewTeeSigner(c)
        \/ \E p \in NewPams : SetPAM(c, p)
        \/ \E o \in Chain : <<c, o>> \in Reconfigured /\
              (SetEmitter(c, o) \/ UnsetEmitter(c, o) \/ SetTopicZero(c, o))

Next == SwapOrSettle \/ Around \/ Administer

Spec == Init /\ [][Next]_vars

\* Relayers submit the n-th swap of chain o to the adapter of chain c again and
\* again: if it would be accepted again and again it is settled, however often
\* a rival settlement, a signer's replacement or a recipient's call comes
\* first, which is strong fairness.  Calls end, and time passes between them.
SettleEvent(c, o, n) ==
    \E md \in Metadata :
        /\ md.preimage.originChainId = o
        /\ md.preimage.content.nonce = n
        /\ Settle(c, OperationOf(md.preimage), md)

Fairness ==
    /\ SF_vars(Tick)
    /\ \A c \in Chain : WF_vars(Return(c))
    /\ \A p \in Peers, n \in 0 .. MaxNonce - 1 : SF_vars(SettleEvent(p[1], p[2], n))

FairSpec == Spec /\ Fairness

-----------------------------------------------------------------------------
(***************************************************************************)
(* Properties.                                                             *)
(***************************************************************************)

\* The swap events of the bridge's own adapters, each the record of a swap made.
Swaps == {l \in logs : l.emitter = EmitterOf[l.originChainId] /\ l.topic0 = SwapTopic}

\* Whoever submits whatever event how often, on whichever chain, before or
\* after signers, emitters or the PAM were changed, or from within a call of
\* settle: no swap is paid out twice, on one chain or on two (pastEvents).
SettledOnce ==
    \A s, t \in settlements :
        /\ s.operation.originChainId = t.operation.originChainId
        /\ s.operation.nonce = t.operation.nonce
        => s = t

\* Everything paid out was swapped: on the chain, by the sender, and in the
\* amount the operation names, and for the chain and the recipient that got it
\* (isAuthorized with the bytes _finalizeSwap writes).
SettledAsSwapped ==
    \A s \in settlements :
        /\ s.operation \in {OperationOf(l) : l \in Swaps}
        /\ s.operation.destinationChainId = s.chain

\* The bridge as a ledger of value over the chains.
Transfers ==
    [tx: SwapTxs, originChainId: Chain, nonce: 0 .. MaxNonce - 1, erc20: {Erc20},
     destinationChainId: Destination, amount: Uint, sender: Users, recipient: Recipients,
     data: Payloads]
Locked == side[Home].underlying[LockboxAddress] * ConversionRatio
Circulating == [c \in Chain |-> side[c].token.totalSupply]
Sent == {OperationOf(l) : l \in Swaps}
Received == {s.operation : s \in settlements}

Ledger == INSTANCE CrossChainLedger WITH
    Value       <- Uint,
    Exact       <- ConversionRatio = 1,
    locked      <- Locked,
    circulating <- Circulating,
    sent        <- Sent,
    received    <- Received

\* The contracts of all chains together implement that ledger: each of their
\* transactions is one of its steps or leaves it alone (swap, settle, deposit,
\* withdraw, and a transfer of the underlying token to the lockbox, which is
\* the ledger's Donate).
ImplementsLedger == Ledger!Spec

\* The lockbox holds what circulates on all chains and what is under way, and
\* maybe more: what divisions left and what was paid to it (_deposit,
\* _withdraw, settle, swap, over all interleavings of transfers in both
\* directions).
Backed == Ledger!Solvent

\* Every swap to a chain that believes its origin, for an amount within that
\* chain's daily limit, is settled there in the end: a limit used up by other
\* transfers, a signer replaced meanwhile or a recipient's call only delay it
\* (settle reverts and is tried again).  The others' transfers end with
\* MaxNonce; rivals that never cease could keep the bucket from filling up.
EveryTransferArrives ==
    \A c, o \in Chain, n \in 0 .. MaxNonce - 1 :
        (\E l \in Swaps : /\ l.originChainId = o /\ l.content.nonce = n
                          /\ l.content.destinationChainId = c
                          /\ <<c, o>> \in Peers
                          /\ l.content.amount <= side[c].token.minter[AdapterAddress].maxLimit)
        ~> (\E s \in settlements : /\ s.chain = c /\ s.operation.originChainId = o
                                   /\ s.operation.nonce = n)

=============================================================================
