------------------------------ MODULE EosChain ------------------------------
(***************************************************************************)
(* One deployment of the bridge on EOS: the underlying token (on a home    *)
(* chain), the xERC20 token, the lockbox and the adapter, a token contract *)
(* of somebody else with the same symbols, users, and the chain that       *)
(* executes their transactions.                                            *)
(*                                                                         *)
(* A transaction is the execution of an action, then of the notifications  *)
(* it asked for in order, then, one level deeper and depth first, of the   *)
(* inline actions that any of these sent.  stack holds a frame per level,  *)
(* the deepest first; a frame has the accounts that execute its action,    *)
(* how many have, and what was sent and still waits.  The handlers work on *)
(* db; a failed check, or a level too many, restores committed.            *)
(*                                                                         *)
(* Actions that notify nobody and send nothing are one step.               *)
(***************************************************************************)
EXTENDS Integers, Sequences, FiniteSets, Functions, EosMessages

CONSTANTS
    Users, Contracts,           \* users; those of them with code of their own
    relayer,                    \* who calls settle
    tokenAccount, xtokenAccount, lockbox, adapter, fees, other, NoName,
    Home,                       \* whether the underlying token is on this chain
    Deployed,                   \* whether the owner's work is done at first
    MaxDepth,                   \* max_inline_action_depth
    Holding,                    \* of each user, at first, on a home chain
    MaxSupply, BridgeLimit, MinFee,
    Quantities, Receivers, Memos, Payloads, FreezeTargets,
    Imitated,                   \* whom other claims to transfer from
    Metadata, Operations,       \* what the relayer presents
    InitialPam,                 \* the adapter's authorization tables
    PairWord,                   \* token_bytes of the pair's adapters
    MaxAmount, DURATION, RateError,
    SwapMemo, NoMemo, NoData, Unset, Unit, FEE_BASIS_POINTS, FEE_BASIS_POINTS_DIVISOR,
    ChainId, Low64, Key, EmptyKey, ForeignKey, Bytes32, Zero32, GRACE_PERIOD

Account == Users \cup {relayer, tokenAccount, xtokenAccount, lockbox, adapter, fees, other}

TokenSymbol == 1
XSymbol == 2

\* symbol_code("XXX"), of an adapter without an underlying token.
NoSymbol == 3

T == INSTANCE EosToken WITH Self <- tokenAccount
X == INSTANCE EosXToken WITH Self <- xtokenAccount
L == INSTANCE EosLockbox WITH Self <- lockbox
A == INSTANCE EosAdapter WITH Self <- adapter
P == INSTANCE EosPamContract

ASSUME ChainAssumption ==
    /\ Contracts \subseteq Users
    /\ Home \in BOOLEAN /\ Deployed \in BOOLEAN
    /\ MaxDepth \in Nat
    /\ Receivers \subseteq Account /\ FreezeTargets \subseteq Account /\ Imitated \subseteq Account
    /\ InitialPam \in P!Pam
    /\ Unit \in Nat \ {0}
    /\ FEE_BASIS_POINTS \in Nat /\ FEE_BASIS_POINTS_DIVISOR \in Nat \ {0}

\* The accounts are different; name(0) is none of them.
ASSUME AccountsAssumption ==
    /\ IsFiniteSet(Users) /\ NoName \notin Account
    /\ Users \cap {tokenAccount, xtokenAccount, lockbox, adapter, fees, other} = {}
    /\ adapter \notin {tokenAccount, xtokenAccount, lockbox, fees, other}
    /\ lockbox \notin {tokenAccount, xtokenAccount, fees, other}
    /\ tokenAccount \notin {xtokenAccount, other} /\ xtokenAccount # other

ASSUME QuantitiesAssumption ==
    /\ Quantities \subseteq Int
    /\ MaxSupply \in Nat /\ BridgeLimit \in Nat /\ MinFee \in Nat /\ Holding \in Nat
    /\ \A m \in Metadata : m.preimage.content.amount \in Nat

\* Supplies and limits are assets, and what users have was issued.
ASSUME AssetsAssumption ==
    /\ MaxAmount \in Nat \ {0} /\ DURATION \in Nat \ {0} /\ RateError \in Nat
    /\ MaxSupply <= MaxAmount /\ BridgeLimit <= MaxAmount
    /\ Cardinality(Users) * Holding <= MaxSupply

\* A memo that a swap can read has commas, and the name of no account has.
ASSUME MemosAssumption == SwapMemo \cap Account = {}

VARIABLES
    db,         \* the tables of all contracts, as the transaction sees them
    committed,  \* the tables when no transaction runs
    stack       \* the frames of the running transaction, <<>> if none

vars == <<db, committed, stack>>

-----------------------------------------------------------------------------
\* A pair as the adapter and the lockbox register it.
Registry ==
    [token         |-> IF Home THEN tokenAccount ELSE NoName,
     token_symbol  |-> IF Home THEN TokenSymbol ELSE NoSymbol,
     token_bytes   |-> PairWord,
     xerc20        |-> xtokenAccount,
     xerc20_symbol |-> XSymbol,
     min_fee       |-> MinFee]

Pair == [token |-> tokenAccount, token_symbol |-> TokenSymbol,
         xerc20 |-> xtokenAccount, xerc20_symbol |-> XSymbol]

\* The tokens exist, and on a home chain the users have some.
Bare ==
    [token   |-> IF ~Home THEN T!NewToken
                 ELSE [T!NewToken EXCEPT
                          !.maxSupply = MaxSupply, !.issuer = tokenAccount,
                          !.supply = Cardinality(Users) * Holding,
                          !.rows = [a \in Account |->
                              IF a \notin Users THEN T!NoRow
                              ELSE [payer |-> tokenAccount, balance |-> Holding]]],
     xtoken  |-> X!FreezeAccSet(X!Created(X!NewXToken, MaxSupply), relayer),
     lockbox |-> {},
     adapter |-> A!NewAdapter,
     pam     |-> InitialPam,
     events  |-> <<>>]

LimitsOf(d) ==
    LET rate == CHOOSE r \in X!RatesOf(BridgeLimit) : TRUE
    IN  X!LimitsSet(d.xtoken, adapter, BridgeLimit, BridgeLimit, rate, rate)

Ready ==
    [Bare EXCEPT !.xtoken  = IF Home THEN X!LockboxSet(LimitsOf(Bare), lockbox) ELSE LimitsOf(Bare),
                 !.lockbox = IF Home THEN {Pair} ELSE {},
                 !.adapter = A!FeesManagerSet(A!Created(@, Registry), fees)]

Init ==
    /\ db = IF Deployed THEN Ready ELSE Bare
    /\ committed = db
    /\ stack = <<>>

-----------------------------------------------------------------------------
(***************************************************************************)
(* The chain.                                                              *)
(***************************************************************************)
Frame(act) == [act |-> act, receivers |-> << act.code >>, done |-> 0, sent |-> <<>>]

Submit(act) == stack = <<>> /\ stack' = << Frame(act) >> /\ UNCHANGED <<db, committed>>

\* Account r executes the action on top.
Executes(r) ==
    /\ stack # <<>>
    /\ Head(stack).done < Len(Head(stack).receivers)
    /\ Head(stack).receivers[Head(stack).done + 1] = r

\* require_recipient has no effect for an account that is already notified.
Notify(receivers, account) ==
    IF \E i \in DOMAIN receivers : receivers[i] = account
    THEN receivers ELSE Append(receivers, account)

NotifyBoth(receivers, first, second) == Notify(Notify(receivers, first), second)

Revert == db' = committed /\ stack' = <<>> /\ UNCHANGED committed

Told == Head(stack).receivers

\* The frame when one more account has executed its action.
Executed(frame, receivers, sent) ==
    [act |-> frame.act, receivers |-> receivers, done |-> frame.done + 1,
     sent |-> frame.sent \o sent]

\* A handler: if its checks hold, the tables it leaves, the accounts told
\* with those it notifies, and what it sends.
Handle(checks, after, receivers, sent) ==
    IF ~checks THEN Revert
    ELSE /\ db' = after
         /\ stack' = << Executed(Head(stack), receivers, sent) >> \o Tail(stack)
         /\ UNCHANGED committed

AllExecuted == stack # <<>> /\ Head(stack).done = Len(Head(stack).receivers)

Descend ==
    /\ AllExecuted /\ Head(stack).sent # <<>>
    /\ IF Len(stack) > MaxDepth THEN Revert
       ELSE /\ stack' = << Frame(Head(Head(stack).sent)),
                           [Head(stack) EXCEPT !.sent = Tail(@)] >> \o Tail(stack)
            /\ UNCHANGED <<db, committed>>

Return ==
    /\ AllExecuted /\ Head(stack).sent = <<>>
    /\ stack' = Tail(stack)
    /\ committed' = IF Len(stack) = 1 THEN db ELSE committed
    /\ UNCHANGED db

-----------------------------------------------------------------------------
(***************************************************************************)
(* The handlers.                                                           *)
(***************************************************************************)
Act == Head(stack).act

Runs(code, name) == Executes(code) /\ Act.code = code /\ Act.name = name

Notified(r) == Executes(r) /\ Act.code # r

\* on_notify("*::mint") and on_notify("*::transfer"), of adapter and lockbox.
HasHandler(r) == r \in {adapter, lockbox} /\ Act.name \in {"mint", "transfer"}

TokenTransfer ==
    /\ Runs(tokenAccount, "transfer")
    /\ Handle(/\ Act.symbol = TokenSymbol
              /\ T!CanTransfer(db.token, {Act.from}, Act.from, Act.to, Act.amount),
              [db EXCEPT !.token = T!Transferred(@, {Act.from}, Act.from, Act.to, Act.amount)],
              NotifyBoth(Told, Act.from, Act.to), <<>>)

XTokenTransfer ==
    /\ Runs(xtokenAccount, "transfer")
    /\ Handle(/\ Act.symbol = XSymbol
              /\ X!CanTransfer(db.xtoken, {Act.from}, Act.from, Act.to, Act.amount),
              [db EXCEPT !.xtoken = X!Transferred(@, {Act.from}, Act.from, Act.to, Act.amount)],
              NotifyBoth(Told, Act.from, Act.to), <<>>)

XTokenMint ==
    /\ Runs(xtokenAccount, "mint")
    /\ Handle(/\ Act.symbol = XSymbol
              /\ X!CanMint(db.xtoken, {Act.from}, Act.from, Act.to, Act.amount),
              [db EXCEPT !.xtoken = X!Minted(@, Act.from, Act.to, Act.amount)],
              Notify(Told, Act.to), <<>>)

XTokenBurn ==
    /\ Runs(xtokenAccount, "burn")
    /\ Handle(/\ Act.symbol = XSymbol
              /\ X!CanBurn(db.xtoken, {Act.from}, Act.from, Act.amount),
              [db EXCEPT !.xtoken = X!Burned(@, Act.from, Act.amount)],
              Told, <<>>)

\* Another contract may say anything, and notifies who it names.
OtherToken ==
    /\ Executes(other) /\ Act.code = other
    /\ Handle(TRUE, db, NotifyBoth(Told, Act.from, Act.to), <<>>)

AdapterSettle ==
    /\ Runs(adapter, "settle")
    /\ LET op == Act.operation
           id == Act.metadata.preimage
       IN  Handle(A!CanSettle(db.adapter, op, id, P!IsAuthorized(db.pam, op, Act.metadata),
                              db.xtoken.lockbox),
                  [db EXCEPT !.adapter = A!Settled(@, id)],
                  IF A!SettleNotifies(op) THEN Notify(Told, op.recipient) ELSE Told,
                  A!SettleSends(db.adapter, op, db.xtoken.lockbox))

\* The event is what swap prints.
AdapterSwap ==
    /\ Runs(adapter, "swap")
    /\ Handle(Act.from = adapter, [db EXCEPT !.events = Append(@, Act.memo)], Told, <<>>)

AdapterNotified ==
    /\ Notified(adapter) /\ HasHandler(adapter)
    /\ IF A!Ignores(Act) THEN Handle(TRUE, db, Told, <<>>)
       ELSE Handle(A!CanReceive(db.adapter, Act, db.xtoken.lockbox),
                   [db EXCEPT !.adapter = A!Received(@, Act)], Told,
                   A!ReceiveSends(db.adapter, Act, db.xtoken.lockbox))

LockboxNotified ==
    /\ Notified(lockbox) /\ HasHandler(lockbox)
    /\ IF L!Ignores(Act) THEN Handle(TRUE, db, Told, <<>>)
       ELSE Handle(L!CanReceive(db.lockbox, Act), db, Told, L!Sent(db.lockbox, Act))

\* What a user may send: either token, to a contract or to another user.  He
\* may also have other claim a transfer, in whose name it likes.
Transfers(u) ==
    {m \in {Message(c[1], "transfer", from, to, c[2], q, memo) :
                c \in {<<tokenAccount, TokenSymbol>>, <<xtokenAccount, XSymbol>>,
                       <<other, TokenSymbol>>, <<other, XSymbol>>},
                from \in {u} \cup Imitated, to \in Receivers \ {u},
                q \in Quantities, memo \in Memos} :
        /\ m.code = tokenAccount => Home
        /\ m.code # other => m.from = u}

\* A user's contract may refuse, do nothing, or pass on what it was sent.
UserNotified(u) ==
    /\ Notified(u)
    /\ \/ Handle(TRUE, db, Told, <<>>)
       \/ u \in Contracts /\ Revert
       \/ /\ u \in Contracts
          /\ \E m \in Transfers(u) : m.to = adapter /\ Handle(TRUE, db, Told, <<m>>)

\* Accounts without code, and contracts without a handler for it.
NobodyNotified == \E r \in Account \ Users :
    Notified(r) /\ ~HasHandler(r) /\ Handle(TRUE, db, Told, <<>>)

Execution ==
    \/ TokenTransfer \/ XTokenTransfer \/ XTokenMint \/ XTokenBurn \/ OtherToken
    \/ AdapterSettle \/ AdapterSwap \/ AdapterNotified \/ LockboxNotified
    \/ \E u \in Users : UserNotified(u)
    \/ NobodyNotified
    \/ Descend \/ Return

-----------------------------------------------------------------------------
(***************************************************************************)
(* What transactions start with, and actions that are one step.            *)
(***************************************************************************)
SubmitTransfer == \E u \in Users : \E m \in Transfers(u) : Submit(m)

CallSettle(op, m) ==
    Submit([code |-> adapter, name |-> "settle", from |-> relayer,
            operation |-> op, metadata |-> m])

SubmitSettle == \E op \in Operations, m \in Metadata : CallSettle(op, m)

OneStep(checks, after) ==
    /\ stack = <<>> /\ checks
    /\ db' = after /\ committed' = after
    /\ UNCHANGED stack

CreateAdapter ==
    OneStep(A!CanCreate(db.adapter, {adapter}, Home => db.token.maxSupply > 0),
            [db EXCEPT !.adapter = A!Created(@, Registry)])

CreatePair ==
    OneStep(L!CanCreate(db.lockbox, {lockbox}, Pair, db.token.maxSupply > 0),
            [db EXCEPT !.lockbox = L!Created(@, Pair)])

SetLockbox ==
    OneStep(Home, [db EXCEPT !.xtoken = X!LockboxSet(@, lockbox)])

SetLimits ==
    OneStep(X!CanSetLimits(db.xtoken, {xtokenAccount}, adapter, BridgeLimit, BridgeLimit),
            [db EXCEPT !.xtoken = LimitsOf(db)])

SetFeesManager ==
    OneStep(A!CanSetFeesManager(db.adapter, {adapter}),
            [db EXCEPT !.adapter = A!FeesManagerSet(@, fees)])

AddUserData == \E u \in Users, payload \in Payloads :
    OneStep(A!CanAddUserData({u}, u, payload),
            [db EXCEPT !.adapter = A!UserDataSet(@, u, payload)])

FreeUserData == \E u \in Users :
    OneStep(TRUE, [db EXCEPT !.adapter = A!UserDataSet(@, u, NoData)])

Freeze == \E a \in FreezeTargets :
    OneStep(X!CanFreeze(db.xtoken, {relayer}, a), [db EXCEPT !.xtoken = X!Frozen(@, a)])

Unfreeze == \E a \in FreezeTargets :
    OneStep(X!CanUnfreeze(db.xtoken, {relayer}, a), [db EXCEPT !.xtoken = X!Unfrozen(@, a)])

Tick == OneStep(TRUE, [db EXCEPT !.xtoken = X!AllOlder(@)])

Between ==
    \/ SubmitTransfer \/ SubmitSettle
    \/ CreateAdapter \/ CreatePair \/ SetLockbox \/ SetLimits \/ SetFeesManager
    \/ AddUserData \/ FreeUserData \/ Freeze \/ Unfreeze \/ Tick

Next == Execution \/ Between

Spec == Init /\ [][Next]_vars

\* The chain executes a transaction it has begun, seconds pass between
\* transactions, and the relayer keeps presenting each event.
FairSpec ==
    /\ Spec
    /\ WF_vars(Execution)
    /\ SF_vars(Tick)
    /\ \A m \in Metadata : SF_vars(CallSettle(P!OperationOf(m.preimage), m))

-----------------------------------------------------------------------------
(***************************************************************************)
(* Properties.                                                             *)
(***************************************************************************)
TypeOK ==
    /\ \A d \in {db, committed} :
          /\ d.token \in T!Token /\ d.xtoken \in X!XToken /\ d.pam \in P!Pam
          /\ d.lockbox \subseteq {Pair}
          /\ d.adapter.registry \in {Unset, Registry} /\ d.adapter.nonce \in Nat
          /\ d.adapter.feesmanager \in {NoName, fees}
    /\ Len(stack) <= MaxDepth + 1

Balance(d, a) == d.token.rows[a].balance + d.xtoken.rows[a].balance

UnitsOf(event_id) == A!AdjustPrecision(event_id.content.amount)

SettledEvents(d) == {r.event_id : r \in d.adapter.past}

SettledUnits(d) == SumFunction([e \in SettledEvents(d) |-> UnitsOf(e)])

SwappedUnits(d) == SumFunction([i \in DOMAIN d.events |-> d.events[i].amount \div Unit])

\* The wrapped tokens are what the lockbox holds and what was settled, less
\* what was swapped, after every transaction, when what is settled is counted
\* as the adapter counts it (adjust_precision): no order of notifications and
\* inline actions, no contract that refuses, re-enters or imitates a token,
\* and no moment of the deployment separates collateral, supply and events.
Backed ==
    committed.xtoken.supply
        = committed.token.rows[lockbox].balance + SettledUnits(committed) - SwappedUnits(committed)

\* Between transactions the adapter keeps nothing of what passes through it,
\* and the lockbox no xERC20 token: whatever they are sent is passed on in
\* the same transaction, or it reverts (ontransfer of both).
NothingStranded ==
    Balance(committed, adapter) = 0 /\ committed.xtoken.rows[lockbox].balance = 0

\* The adapter's nonce counts its settlements and swaps, and each has one of
\* its own, also those that begin inside another (settle, ontransfer, and
\* docs/contracts-spec.md:40).
OperationsNumbered ==
    LET a == committed.adapter
        numbers == {r.notused : r \in a.past} \cup
                   {committed.events[i].nonce : i \in DOMAIN committed.events}
    IN  /\ numbers = 0 .. a.nonce - 1
        /\ Cardinality(a.past) + Len(committed.events) = a.nonce

\* A user's data is removed by the user or taken into one event, the one that
\* names its owner (extract_memo_args).
UserDataTaken ==
    [][ \A u \in Users :
          LET data == committed.adapter.userdata[u]
          IN  /\ data # NoData
              /\ committed'.adapter.userdata[u] = NoData
              => \/ FreeUserData
                 \/ Cardinality({i \in DOMAIN committed'.events :
                        /\ i > Len(committed.events)
                        /\ committed'.events[i].sender = u
                        /\ committed'.events[i].data = data}) = 1 ]_vars

-----------------------------------------------------------------------------
Bottom == stack[Len(stack)].act

Reverts == stack # <<>> /\ stack' = <<>> /\ UNCHANGED committed

\* The collateral a settlement of q units takes, when a lockbox is set.
CanRelease(d, q) ==
    d.xtoken.lockbox = lockbox =>
        d.lockbox = {Pair} /\ d.token.rows[lockbox].balance >= q

CanMintUnits(d, q) ==
    /\ q \in 1 .. d.xtoken.maxSupply - d.xtoken.supply
    /\ adapter \in d.xtoken.bridges
    /\ q <= X!CurrentLimit(d.xtoken.minting[adapter])

\* A settlement fails for these reasons only: its own checks, a part of a
\* unit, the minting limit and supply, and missing collateral.  Each of the
\* handlers behind it accepts what the one before it sends, in the depth the
\* chain allows (settle to token_transfer_from_lockbox).
SettlementsGoThrough ==
    [][ Reverts /\ Bottom.name = "settle" =>
          LET d == committed
              op == Bottom.operation
          IN  ~ /\ A!CanSettle(d.adapter, op, Bottom.metadata.preimage,
                               P!IsAuthorized(d.pam, op, Bottom.metadata), d.xtoken.lockbox)
                /\ op.amount > 0 =>
                      LET q == A!AdjustPrecision(op.amount)
                      IN  CanMintUnits(d, q) /\ CanRelease(d, q) ]_vars

\* A swap of either token fails for these reasons only: what the sender lacks,
\* an adapter that is not ready, a memo that says nothing, fees that are zero
\* or leave nothing, the burning limit, a frozen party and, when the tokens
\* are wrapped on the way, a lockbox that is not ready or a full supply.
SwapsGoThrough ==
    [][ Reverts /\ Bottom.name = "transfer" /\ Bottom.to = adapter /\ Bottom.code # other =>
          LET d == committed
              m == Bottom
              fee == A!CalculateFees(d.adapter, m.amount)
              wraps == m.code = tokenAccount
          IN  ~ /\ IF wraps THEN d.token.rows[m.from].balance >= m.amount
                   ELSE d.xtoken.rows[m.from].balance >= m.amount /\ m.from \notin d.xtoken.frozen
                /\ A!IsCreated(d.adapter) /\ d.adapter.feesmanager = fees
                /\ A!CanExtract(d.adapter, m.memo)
                /\ 0 < fee /\ fee < m.amount
                /\ adapter \in d.xtoken.bridges
                /\ m.amount - fee <= X!CurrentLimit(d.xtoken.burning[adapter])
                /\ {adapter, fees} \cap d.xtoken.frozen = {}
                /\ wraps => /\ d.xtoken.lockbox = lockbox /\ d.lockbox = {Pair}
                            /\ m.amount <= d.xtoken.maxSupply - d.xtoken.supply ]_vars

\* An event that has nothing to mint, or what the daily limit lets through, is
\* settled in the end, although settlements revert while others have used the
\* limit up and users' transactions come between (settle, mint,
\* get_current_limit).
SettlementsArrive ==
    \A m \in Metadata :
        m.preimage.content.amount = 0 \/ UnitsOf(m.preimage) \in 1 .. BridgeLimit =>
            <>(\E r \in committed.adapter.past : r.event_id = m.preimage)

-----------------------------------------------------------------------------
\* What all accounts but the bridge's own adapter and lockbox hold, in either
\* form, after each transaction.
RecipientOf(event_id) == event_id.content.recipient

Ledger == INSTANCE EosLedger WITH
    Wallet      <- Account \ {adapter, lockbox},
    FeesManager <- fees,
    Event       <- {m.preimage : m \in Metadata},
    Recipient   <- RecipientOf,
    Units       <- UnitsOf,
    Wealth      <- 0 .. MaxAmount,
    held        <- [w \in Account \ {adapter, lockbox} |-> Balance(committed, w)],
    settled     <- SettledEvents(committed),
    announced   <- [i \in DOMAIN committed.events |-> committed.events[i].amount \div Unit]

\* While no user's contract answers a notification, a transaction of the
\* chain is a step of the ledger or changes nothing in it: through all inline
\* actions a settlement pays its recipient the units of its event, a swap takes
\* from its sender what it announces and the fee, and wrapping, unwrapping
\* and what other tokens' contracts claim change no wallet.
ImplementsLedger == Ledger!Spec

=============================================================================
