----------------------------- MODULE EosAdapter -----------------------------
(***************************************************************************)
(* The adapter of EOS, adapter.cpp, as a value: its registry of one pair,  *)
(* its nonce, its past events and its users' data, and for each action and *)
(* notification its checks, the tables it leaves and what it sends.  (The  *)
(* tables of the authorization are EosPamContract's.)                      *)
(*                                                                         *)
(* A memo of a swap is a record [sender, chain, recipient, has_userdata].  *)
(* The singletons regadapter and storage are both written first by create, *)
(* so one test stands for both.                                            *)
(***************************************************************************)
EXTENDS Integers, FiniteSets, EosMessages

CONSTANTS
    Self,                       \* the account of the contract
    Account, NoName,            \* as in EosRows
    SwapMemo,                   \* the memos extract_memo_args takes
    NoMemo,                     \* the empty memo
    NoData,                     \* no bytes; no row of user data
    Unset,                      \* no row
    Unit,                       \* 10^(18 - precision): wei in one unit
    MaxAmount,                  \* asset::max_amount, 2^62 - 1
    FEE_BASIS_POINTS, FEE_BASIS_POINTS_DIVISOR

\* past is a set of rows [notused, event_id]; notused is the primary key.
NewAdapter ==
    [registry |-> Unset, nonce |-> 0, feesmanager |-> NoName, past |-> {},
     userdata |-> [a \in Account |-> NoData]]

IsCreated(a) == a.registry # Unset

-----------------------------------------------------------------------------
\* The owner's actions and the users' data.

\* symbolsExist: the contracts have the symbols, with these precisions.
CanCreate(a, auth, symbolsExist) == Self \in auth /\ ~IsCreated(a) /\ symbolsExist

Created(a, registry) == [a EXCEPT !.registry = registry]

CanSetFeesManager(a, auth) == Self \in auth /\ IsCreated(a)

FeesManagerSet(a, fee_manager) == [a EXCEPT !.feesmanager = fee_manager]

CanAddUserData(auth, caller, payload) == caller \in auth /\ payload # NoData

UserDataSet(a, account, payload) == [a EXCEPT !.userdata[account] = payload]

-----------------------------------------------------------------------------
(***************************************************************************)
(* settle: authorized is check_authorization's answer, event_id what it    *)
(* hashes, lockbox what the xERC20 contract's singleton holds.             *)
(***************************************************************************)
\* How many values an int64_t has: 2^64.
Int64s == 4 * (MaxAmount + 1)

\* asset takes the quotient as an int64_t, which keeps its low bits only.
AdjustPrecision(amount) ==
    LET low == (amount \div Unit) % Int64s
    IN  IF 2 * low >= Int64s THEN low - Int64s ELSE low

\* "magnitude of asset amount must be less than 2^62".
IsAsset(amount) == AdjustPrecision(amount) \in -MaxAmount .. MaxAmount

IsPast(a, event_id) == \E r \in a.past : r.event_id = event_id

\* Faulty: an event that was settled may be settled again.
CanSettleAgain(a, operation, event_id, authorized, lockbox) ==
    /\ IsCreated(a)
    /\ a.registry.token_bytes = operation.token
    /\ authorized
    /\ ~\E r \in a.past : r.notused = a.nonce
    /\ operation.amount > 0 => IsAsset(operation.amount) /\ lockbox \in Account \cup {NoName}

\* emplace refuses a primary key that is taken.
CanSettle(a, operation, event_id, authorized, lockbox) ==
    /\ IsCreated(a)
    /\ a.registry.token_bytes = operation.token
    /\ authorized
    /\ ~IsPast(a, event_id)
    /\ ~\E r \in a.past : r.notused = a.nonce
    /\ operation.amount > 0 => IsAsset(operation.amount) /\ lockbox \in Account \cup {NoName}

Settled(a, event_id) ==
    [a EXCEPT !.past = @ \cup {[notused |-> a.nonce, event_id |-> event_id]},
              !.nonce = @ + 1]

\* The memo carries the recipient to where the collateral is released.
SettleSends(a, operation, lockbox) ==
    IF operation.amount = 0 THEN <<>>
    ELSE << Message(a.registry.xerc20, "mint", Self,
                    IF lockbox = NoName THEN operation.recipient ELSE lockbox,
                    a.registry.xerc20_symbol, AdjustPrecision(operation.amount),
                    operation.recipient) >>

\* require_recipient, of an operation with data.
SettleNotifies(operation) == operation.data # NoData

-----------------------------------------------------------------------------
(***************************************************************************)
(* ontransfer and onmint, notified of action m.                            *)
(***************************************************************************)
Ignores(m) == m.from = Self

IsTokenTransfer(a, m) == m.symbol = a.registry.token_symbol

\* Faulty: the underlying token's contract is left out.
IsTrustedXERC20(a, m, lockbox) == m.code \in {lockbox, a.registry.xerc20}

IsTrusted(a, m, lockbox) == m.code \in {lockbox, a.registry.xerc20, a.registry.token}

CalculateFees(a, amount) ==
    LET fee == (FEE_BASIS_POINTS * amount) \div FEE_BASIS_POINTS_DIVISOR
    IN  IF fee < a.registry.min_fee THEN a.registry.min_fee ELSE fee

CanExtract(a, memo) ==
    /\ memo \in SwapMemo
    /\ memo.sender \in Account
    /\ memo.has_userdata => a.userdata[memo.sender] # NoData

\* xerc20_transfer_from_any.
CanSwap(a, m) ==
    /\ a.feesmanager \in Account
    /\ m.amount >= CalculateFees(a, m.amount)
    /\ CanExtract(a, m.memo)

CanReceive(a, m, lockbox) ==
    /\ m.to = Self
    /\ m.amount > 0
    /\ IsCreated(a)
    /\ m.symbol \in {a.registry.token_symbol, a.registry.xerc20_symbol}
    /\ IsTrusted(a, m, lockbox)
    /\ IF ~IsTokenTransfer(a, m) THEN CanSwap(a, m)
       ELSE /\ lockbox \in Account
            /\ m.from = lockbox => m.memo \in Account

\* Faulty: the number of the event is not used up.
ReceivedSameNonce(a, m) ==
    IF IsTokenTransfer(a, m) THEN a
    ELSE [a EXCEPT !.userdata = IF ~m.memo.has_userdata THEN @
                                ELSE [@ EXCEPT ![m.memo.sender] = NoData]]

Received(a, m) ==
    IF IsTokenTransfer(a, m) THEN a
    ELSE [a EXCEPT !.nonce = @ + 1,
                   !.userdata = IF ~m.memo.has_userdata THEN @
                                ELSE [@ EXCEPT ![m.memo.sender] = NoData]]

\* to_bytes32 of the token's name; of name(0), the zero word.
TokenWord(token) == [ascii |-> token]

\* Faulty: the data is read after its row is erased.
SwapEventErased(a, m) ==
    [nonce |-> a.nonce, token |-> TokenWord(a.registry.token), chain |-> m.memo.chain,
     amount |-> (m.amount - CalculateFees(a, m.amount)) * Unit,
     sender |-> m.memo.sender, recipient |-> m.memo.recipient,
     data |-> Received(a, m).userdata[m.memo.sender]]

SwapEvent(a, m) ==
    [nonce |-> a.nonce, token |-> TokenWord(a.registry.token), chain |-> m.memo.chain,
     amount |-> (m.amount - CalculateFees(a, m.amount)) * Unit,
     sender |-> m.memo.sender, recipient |-> m.memo.recipient,
     data |-> IF m.memo.has_userdata THEN a.userdata[m.memo.sender] ELSE NoData]

\* What it sends, in order: collateral it was sent by the lockbox goes to the
\* recipient in the memo, a user's to the lockbox, and xERC20 tokens are
\* split into fees and what is burned and announced by swap.
ReceiveSends(a, m, lockbox) ==
    LET fee == CalculateFees(a, m.amount)
        xerc20(name, to, amount, memo) ==
            Message(a.registry.xerc20, name, Self, to, m.symbol, amount, memo)
        token(to) == Message(a.registry.token, "transfer", Self, to, m.symbol, m.amount, m.memo)
    IN  IF ~IsTokenTransfer(a, m)
        THEN << xerc20("transfer", a.feesmanager, fee, NoMemo),
                xerc20("burn", Self, m.amount - fee, m.memo),
                Message(Self, "swap", Self, Self, m.symbol, 0, SwapEvent(a, m)) >>
        ELSE << token(IF m.from = lockbox THEN m.memo ELSE lockbox) >>

=============================================================================
