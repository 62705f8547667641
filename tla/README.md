# pNetwork v4 in TLA+

pNetwork v4 moves a token between chains. On its *home* chain the token is
locked in a lockbox and an xERC20 is minted for it one to one; an *adapter*
burns xERC20 on one chain (`swap`, which emits an event), a trusted *event
attestator* signs the event, and anybody brings the signed event to the adapter
of another chain (`settle`), which asks its *PAM* whether to believe it and
mints, or on the home chain unlocks. The repository has the contracts twice, in
Solidity (`solidity/`) and for Antelope/EOS in C++ (`cpp/`), and a simulator of
the attestator in JavaScript.

## 1. Inventory

| Component | State | Operations | Talks to | What is hard | What makes it correct |
|---|---|---|---|---|---|
| XERC20 (`XERC20.sol`) | balances, supply, allowances, per bridge two rate-limit buckets, lockbox, frozen accounts | mint, burn, ERC20 calls, setLimits, setLockbox, freeze, unfreeze, withdrawFrozenAssets | called by adapter, lockbox, users | bucket arithmetic over time, overflow, setLimits within a window, freezing against every other path | limits bound every window; spent quota survives setLimits; frozen funds move only by seizure; balances add up |
| XERC20Lockbox | (its ERC20 balance), conversion ratio | deposit(To), withdraw(To), native variants | ERC20, XERC20 | truncation | collateral covers what circulates |
| Adapter (`Adapter.sol`) | nonce, feesManager, minFee, pam, pastEvents | swap, settle, setFeesManager, setPAM, setMinFee | all of the above, the recipient's `receiveUserData` | replays, events out of order, recipients that call back or are the bridge's own contracts, owners reconfiguring in between | each swap settles at most once, as swapped, and in the end |
| PAM (`PAM.sol`) | signer, pending signer and threshold, emitters, topics | setTeeSigner, applyNewTeeSigner, setEmitter, unsetEmitter, setTopicZero, isAuthorized | asked by the adapter | announcements over announcements, open apply | signers change on notice only; the operation is bound by signed bytes |
| FeesManager | allowances per node and token | setAllowance, increaseAllowance, withdraw(To) | receives swap's fees | allowance above balance | never pays more than allowed |
| XERC20Factory | registries | deployXERC20, deployLockbox | XERC20.setLockbox | order of deployment | one lockbox per token |
| XERC20-PTokenCompat (2 variants) | as XERC20, upgraded storage of pToken v1 | as XERC20, owner sets the lockbox | as XERC20 | mint and burn skip the frozen check | as XERC20 |
| Event attestator (JS) | key, chain, version | getEventId, sign | signs events of any contract | one event, one id | the id binds context, emitter, topics and data |
| EOS adapter (`adapter.cpp`) | registry, nonce, past events, user data, fees manager, lockbox's account | create, setfeemanagr, adduserdata, freeuserdata, settle, swap; handlers of transfer and mint notifications | sends inline actions to token, xERC20, lockbox, itself; notified by both tokens | a settlement or a swap is a tree of inline actions and notifications, and every handler must recognise its turn; re-entry from recipients; user data taken later than it was put down | nothing stays in the adapter; every event has a number of its own; a transaction fails for stated reasons only |
| EOS PAM (`pam.hpp`, tables of the adapter) | key, proposed key, time of change, local chain id, mappings | setchainid, settee, applynewtee, setorigin; check_authorization | asked by settle | tables keyed by 8 of 32 bytes; a proposal over a proposal; an apply without one | keys change on notice; only registered origins pass; one signed event, one operation |
| EOS xERC20 token (`xerc20.token.cpp`) | stats, accounts, bridges, lockbox, freezing account, frozen accounts | create, mint, burn, transfer, open, close, setlockbox, setlimits, setfreezeacc, freeze, unfreeze, pullfrozen | called and notifying as above | rates kept as floats; asset range; who pays for a row; frozen against every other path | as XERC20 |
| EOS lockbox (`lockbox.cpp`) | registry of pairs | create; handlers of transfer and mint notifications | both tokens | look-ups by symbol alone and by `lower_bound`, over several pairs, beside bridges, frozen accounts and full supplies | it keeps, per xERC20 contract, as much as it wrapped; it answers every transfer it can cover |
| EOS fees manager (`feesmanager.cpp`) | allowances per node, total per token contract | setallowance, incallowance, withdrawto, withdrawmtto | receives fees, sends transfers | total kept by contract and rows by symbol, written by four actions; nobody is asked for authority to withdraw | the total is the sum; what was allowed is there, and goes to the node once |
| EOS token (`eosio.token.cpp`) | stats, accounts | create, issue, retire, transfer, open, close | notifies sender and recipient | rows whose payer changes | supply is the sum of balances |
| EOS conversions (`utils.hpp`) | none | amounts, words, hexadecimal text, memos, look-ups of bytes | used by adapter and PAM | widths: 64, 128 and 256 bits, precisions | each is the inverse of what the other chain or the attestator does |

The hard behaviours, each at its line, are the `hazards` of `PROJECT.json`.

## 2. The modules

```
BridgeLimits            the rate limiter's arithmetic
  XERC20Token           the token as a value: Can... and the storage it leaves
    XERC20              the token as a state machine, with history
    Adapter             lockbox and adapter of one chain as values
PAMContract             the PAM as a value ----^
  PAM                   the PAM as a state machine, with history
Bridge                  all chains, the events between them            MCBridge
CrossChainLedger        what Bridge implements

EosRows                 the holders' rows, and who pays for them
  EosToken              the underlying token as a value
    EosIssuance         ... as a state machine
  EosXToken             the xERC20 token as a value
    EosXERC20           ... as a state machine, with history
EosMessages             what token contracts are sent, and notify of
  EosLockbox            the lockbox's table and handlers
    EosPairs            the lockbox with several pairs
  EosAdapter            the adapter's tables and handlers
EosFeesManager          the fees manager
EosContracts            tokens, lockbox and fees manager side by side  MCEosContracts
EosPamContract          the PAM as a value
  EosPam                the PAM as a state machine, with history       MCEosPam
EosChain                all of them under one chain's executor         MCEosChain
EosLedger               what EosChain implements
EosUtils                the conversions, on bytes
  EosEvents             swap's bytes and check_authorization's
    EosConversions      both against what they stand for               MCEosContracts

SumProofs               sums over finite sets
  XERC20TokenProofs     what each call of the token keeps
    XERC20Proofs        the token's theorems
    BridgeProofs        adapters, lockbox and the bridge
  EosContractsProofs    tokens, fees manager and lockbox of EOS
  EosChainProofs        the executor of EOS
PAMProofs, EosPamProofs
```

A contract's storage is a record, and every external function is a pair of
operators on it: `Can...` is the conjunction of the conditions under which the
call does not revert, and a participle (`Minted`, `Burned`, `Settled`, ...) is
the storage it leaves. A transaction that calls several contracts chains the
pairs: `Settled` is `Withdrawn(MintedToSelf(...))` on the home chain, and the
transaction is possible when each call in turn is. A transaction is one action:
the chains execute one at a time and undo one that reverts. This keeps one
definition per function, used by the state machine of the single contract, where
its own properties are checked with all callers, and by `Bridge`, where the
contracts meet.

**Time.** The contracts compare `block.timestamp` with timestamps of their own,
and only up to a fixed distance (one day, 48 hours). A bucket keeps that distance
as its `age`, capped at `DURATION`; the PAM keeps the seconds left as
`graceLeft`. `Tick` lets a second pass, so time is unbounded and the state space
finite. A bucket that was never written has `timestamp` 0, which is a full age.

**XERC20.** `mintedWithin[b][k]` and `burnedWithin[b][k]` are history: what bridge
`b` used in the current second and the `k` before it, since the owner last set its
limits. Callers of `mint` and `burn` are all accounts, as in the code: whoever
has no limits has a bucket of zeros. `Supply` admits negative numbers because the
token's `_burn` subtracts unchecked; that it never gets there is a property
(`SupplyIsSumOfBalances`), not a type. The role of address(0) in freezing is kept: a mint
comes from it and a burn goes to it, and it can be frozen.

**PAM.** `notice` is what an observer of the events knows: the signer announced
last, for how long, and whether it was applied. The properties compare the
contract with it. The announcement of the first signer is effective at once
and leaves no notice.

**Adapter, Bridge.** The bytes are abstracted to records: `Content` is what
`_finalizeSwap` concatenates, `Preimage` what the attestator hashes; a preimage is
its own id, and a signature is the key it recovers to. `blockId` and `txId` are
one field (`Tx`). `Metadata` is what a relayer can bring: every event emitted so
far, by whatever contract, signed by any key the attestator has or had, and
`Fabricated` events signed by other keys. The relayer also chooses the
`operation`: any (`Relayed`). `bridge_safety` has it try every operation that differs from the event's in
one field, in all the values the field has there, with events of another contract and events
the adapter emits under another topic. `calling` is the account whose
`receiveUserData` runs on a chain. While it does, that account may do everything
a user may, and the chain does nothing else, so that every interleaving of the callback
with the rest of `settle` is there: the code has written everything before the
call and only emits an event after it. A callback that reverts leaves no trace
and is the case where `Return` follows at once.

Whoever receives may be one of the bridge's contracts (`Recipients`), and whoever holds the ERC20 may
transfer it to them (`TransferERC20`): swaps and withdrawals to the lockbox, and
payments into it, leave it with more than it owes. They are steps like any other.

Users have approved adapter and lockbox without limit. On a remote chain,
`underlying` stands for whatever token has the home ERC20's address there:
`swap` accepts it, since it compares only addresses.

**CrossChainLedger** is the promise: value is locked, circulates, is sent and is
received at most once, where it was sent to. Its parts are given by `Bridge` in
`Ledger`: `locked` is the lockbox's balance in xERC20 units, `circulating` the
supplies, `sent` the operations of the adapters' events, `received` those settled. `Donate` is there because
anybody can pay the lockbox; an unwrapping may release nothing (`Releases`) because the lockbox can be the one
who is paid. So what is promised is `Solvent`, that claims are covered; the collateral may be more.

### The contracts of EOS

**Tables.** A contract's tables are a record, an action is a pair `Can...` and
participle, as above. A table is the function or the set that its look-ups
see: a singleton that was never set is `Unset`, the mappings are keyed by `Low64`
of the chain id because `get_mappings` is, and `EosPairs` keeps the order of
`lower_bound` because the lockbox relies on it. `EosRows` keeps who pays for a
holder's row. That is not accounting: `modify(row, payer, ...)` needs the
signature of a payer who did not pay before, and `sub_balance`, `withdrawto` and
`pullfrozen` all change the payer. The host does that check, not the contract: `PayersSign` says
whether the fees manager runs on one that does (section 5).

**Assets.** An `asset` holds up to 2^62 - 1 in either sign and its operators assert that
their result does; `MaxAmount` is that bound and each `Can...` has the assertions of
the arithmetic it does. The rate of a limit is a quotient of two
floats, cut to an integer each time it is read: `RatesOf` is every integer within
`RateError` of the exact quotient, so the properties hold whichever way the float
was rounded. Quantities have one symbol in `EosChain` and the state machines of
the tokens, several in `EosPairs` and `EosFeesManager`, where look-ups by symbol matter.

**EosChain** is the executor. `stack` has one frame per level of inline actions:
the action, the accounts that execute it in turn (its contract, then whoever it
notified), and what they sent. `Descend` runs the next sent action one
level down, after all notifications of the level; `Return` leaves a level; a failed
check anywhere, or a level beyond `MaxDepth`, restores `committed`. Only adapter and lockbox
handle notifications, and only those of a `mint` or a `transfer` (`HasHandler`). Each handler of
each contract is an action of its own, so a settlement is six to ten steps: `settle`,
`mint`, the notification to the adapter, its `transfer` to the lockbox, and so on.
Users who are contracts answer a notification by refusing, by doing nothing or by
swapping at once. `other` is a token contract that notifies of transfers which never took place: by
the user who calls it or by anybody in `Imitated`, the lockbox for one, in either token's symbol.

**EosAdapter** casts the quotient of `adjust_precision` to an `int64_t` as the code does: of an
event beyond 2^63 units (`Int64s`, which is four times the range of an asset) the low 64 bits are left, and
what is minted is that number if it is an asset.

**EosPairs** is the lockbox beside everything else that moves its assets: bridges that mint to anybody,
the lockbox included, and burn (`bridged` is what they brought, less what they took away), each asset's maximum
supply, and accounts frozen by each xERC20 contract, from which `transfer` takes nothing and `pullfrozen` does
(of positive amounts; negative ones are in section 5); `mint` and `burn` do not look at frozen accounts. What a bridge may use per day is
`EosXERC20`'s; here it is any amount up to `MaxBridged`. Pairs may share the token's contract, the xERC20 contract,
the wrapped symbol; an asset of an xERC20 contract need not have a pair.

**EosFeesManager** has token contracts that may share symbols. The rows of a node are keyed
by symbol, so with two such contracts `incallowance` and `withdrawto` can charge the total of the one
with a row of the other. The properties about sums speak of `ClosedSets`, the sets of contracts that
share no symbol with one outside: all of them together, and each that is alone with its symbols.

**Bytes.** In `EosChain` and `EosPam` an event is a record. That the bytes agree with the
records is a question of its own: `EosEvents` puts an event together as `swap` and the
attestator do and cuts it as `check_authorization` does, on words of four
bytes (a `uint64_t` is one byte and a `uint128_t` two, as `WORD` over 4 and 2).
`EosConversions` takes an input, converts it and compares the result with what it stands
for: every conversion of `utils.hpp`, and a whole event there and back.

**EosContracts** holds the state machines that share no table: the two tokens, the lockbox
with several pairs and the fees manager; it names their properties. `MCEosContracts` adds the
conversions. One machine runs, whichever it is, and the others rest in their initial
states. Their interleavings would add nothing; those that call one another meet in `EosChain`.

**EosLedger** is what users are promised: a token and its wrapped form are one
balance; it grows when an event is settled, once, shrinks by what a swap announces and
a fee, and nothing else changes it but transfers. Its wallets are all accounts of `EosChain`,
token contracts included, but the bridge's own adapter and lockbox.

## 3. The runs

| Run | Asks | Bounds |
|---|---|---|
| `xerc20_limits` | Can a bridge exceed its limit in a window, by any sequence of uses, limit changes and pauses, or win back what it used by a change of limits? | one account that is a bridge, `DURATION` 3, limits 2 and 5, whose rates truncate to 0 and 1, uses of 2 and of nothing |
| `xerc20_frozen` | Do frozen funds move, do the balances add up? | accounts incl. a freezing role and the zero address, a lockbox set or not, limits on |
| `pam` | Does a signer ever change without notice? | 3 keys, grace period 3, one origin with one emitter and topic |
| `bridge_safety` | Is every swap paid at most once and as it was made, is all that circulates covered, and do the contracts implement the ledger, under replays, forged and imitated events, calls back from recipients and wrapping? | two chains, up to two swaps on each, amounts 1 and 2 of a user's 2, a fee of a half, limits of 3, recipients the user and the lockbox, payments of the ERC20 to both, every one-field change of the operation, an imitation by another contract, one by the adapter under another topic, and an invention signed by another key |
| `bridge_admin` | Do signer, PAM, emitter, topic, fee and limit changes between the steps of a transfer open a second payment? | two signers, a fresh PAM, grace period 1 |
| `bridge_liveness` | Does every transfer arrive, and does rounding ever eat the collateral? | an ERC20 of fewer decimals (ratio 2), transfers that compete for a limit that one of them uses up, a day of 2 seconds, a signer that is replaced, recipients that are called |
| `eos_xerc20_limits` | Can a bridge of EOS exceed its limit, can a limit be unreadable? | a bridge and a holder, freezing at any time, one token that is minted and burned again and again, `DURATION` 3, limits 2 and 4 of an asset of 9, rates off by one |
| `eos_contracts` | Does anybody lose what he did not sign away, does the lockbox keep as much as it wrapped and give it back, are allowances covered and withdrawn once, do numbers, texts and events read back? | see below |
| `eos_pam` | What passes `check_authorization`, and when does a key change? | three chain ids of which two share 8 bytes, two keys, grace period 2, an event with a variant of every field that the code reads (its block, too, which nothing compares), each presented with every other's operation, right and wrong signatures |
| `eos_chain_home` | Do the trees of inline actions do what the ledger says, and fail for stated reasons only? | home chain, two users, two events, a limit of 3, the fees manager frozen at any time |
| `eos_chain_deploy` | What if users do not wait for the owner, and a recipient refuses or swaps within its settlement? | every order of the steps of the deployment, one contract as user, user data |
| `eos_chain_arrival` | Does every event that can be minted arrive, though the limit is used up? | an underlying token elsewhere, events of nothing, of less than a unit, of more than an `int64_t` counts, and two that exceed a limit of 2 together, a day of 2 seconds |

All hold. `eos_contracts` has, for the xERC20 token, a bridge that is the contract itself, a
holder, a freezing account that is also the lockbox, and joint signatures; for the
underlying token the same accounts and two issuers, and for both two tokens that are issued
and moved one by one or together; for the conversions precisions 0 to 2, amounts at every boundary of the results' ranges, all
words over a few bytes, all short texts, and events with both ends of every number and texts
and data of 0 to 2 bytes.

For the lockbox it has three pairs registered in any order, two of one xERC20 contract and a third that hides them:
its wrapped symbol, of another contract, is the first's, and its token's symbol that of the second's wrapped one; two
users, one of them a bridge that mints and burns one token of an asset at most, to the
lockbox too and before the asset has a pair, and is frozen and seized at any time; maximum supplies 1 and 2. For the fees manager, two nodes,
fees of 2 in four assets, two of them of one contract and two of one symbol, allowances and increases of 1 and 2
(so that an allowance is lowered), signed by the contract, one node or both.

Why the bounds suffice: what is to be seen needs two events at most (a replay, a
competition for quota), two chains (an event for the one is shown to the other, which
is all a third would see), amounts that differ by one, a limit that two transfers use up together, and a window of a few
seconds. `MaxNonce` bounds the swaps per chain; it is the only counter of the
bridge that would grow. Time needs no bound.

Properties are stated in the module of the component; `EosContracts` and `MCEosContracts`
name those of their machines again. Deadlock is checked in every run.

On EOS what is to be seen needs one transaction at a time: two events that
compete for one limit, a swap between them, a recipient with code. Quantities are
such that the fee is a half and a part of a unit occurs. `MaxDepth` is 4 as on the
chain, and `SettlementsGoThrough` shows it is enough. `MaxSupply`, `MaxHeld`
and the sets of quantities bound the tokens; the settlements are bounded by the events
presented, the swaps by the tokens they burn.

`SettlementsGoThrough` and `SwapsGoThrough` give the reasons for which a settlement or a swap
may fail, from the state the transaction begins in. They are the other half of `Backed`: a
handler that is too strict strands a settlement as surely as a lax one loses
collateral, and only the whole sequence shows which.

**Fairness** (`bridge_liveness` only). `WF(Return)`: a call ends, since it has a finite amount of gas.
`SF(Tick)`: blocks keep coming, between the calls, of which there may always be another. `SF(SettleEvent)` for
each event: relayers submit a signed event again and again, and a settlement that is possible again and again
goes through in the end. That is strong fairness, and what retrying gives: another transfer
may use the quota up first, the signer may be replaced before the event is submitted, a recipient's call
may be running, and each makes possible what was so no more. The competition for the quota comes to an end with
`MaxNonce`; a rival who minted without end, always first, could keep the bucket from filling up to
a large transfer, whatever relayers do. `SettleEvent` takes any of the attestator's keys, so it is assumed that
the attestator signs an event again with a new key. Nothing is assumed of users and owners.

`eos_chain_arrival` has its own. `WF(Execution)`: the chain executes a transaction it has
begun. `SF(Tick)` and `SF(CallSettle)` per event: seconds pass and a relayer presents
an event again and again, between the transactions of others. Strong fairness is needed
because either is possible only while no transaction runs, and it is what a relayer
that retries gives; the presented transaction may revert any number of times.

## 4. What is proved

Every theorem holds for every value of the constants (any duration, integer width, set of
chains, accounts, keys, events, limits and amounts), under the assumptions named here.

**Sums.** `SumProofs` shows what balances, allowances and collateral need of
`SumFunctionOnSet`: it is a number, does not depend on the order of summation, changes by what
one element changes, grows with the set. The library's induction
theorems cannot be instantiated by the installed provers; instead each lemma takes a smallest
set that violates it (the order of strict inclusion on finite sets is well founded) and removes an
element.

**The token of Solidity** (`XERC20TokenProofs`, `XERC20Proofs`).

* `TypeCorrect`, `QuotaSafety`, `WindowSafety`: the limits. The window bound is
  not inductive: it says nothing of the quota still available. `QuotaInvariant`
  adds it: `used in the window + available now <= maximum + window * rate`, and
  nothing was used since the bucket's timestamp. A use moves an amount from the
  second term to the first; a second passing shifts the windows and adds at most
  one second's refill, or, where the bucket jumps to full, finds windows with no
  use in them; a change of limits starts the windows anew.
* `UsedQuotaSafety`: a change of limits carries the spent quota over.
* `SupplySafety`: balances add up to the supply. The types allow a negative one, because `_burn`
  subtracts unchecked; that a balance is part of the sum is what excludes it.
* `FrozenFundsSafety`: frozen funds move only by seizure.

**The PAM of Solidity** (`PAMProofs`). `PendingSafety`, `SignerSafety`, `SignerKept`: the
replacement of signers, from `TypeOK /\ PendingIsNoticed`, which is inductive. The theorems
need that 0 is not a key (`NoKeyAssumption`).

**The bridge** (`BridgeProofs`).

* `BridgeTypeCorrect`, `SettledOnceSafety`, `SettledAsSwappedSafety`: what adapters pay
  out. Neither property is inductive: the settlements alone do not say why the next
  one is new. The invariant `IInv` adds that the swaps of a chain carry numbers below
  its nonce, each once (`SwapsNumbered`); that what an adapter emits is a swap or under a topic no PAM takes
  for one (`LogsHonest`); that every PAM believes nobody but the
  attestator's keys and the swaps of the bridge's adapters (`PamsTrusted`); and that each
  settlement pays a swap whose event the adapter of the swap's destination remembers
  (`SettlementsBacked`). A swap takes the next number. A settlement that is admitted
  names an event that was emitted, because only the attestator's signature passes,
  by an adapter as a swap, because only such events pass, and not remembered, so not paid; whatever operation the
  relayer brought, it is that of the event, field by field. Everything else forgets no event.
* `LedgerRefinement`: `Bridge` implements `CrossChainLedger`. Initial states map to initial
  states, and each action of a contract to one of the ledger or to none: wrapping locks,
  unwrapping unlocks, a swap sends what it burns under a number nobody used, a settlement
  receives what was sent to its chain and not received, whoever the recipients are; a payment of the ERC20 to the
  lockbox is a donation. `IInv` is what makes each step one.
* `BackedSafety`: collateral covers what circulates and what is under way, whoever is paid. It does not equal it: with
  fewer than 18 decimals divisions leave a rest, and at any time the lockbox may be given more. It is a theorem of the ledger, carried over by the refinement: each step of the ledger
  moves an amount between the terms of `Claims`, sums over chains and over transfers.

`BridgeAssumption` is where the trust is written down: keys other than the
attestator's sign `Fabricated`, `ForeignLogs` are other contracts' or not swaps, users are not the bridge's
contracts, and owners configure only keys of the attestator and the swaps of the bridge's adapters
(`WellConfigured`). Of the operations relayers bring (`Relayed`) and of `Recipients` it asks nothing. `MaxNonce` is any number, so the bound is none. Chains and
addresses are finite, and the adapter and the lockbox have different addresses.

**The tokens of EOS** (`EosContractsProofs`). The tables of balances and the code that changes
them are the same in both tokens, and so are the lemmas on rows.

* `TypeCorrect`, `QuotaSafety`, `WindowSafety`, `ReadableSafety`, `SpentSafety`,
  `FrozenSafety` and `SupplySafety` for the xERC20 token, from `IInv`: `TypeOK`, `QuotaInvariant`,
  `RowsOK`, that who has no row has no tokens, and `AddsUp`. The argument for the limits is that of
  Solidity, but the rate is any integer that a float quotient may be cut to, and the bound
  is in terms of the rate in force. `ReadableSafety` needs the fact that a rate times a
  day exceeds the maximum by no more than `RateError`, which is why `QuotaOK` has it. `FrozenSafety`
  goes through every action: a mint only adds, a burn takes from its caller,
  transfers refuse frozen parties, and what is left is `pullfrozen`. `SupplySafety` needs `RowsOK`:
  a row that is erased or made anew has nothing in it.
* `WithinSupplySafety`, `OwnersOnlySafety` for the underlying token: that `retire` does not take the
  supply below zero follows from the sum, and that nobody owes.

**The fees manager of EOS** (`EosContractsProofs`). `TotalSafety`, `CoveredSafety`, `OwnSafety`,
from `BooksInv` (`BooksOK`): a row names a token of its symbol, the totals of a set of tokens that
shares no symbol are the sum of its rows, what is allowed of such a token is held of it, and a row
that allows anything is still paid for by the contract. The last conjunct is what makes
`withdrawto` safe without `require_auth`: to empty a row is to move its memory to the node,
which takes the node's signature where `PayersSign`. Each action writes one row at a time and the total of one
token, which has the row's symbol but need not be the row's token; one lemma (`BookedOK`)
carries all four actions, `withdrawmtto` as two of them. With shared symbols a sum is right only over
all tokens of the symbol (section 5), which is why the properties are about `ClosedSets`; nothing
is assumed of tokens and symbols.

**The lockbox of EOS** (`EosContractsProofs`). `PairsSafety`: for any pairs, registered in any order, any bridges, frozen
accounts and maximum supplies, the lockbox keeps in every xERC20 contract as much as it wrapped there; and up to any symbol at
least as much, so that what is missing of one pair, if tokens without a row of their own were unwrapped for it, was
taken from a pair with a greater symbol. That is what `lower_bound` leaves of the stronger
statement that each pair's collateral equals what is wrapped of it. `PairsInv` (`PairsOK`) adds that rows name
assets that exist, that no token is in two of them, and that the plain tokens in the lockbox are those of registered
rows; otherwise `create` would break the equation. `BackedBy` is the sum per contract; each transaction,
the token's action with the lockbox's answer, moves an amount from one term to another. `RedeemableSafety`: who holds a
registered pair's tokens can wrap them all unless the maximum supply is reached, and who holds wrapped ones can unwrap them
all unless he or the lockbox is frozen, another row has the symbol (`IsFound`; `find` and `lower_bound` do
not look at the contract first), or the collateral is not there because the tokens came over a bridge. Neither assumes
anything of the pairs but that they wrap an eosio.token in an xERC20 (`Parameters`), which the lockbox's owner sees to.

**The PAM of EOS** (`EosPamProofs`).

* `TypeCorrect`, `OriginSafety`, `KeySafety`. `KeyChangeWaits` needs
  `ProposalWaits`, that the time a proposal still has to wait and the time since it was made
  are together the grace period; `AuthorizedOriginRegistered` needs
  `MappingsRegistered`, that each row of the mappings was set for a chain with these
  last 8 bytes. It does not say that the chain is the event's, because the code does not (section 5).
* `OneOperationSafety`: in every state of the tables, a signed event authorizes one operation. It needs
  that operations have the fields of the code's and no others (`OperationsAssumption`).

**The executor of EOS** (`EosChainProofs`), for any users and contracts, any depth of inline
actions, any amounts, events and memos, on a home chain or elsewhere, deployed or not.

* The properties speak of the tables between transactions, and a transaction is a tree
  of steps in which nothing adds up: a deposit is in the lockbox and its wrapped form not yet
  minted, or burned and not yet announced. The invariant `IInv` says what is missing
  and who owes it. A *gauge* reads a number from the tables (`Level`), among them supply less collateral
  less settled plus swapped, the adapter's balance of either token, the lockbox's, nonce less
  settlements less events, and for each user and data whether the data is stored or
  in how many events it is. Each action that was sent and not
  executed adds to the gauge a `Weight` that is known when it is sent: what its own execution changes
  (`Effect`), and what adapter and lockbox will send when they are notified of it (`Share`). A
  frame owes the weight of its action until that has run, then the shares of those still to be
  notified and the weights of what was sent (`Owed`). `Covered`: level now plus debts is
  the level between transactions; `Even`: that level is 0, but for data.
* Each handler keeps the sum: executing an action turns its weight into a change of the level
  and the shares of who it notifies; a handler's share is the weight of what it sends. `Descend`
  and `Return` move debts and change none; `Revert` restores a state without. `Weight` does not look at the
  tables, so it makes no difference what else happens in between, a swap inside a settlement included.
* `TypeCorrect`: asset arithmetic asserts the range of each balance, `mint` compares the supply with
  its maximum, a use of a limit leaves a limit. What was sent has its type from `IInv`. The
  invariant `TypeInv` says more than `TypeOK`: no balance of either token is negative at any moment,
  which the refinement needs.
* `BackedSafety`, `OperationsNumberedSafety`: from the gauges, and for the second from `Numbered`,
  that the numbers of settlements, of events and of the swaps still to be printed are those below
  the nonce.
  `BackedSafety` counts a settlement as the adapter does, by `AdjustPrecision`; `AdjustedExactly` says that this is the
  event's amount in whole units up to the range of an `int64_t`. Beyond, it is the low 64 bits, or the settlement reverts.
* `NothingStrandedSafety` has the hypothesis `NoneForAdapter`, that no event names
  the adapter as its recipient. `ontransfer` ignores what the adapter itself sends; a
  settlement in its own favour mints to it, and the tokens would stay.
* `UserDataTakenSafety`: the gauge of a user's data loses 1 when `extract_memo_args` takes it, which is
  owed by the swap it sends; with `Extends`, that no event is lost, the event is one of this transaction.

* `LedgerRefinement`: as long as no user's contract answers a notification (`Contracts = {}`),
  `EosChain` implements `EosLedger`: its initial states are the ledger's, the end of a
  transaction is a step of the ledger or changes nothing in it, and every other step changes nothing in it.
  What a transaction does is known from the action it begins with, and the gauges say
  so. The ones above are *counts*, for which weights cancel whatever happens. The *meters* are
  gauges of another kind: what one wallet holds in both forms, how many events
  there are, what they announce together, whether one event is settled, and quantities a
  token contract refuses (`"refused"`). The `Weight` of the first action is what the transaction changes
  in each. The reverts are part of the argument: a swap of a negative quantity, of more than the
  sender holds, or with a fee of nothing has a weight too, and that such an action is no longer there
  when the transaction ends is what the meter `"refused"` shows, whose level is always 0.
  `TransactionAmends`: at the end every meter has changed by the weight of the first action. From
  there `SettleHeld`, `SwapHeld`, `TransferHeld`, `WrappedHeld` and `ImitationHeld` read off the
  ledger's step, one for each kind of first action.
  The hypothesis is needed for one transaction to be one step: a recipient that
  swaps within its settlement takes two steps of the ledger at once. A settlement whose event names
  the adapter as recipient pays no wallet, in the ledger as on the chain; one for the lockbox reverts.

`AccountsAssumption` has the accounts different from one another, `QuantitiesAssumption` what is
integer and what is not negative, `AssetsAssumption` that supplies and limits are assets and what
users hold at first was issued, `MemosAssumption` that the memo of a swap, which has commas, is
no account's name, which is the memo of a settlement's tokens.

**Only model-checked.** Liveness (`EveryTransferArrives`, `SettlementsArrive`), which is outside
the prover's reach. The conversions and events of EOS (`ConversionsAgree`, `EventsReadBack`),
which are folds over bytes. The reasons for which transactions of `EosChain` fail
(`SettlementsGoThrough`, `SwapsGoThrough`): they say that a handler does accept what the one before it
sent, and a gauge only says what follows when it does.

## 5. Where documents and code differ

The models do what the code does, and the properties are stated so that they hold of it.
These are the places where a document, a test or a comment promises more:

* `XERC20.sol:291` adds before it caps. `docs/bridge-limits-explained.md:42` describes
  the refill without exception; with a limit so large that `currentLimit + timePassed *
  ratePerSecond` overflows (the natural "unlimited" value `type(uint256).max`), the
  bridge's first use blocks it, its `setLimits` included, for a day. On EOS the same sum is
  an asset's, and `SmallLimitsReadable` states up to which limit it is safe.
* `Adapter.sol:184-191`: for an ERC20 with fewer than 18 decimals the lockbox
  mints `amount * conversionRatio` and the adapter charges and burns `amount`: the
  sender's transfer is worth a fraction of what was deposited and the rest stays in
  the adapter, against what `Integration.t.sol:149-154` asserts (with 18 decimals).
* The collateral can exceed what it stands for with 18 decimals too: `ERC20.transfer` to the lockbox,
  `withdrawTo` to it (`XERC20Lockbox.sol:121`), or a settlement of which it is the recipient (`Adapter.sol:94-97`) leave it
  with tokens that nobody can claim. `Backed` is an inequality, and the ledger has `Donate`.
* A bridge of EOS mints to a frozen account (`xerc20.token.cpp:67`), which
  `docs/contracts-spec.md:100` says cannot receive. `FrozenTokensStay` forbids only that
  its tokens leave.
* `pullfrozen` moves the row's memory to the frozen account, and so needs that account's
  signature if somebody else paid for the row so far; and it takes a negative quantity,
  which moves tokens of the recipient to the frozen account. `Pulled` holds the
  quantities tried, of which only positive ones are run.
* The PAM of EOS looks the origin up by the last 8 bytes of its id and does not compare
  the row's id. `AuthorizedOriginRegistered` says what is left: the emitter and
  the topic are those last set for the event's chain or for another that ends in the same bytes.
* `applynewtee` without a proposal succeeds and leaves no key.
* Where the token exists only wrapped, a swap's event names no token, and a
  settlement on the other chain that expects a token's name refuses it.
* The lockbox takes wrapped tokens of an unregistered symbol for those of the next registered
  one of the same contract, by `lower_bound`, and pays with that pair's collateral. `PairsBacked` says how far that goes,
  and `Redeemable` that it answers for registered pairs.
* `incallowance` and `withdrawto` find the row by symbol and the total by contract, and do not compare the row's token
  with the one they are called with, as `setallowance` does (`feesmanager.cpp:26`). With two contracts of one symbol, a row of one is
  increased against the total and the balance of the other, and withdrawn from it. The two totals then differ from their rows in opposite
  directions; only their sum stays right. `TotalIsSum` and `AllowancesCovered` are stated for `ClosedSets`, and the run has such a pair.
* `withdrawto` asks for no authorization. `feesmanager.test.js:392-394` and `494-500` withdraw for `node1` with the signature of the fees
  manager's own account and expect success: the harness does not bill memory. A chain does: `modify` with the node
  as payer of a row it did not pay for needs its authorization, so those two transactions would be refused. `PayersSign` tells the two hosts apart;
  `NodesTakeTheirOwn` claims the node's signature for the chain only, and on both that what leaves is one node's
  whole allowance. The run has `PayersSign = TRUE`, the theorem is for both.
* `feesmanager.cpp:73` says of `withdrawmtto` that multiple withdrawals do not work. Its test
  (`feesmanager.test.js:494`) passes, and read as C++ it is `withdrawto` in a loop. The model does what the code does.
* `bytes32_to_uint64`, `bytes32_to_uint128` and the cast to an asset's amount (`utils.hpp:140-142`) cut what is
  wider than the result without an error. A settlement beyond 2^63 units pays the low 64 bits of its amount, if they are an
  asset, or reverts. `EosAdapter` has that cast, and `eos_chain_arrival` an event to which it applies; the conversions of words are compared within the
  widths.

## 6. Not modelled

* The native branch of `Adapter.swap` and the native functions of the lockbox. No
  test deploys them, and as the code reads no native lockbox can be deployed: its
  constructor calls `decimals()` on address(0), and a `try` on an address
  without code reverts.
* Gas, and so the recipient that burns it (`gasReserve`).
* Bytes on the EVM side: hex, UTF-8, padding and ABI encoding.
* Ownership transfers, `permit`, proxies and upgrades, deployment scripts.
* The attestator beyond its signature: that it signs each event of a final
  block, and under one version of the format, is assumed.
* pToken v1.
* On EOS: `from_wei`, which nothing calls; copies into `signature` and `checksum256`; getters
  that only read; several symbols in one xERC20 contract (the `bridges` table is keyed by
  the bridge alone); allowances the owner sets below zero; a recipient's
  length word that exceeds the event (the code then reads past its end, and what
  it reads is nobody's event); code upgrades and the permissions of accounts.

## 7. Plan

1. `XERC20Factory` and the fees manager (EVM), and the compatible token as a variant of
   `XERC20Token`, with its frozen check where it has one.
2. A mixed bridge: an EVM and an EOS chain under `CrossChainLedger`.
3. The refund procedure as an owner's action on `Bridge`.
4. `LedgerRefinement` with users' contracts, where a transaction is several steps of the ledger:
   an abstract specification that takes them one by one, and a history of the transaction to map to it.
5. A proof of `SettlementsGoThrough`: an invariant of what each frame of a settlement still
   needs of the tables, beside what it will change in them.
