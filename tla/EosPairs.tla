------------------------------ MODULE EosPairs ------------------------------
(***************************************************************************)
(* The lockbox with several pairs, users who send it tokens, and bridges   *)
(* that mint and burn the wrapped tokens.  A transfer or a mint to the     *)
(* lockbox, its answer to the notification and the actions it sends are    *)
(* one transaction: a failed check anywhere in it undoes it.               *)
(*                                                                         *)
(* An asset is a symbol of a contract.  The xERC20 contracts have set the  *)
(* lockbox (xtoken::setlockbox, for all their symbols).  What a bridge may *)
(* mint and burn in a day is EosXERC20's: here it may be any amount.       *)
(***************************************************************************)
EXTENDS Integers, Sequences, FiniteSets, Functions, EosLockbox

CONSTANTS
    Users,              \* the users; Self is the lockbox
    Bridges,            \* those of them whom the xERC20 contracts gave limits
    XTokens,            \* the xERC20 contracts; all others are eosio.tokens
    Assets,             \* pairs <<code, symbol>> that exist
    MaxSupply,          \* [asset -> the maximum its contract lets there be]
    Initially,          \* [asset -> [user -> what he holds at first]]
    Pairs,              \* pairs the lockbox's account may register
    Quantities,
    FreezeTargets,      \* accounts the freezing account freezes
    MaxBridged          \* a bound on what bridges bring or take away of an asset

Holders == Users \cup {Self}

VARIABLES
    registry,       \* the lockbox's table
    held,           \* held[asset][account], the tokens' tables
    frozen,         \* frozen[code], an xERC20 contract's table of accounts
    bridged         \* history: what exists of an asset but for the lockbox,
                    \* what bridges minted less what they burned

vars == <<registry, held, frozen, bridged>>

TokenOf(r) == <<r.token, r.token_symbol>>
WrappedOf(r) == <<r.xerc20, r.xerc20_symbol>>

\* What the constants are: a pair wraps a plain token in an xERC20 token.
\* create asks only that both symbols exist.
Parameters ==
    /\ IsFiniteSet(Users) /\ Self \notin Users /\ Bridges \subseteq Users
    /\ FreezeTargets \subseteq Holders
    /\ IsFiniteSet(Assets) /\ IsFiniteSet(Pairs)
    /\ Quantities \subseteq Int
    /\ \A r \in Pairs :
          /\ r.token_symbol \in Nat /\ r.xerc20_symbol \in Nat
          /\ r.token \notin XTokens /\ r.xerc20 \in XTokens
    /\ \A x \in Assets : x = <<x[1], x[2]>> /\ x[2] \in Nat
    /\ Initially \in [Assets -> [Users -> Nat]] /\ MaxSupply \in [Assets -> Nat]

\* The supply of asset x when the tables are h.
Supply(h, x) == SumFunctionOnSet(h[x], Holders)

TypeOK ==
    /\ registry \subseteq Pairs
    /\ held \in [Assets -> [Holders -> Nat]]
    /\ frozen \in [XTokens -> SUBSET Holders]
    /\ bridged \in [Assets -> Int]

Init ==
    /\ registry = {}
    /\ held = [x \in Assets |-> [a \in Holders |-> IF a = Self THEN 0 ELSE Initially[x][a]]]
    /\ frozen = [c \in XTokens |-> {}]
    /\ bridged = [x \in Assets |-> Supply(held, x)]

-----------------------------------------------------------------------------

\* The holdings of an asset after action m.
Booked(holding, m) ==
    CASE m.name = "mint"     -> [holding EXCEPT ![m.to] = @ + m.amount]
      [] m.name = "burn"     -> [holding EXCEPT ![m.from] = @ - m.amount]
      [] m.name = "transfer" -> [holding EXCEPT ![m.from] = @ - m.amount,
                                                ![m.to] = @ + m.amount]

\* Whether a token contract carries action m out.  A frozen account may still
\* mint, burn and be minted to; an eosio.token has no such actions.
Accepts(h, m) ==
    LET x == <<m.code, m.symbol>>
    IN  /\ x \in Assets /\ m.amount > 0
        /\ CASE m.name = "mint"     -> /\ m.code \in XTokens
                                       /\ m.amount <= MaxSupply[x] - Supply(h, x)
             [] m.name = "burn"     -> m.code \in XTokens /\ h[x][m.from] >= m.amount
             [] m.name = "transfer" -> /\ m.from # m.to /\ h[x][m.from] >= m.amount
                                       /\ m.code \in XTokens =>
                                             {m.from, m.to} \cap frozen[m.code] = {}

\* The tables after action m of a token contract; {} after one that fails.
After(tables, m) ==
    {[h EXCEPT ![<<m.code, m.symbol>>] = Booked(@, m)] : h \in {h \in tables : Accepts(h, m)}}

AfterAll(tables, messages) ==
    LET after[i \in 0 .. Len(messages)] ==
            IF i = 0 THEN tables ELSE After(after[i - 1], messages[i])
    IN  after[Len(messages)]

\* What is left when action m is carried out, with the lockbox's answer to it.
Outcome(m) ==
    IF m.to # Self THEN AfterAll({held}, << m >>)
    ELSE IF CanReceive(registry, m) THEN AfterAll({held}, << m >> \o Sent(registry, m)) ELSE {}

create(row) ==
    /\ CanCreate(registry, {Self}, row, {TokenOf(row), WrappedOf(row)} \subseteq Assets)
    /\ registry' = Created(registry, row)
    /\ UNCHANGED <<held, frozen, bridged>>

Transfer(u, v, x, amount) == Message(x[1], "transfer", u, v, x[2], amount, "")

transfer(u, v, x, amount) ==
    /\ held' \in Outcome(Transfer(u, v, x, amount))
    /\ UNCHANGED <<registry, frozen, bridged>>

\* onmint answers when it is the lockbox that a bridge mints to.
mint(b, v, x, amount) ==
    /\ bridged[x] + amount <= MaxBridged
    /\ held' \in Outcome(Message(x[1], "mint", b, v, x[2], amount, ""))
    /\ bridged' = [bridged EXCEPT ![x] = @ + amount]
    /\ UNCHANGED <<registry, frozen>>

burn(b, x, amount) ==
    /\ bridged[x] - amount >= -MaxBridged
    /\ held' \in Outcome(Message(x[1], "burn", b, b, x[2], amount, ""))
    /\ bridged' = [bridged EXCEPT ![x] = @ - amount]
    /\ UNCHANGED <<registry, frozen>>

freeze(c, a) ==
    /\ a \notin frozen[c]
    /\ frozen' = [frozen EXCEPT ![c] = @ \cup {a}]
    /\ UNCHANGED <<registry, held, bridged>>

unfreeze(c, a) ==
    /\ a \in frozen[c]
    /\ frozen' = [frozen EXCEPT ![c] = @ \ {a}]
    /\ UNCHANGED <<registry, held, bridged>>

\* The freezing account moves tokens of a frozen account; nobody is notified.
pullfrozen(a, v, x, amount) ==
    /\ x[1] \in XTokens /\ a \in frozen[x[1]] /\ v \notin frozen[x[1]]
    /\ amount > 0 /\ held[x][a] >= amount
    /\ held' = [held EXCEPT ![x] = Booked(@, Transfer(a, v, x, amount))]
    /\ UNCHANGED <<registry, frozen, bridged>>

Next ==
    \/ \E row \in Pairs : create(row)
    \/ \E x \in Assets, amount \in Quantities :
          \/ \E u \in Users, v \in Holders : transfer(u, v, x, amount)
          \/ \E b \in Bridges : \/ \E v \in Holders : mint(b, v, x, amount)
                                \/ burn(b, x, amount)
          \/ \E a \in FreezeTargets, v \in Holders : pullfrozen(a, v, x, amount)
    \/ \E c \in XTokens, a \in FreezeTargets : freeze(c, a) \/ unfreeze(c, a)

Spec == Init /\ [][Next]_vars

-----------------------------------------------------------------------------
\* What the lockbox keeps for a pair, and what there is of an asset that no
\* bridge brought: what the lockbox minted less what it burned.
Kept == [r \in Pairs |-> IF r \in registry THEN held[TokenOf(r)][Self] ELSE 0]

Wrapped == [x \in Assets |-> Supply(held, x) - bridged[x]]

\* Of the pairs, and of the assets, of an xERC20 contract with symbols in S.
KeptFor(c, S) ==
    SumFunctionOnSet(Kept, {r \in Pairs : r.xerc20 = c /\ r.xerc20_symbol \in S})

WrappedOn(c, S) ==
    SumFunctionOnSet(Wrapped, {x \in Assets : x[1] = c /\ x[2] \in S})

\* For what it wrapped in an xERC20 contract's tokens the lockbox keeps as
\* much, whatever pairs are registered, in whichever order, and whatever the
\* bridges mint and burn: other contracts' tokens release nothing.  Within one
\* contract, tokens can be paid with the collateral of a greater symbol's pair
\* (lower_bound finds it when they have no pair of their own), never of a
\* smaller one's.
PairsBacked ==
    \A c \in XTokens :
        /\ KeptFor(c, Nat) = WrappedOn(c, Nat)
        /\ \A x \in Assets : KeptFor(c, 0 .. x[2]) >= WrappedOn(c, 0 .. x[2])

\* The lockbox finds r's row by r's wrapped symbol.
IsFound(r) ==
    \A q \in registry :
        /\ q.token_symbol # r.xerc20_symbol
        /\ q.xerc20_symbol = r.xerc20_symbol => q = r

\* Whoever holds tokens of a registered pair can wrap them all, unless their
\* maximum supply is reached, and whoever holds wrapped ones can unwrap them
\* all, unless he or the lockbox is frozen, a row with the same symbol hides
\* the pair's, or the collateral is not there because it came over a bridge
\* or left through another symbol: nothing else makes the lockbox miss the
\* row or refuse (find and lower_bound agree with create).
Redeemable ==
    \A r \in registry, u \in Users :
        LET t == TokenOf(r)
            w == WrappedOf(r)
            tokens == held[t][u]
            wrapped == held[w][u]
        IN  /\ tokens \in 1 .. MaxSupply[w] - Supply(held, w) =>
                  \E h \in Outcome(Transfer(u, Self, t, tokens)) :
                     h[w][u] = wrapped + tokens /\ h[t][u] = 0
            /\ /\ wrapped \in 1 .. held[t][Self] /\ IsFound(r)
               /\ {u, Self} \cap frozen[w[1]] = {}
               => \E h \in Outcome(Transfer(u, Self, w, wrapped)) :
                     h[t][u] = tokens + wrapped /\ h[w][u] = 0

=============================================================================
