--------------------------- MODULE EosFeesManager ---------------------------
(***************************************************************************)
(* The fees manager of EOS, feesmanager.cpp: it holds the fees of swaps    *)
(* and lets each node withdraw the allowance its owner gave it.  A node's  *)
(* allowances are rows keyed by a symbol, each naming a token contract;    *)
(* per token contract a singleton holds the total.                         *)
(*                                                                         *)
(* withdrawto asks nobody's authorization.  It moves the row's memory to   *)
(* the node, which takes the node's signature where the host bills memory. *)
(***************************************************************************)
EXTENDS Integers, Sequences, FiniteSets, Functions

CONSTANTS
    Self, Node,         \* the contract's account, the nodes'
    Token, Symbol,      \* token contracts, symbols
    Assets,             \* the pairs <<token, symbol>> that actions name
    Unset,              \* no row
    PayersSign,         \* whether the host asks who begins to pay for memory
                        \* to sign: nodes do, the tests' harness does not
    Fees,               \* amounts that swaps bring in
    MaxHeld,            \* a bound on what is held of an asset
    Values,             \* allowances and increases the owner chooses
    Signatures          \* sets of accounts that sign an action

VARIABLES
    held,           \* held[asset], the contract's balance in the token's tables
    total,          \* total[token], the singleton "totallowance"
    allowances      \* allowances[node][symbol], the rows of the table

vars == <<held, total, allowances>>

Allowance == [token: Token, amount: Nat, payer: {Self} \cup Node]

TypeOK ==
    /\ held \in [Assets -> Nat]
    /\ total \in [Token -> Int \cup {Unset}]
    /\ allowances \in [Node -> [Symbol -> Allowance \cup {Unset}]]

\* What the constants are.
Parameters ==
    /\ IsFiniteSet(Node) /\ IsFiniteSet(Token) /\ IsFiniteSet(Symbol)
    /\ Self \notin Node /\ Unset \notin Int /\ Unset \notin Allowance
    /\ Assets \subseteq Token \X Symbol
    /\ Fees \subseteq Nat /\ Values \subseteq Nat

Init ==
    /\ held = [x \in Assets |-> 0]
    /\ total = [t \in Token |-> Unset]
    /\ allowances = [n \in Node |-> [s \in Symbol |-> Unset]]

\* getbalance: 0 of what it never had.
Balance(token, symbol) == IF <<token, symbol>> \in Assets THEN held[<<token, symbol>>] ELSE 0

-----------------------------------------------------------------------------
\* Faulty: the node's old allowance counts twice.
NewTotalAdded(oldTotal, old, amount) == oldTotal + amount

NewTotal(oldTotal, old, amount) == oldTotal - old + amount

\* A row with the token and another symbol is the end iterator of the look-up
\* by symbol, which modify refuses.
CanSetAllowance(node, token, symbol, amount) ==
    LET row == allowances[node][symbol]
        old == IF row = Unset THEN 0 ELSE row.amount
        oldTotal == IF total[token] = Unset THEN 0 ELSE total[token]
    IN  /\ IF row # Unset THEN row.token = token
           ELSE \A s \in Symbol : allowances[node][s] # Unset => allowances[node][s].token # token
        /\ Balance(token, symbol) >= NewTotal(oldTotal, old, amount)

setallowance(auth, node, token, symbol, amount) ==
    LET row == allowances[node][symbol]
        old == IF row = Unset THEN 0 ELSE row.amount
        oldTotal == IF total[token] = Unset THEN 0 ELSE total[token]
    IN  /\ Self \in auth
        /\ CanSetAllowance(node, token, symbol, amount)
        /\ allowances' = [allowances EXCEPT ![node][symbol] =
                            [token |-> token, amount |-> amount, payer |-> Self]]
        /\ total' = [total EXCEPT ![token] = NewTotal(oldTotal, old, amount)]
        /\ UNCHANGED held

\* Faulty: only the increase itself is compared with the balance.
CanIncreaseBy(token, symbol, amount) ==
    total[token] # Unset /\ Balance(token, symbol) >= amount

CanIncrease(token, symbol, amount) ==
    total[token] # Unset /\ Balance(token, symbol) >= total[token] + amount

incallowance(auth, node, token, symbol, amount) ==
    /\ Self \in auth
    /\ allowances[node][symbol] # Unset
    /\ CanIncrease(token, symbol, amount)
    /\ total' = [total EXCEPT ![token] = @ + amount]
    /\ allowances' = [allowances EXCEPT ![node][symbol] =
                        [token |-> @.token, amount |-> @.amount + amount, payer |-> Self]]
    /\ UNCHANGED held

-----------------------------------------------------------------------------
\* The tables as a value, for actions that withdraw several times.
Tables == [held |-> held, total |-> total, allowances |-> allowances]

\* Faulty: the memory stays with who pays for it.
MayChargeAnyone(auth, row, node) == TRUE

MayCharge(auth, row, node) == PayersSign => node \in auth \cup {row.payer}

Taken(row, node) == [token |-> row.token, amount |-> 0, payer |-> node]

\* withdrawto, with the transfer that follows it.
CanWithdraw(d, auth, node, token, symbol) ==
    LET row == d.allowances[node][symbol]
        x == <<token, symbol>>
    IN  /\ row # Unset
        /\ d.total[token] # Unset
        /\ MayCharge(auth, row, node)
        /\ x \in Assets
        /\ row.amount > 0 /\ d.held[x] >= row.amount

Withdrawn(d, node, token, symbol) ==
    LET amount == d.allowances[node][symbol].amount
    IN  [held       |-> [d.held EXCEPT ![<<token, symbol>>] = @ - amount],
         total      |-> [d.total EXCEPT ![token] = @ - amount],
         allowances |-> [d.allowances EXCEPT ![node][symbol] = Taken(@, node)]]

Becomes(d) == held' = d.held /\ total' = d.total /\ allowances' = d.allowances

withdrawto(auth, node, token, symbol) ==
    /\ CanWithdraw(Tables, auth, node, token, symbol)
    /\ Becomes(Withdrawn(Tables, node, token, symbol))

\* The transfers it sends all come after its last change of the tables; they
\* take from balances nothing else here reads.
withdrawmtto(auth, node, tokens, token_symbols) ==
    LET after[i \in 0 .. Len(tokens)] ==
            IF i = 0 THEN Tables
            ELSE Withdrawn(after[i - 1], node, tokens[i], token_symbols[i])
    IN  /\ Len(tokens) = Len(token_symbols)
        /\ \A i \in 1 .. Len(tokens) :
              CanWithdraw(after[i - 1], auth, node, tokens[i], token_symbols[i])
        /\ Becomes(after[Len(tokens)])

\* The fees of a swap, or anybody's transfer.
Receive(x, amount) ==
    /\ held[x] + amount <= MaxHeld
    /\ held' = [held EXCEPT ![x] = @ + amount]
    /\ UNCHANGED <<total, allowances>>

Withdraw(auth) == \E n \in Node, x \in Assets :
    \/ withdrawto(auth, n, x[1], x[2])
    \/ \E y \in Assets : withdrawmtto(auth, n, <<x[1], y[1]>>, <<x[2], y[2]>>)

Next ==
    \/ \E auth \in Signatures :
          \/ \E n \in Node, x \in Assets, v \in Values :
                setallowance(auth, n, x[1], x[2], v) \/ incallowance(auth, n, x[1], x[2], v)
          \/ Withdraw(auth)
    \/ \E x \in Assets, v \in Fees : Receive(x, v)

Spec == Init /\ [][Next]_vars

-----------------------------------------------------------------------------
AmountOf(row) == IF row = Unset THEN 0 ELSE row.amount

AmountIn(row, T) == IF row # Unset /\ row.token \in T THEN row.amount ELSE 0

\* What the rows allow of the tokens in T, by node and symbol.
Allowed(rows, T) == [r \in Node \X Symbol |-> AmountIn(rows[r[1]][r[2]], T)]

AllowedOf(rows, x) == SumFunctionOnSet(Allowed(rows, {x[1]}), Node \X {x[2]})

AllowedInAll(rows, T) == SumFunctionOnSet(Allowed(rows, T), Node \X Symbol)

TotalOf(T) == SumFunctionOnSet([t \in Token |-> IF total[t] = Unset THEN 0 ELSE total[t]], T)

\* Tokens that share no symbol with the others.  A node has one row per symbol,
\* and neither incallowance nor withdrawto compares the token it is called with
\* to the row's: of two contracts with one symbol it charges either.
ClosedSets ==
    {T \in SUBSET Token : \A x, y \in Assets : x[2] = y[2] => (x[1] \in T <=> y[1] \in T)}

\* The total of tokens that share no symbol with others is what their nodes may
\* withdraw together: of each such token, and of all tokens, whatever was set,
\* raised, lowered and withdrawn, and in whichever order (setallowance,
\* incallowance, withdrawto).
TotalIsSum ==
    \A T \in ClosedSets : TotalOf(T) = AllowedInAll(allowances, T)

\* What was allowed of a token that shares no symbol is there: no node's
\* withdrawal leaves less than the others may still take, and the owner cannot
\* allow more than is held.
AllowancesCovered ==
    \A x \in Assets :
        {x[1]} \in ClosedSets => AllowedOf(allowances, x) <= Balance(x[1], x[2])

\* Whoever signs a withdrawal, the tokens that leave are all that a node's row
\* of that symbol allowed it, which then allows nothing, and that row named
\* their contract unless the contract shares symbols.  The node signed it where
\* hosts bill memory: there the row's new payer stands in for a require_auth.
NodesTakeTheirOwn ==
    [][ \A x \in Assets : held'[x] < held[x] =>
          \A auth \in Signatures : Withdraw(auth) =>
              \E n \in Node :
                  /\ held[x] - held'[x] = AmountOf(allowances[n][x[2]])
                  /\ AmountOf(allowances'[n][x[2]]) = 0
                  /\ {x[1]} \in ClosedSets => allowances[n][x[2]].token = x[1]
                  /\ PayersSign => n \in auth ]_vars

=============================================================================
