----------------------------- MODULE EosLockbox -----------------------------
(***************************************************************************)
(* The lockbox of EOS, lockbox.cpp: its registry of pairs and what it does *)
(* when it is notified of a transfer or a mint.  A row pairs a symbol of a *)
(* token contract with a symbol of an xERC20 contract.  Symbols are        *)
(* numbers, ordered like their raw codes; they key the table's indexes.    *)
(***************************************************************************)
EXTENDS Integers, EosMessages

CONSTANT Self    \* the account of the contract

FoundToken(registry, symbol) == {r \in registry : r.token_symbol = symbol}

\* Faulty: upper_bound, the first row after the symbol.
UpperBoundXERC20(registry, symbol) ==
    {r \in registry :
        /\ r.xerc20_symbol > symbol
        /\ \A s \in registry : s.xerc20_symbol > symbol =>
              \/ r.xerc20_symbol < s.xerc20_symbol
              \/ r.xerc20_symbol = s.xerc20_symbol /\ r.token_symbol <= s.token_symbol}

\* The first row of index byxtoken2 at or after the symbol, and among equal
\* symbols the one with the smallest primary key.
LowerBoundXERC20(registry, symbol) ==
    {r \in registry :
        /\ r.xerc20_symbol >= symbol
        /\ \A s \in registry : s.xerc20_symbol >= symbol =>
              \/ r.xerc20_symbol < s.xerc20_symbol
              \/ r.xerc20_symbol = s.xerc20_symbol /\ r.token_symbol <= s.token_symbol}

\* symbolsExist: both contracts have the symbols (check_symbol_is_valid).
CanCreate(registry, auth, row, symbolsExist) ==
    /\ Self \in auth
    /\ FoundToken(registry, row.token_symbol) = {}
    /\ symbolsExist

Created(registry, row) == registry \cup {row}

-----------------------------------------------------------------------------
(***************************************************************************)
(* ontransfer and onmint, notified of action m.                            *)
(***************************************************************************)
Ignores(m) == m.from = Self

\* Faulty: any contract's token with the registered symbol.
DepositOfAny(registry, m) == FoundToken(registry, m.symbol)

\* A registered token's symbol comes first, whichever contract sent it.
Deposit(registry, m) == {r \in FoundToken(registry, m.symbol) : r.token = m.code}

Withdrawal(registry, m) ==
    {r \in LowerBoundXERC20(registry, m.symbol) :
        FoundToken(registry, m.symbol) = {} /\ r.xerc20 = m.code}

CanReceive(registry, m) ==
    /\ m.to = Self
    /\ m.amount > 0
    /\ Deposit(registry, m) \cup Withdrawal(registry, m) # {}

Minted(r, m) == << Message(r.xerc20, "mint", Self, m.from, r.xerc20_symbol, m.amount, m.memo) >>

\* Faulty: what is sent back is not burned.
ReleasedUnburned(r, m) ==
    << Message(r.token, "transfer", Self, m.from, r.token_symbol, m.amount, m.memo) >>

Released(r, m) ==
    << Message(m.code, "burn", Self, Self, m.symbol, m.amount, m.memo),
       Message(r.token, "transfer", Self, m.from, r.token_symbol, m.amount, m.memo) >>

\* What it sends, in order.
Sent(registry, m) ==
    IF Deposit(registry, m) # {}
    THEN Minted(CHOOSE r \in Deposit(registry, m) : TRUE, m)
    ELSE Released(CHOOSE r \in Withdrawal(registry, m) : TRUE, m)

=============================================================================
