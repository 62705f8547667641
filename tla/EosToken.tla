------------------------------ MODULE EosToken ------------------------------
(***************************************************************************)
(* The underlying token of a home chain, eosio.token.cpp, as a value: the  *)
(* tables of one symbol, and for each action its checks and its effect.    *)
(***************************************************************************)
EXTENDS EosRows

CONSTANT Self    \* the account of the contract

\* max_supply is positive once the token is created.
Token ==
    [rows: [Account -> Row], supply: Amount, maxSupply: 0 .. MaxAmount, issuer: AccountOrNone]

NewToken == [rows |-> NoRows, supply |-> 0, maxSupply |-> 0, issuer |-> NoName]

CanCreate(t, auth, maximum_supply) ==
    /\ Self \in auth
    /\ maximum_supply \in 1 .. MaxAmount
    /\ t.maxSupply = 0

Created(t, issuer, maximum_supply) ==
    [t EXCEPT !.maxSupply = maximum_supply, !.issuer = issuer]

\* Faulty: what is issued already does not count.
CanIssueBeyond(t, auth, to, quantity) ==
    /\ t.maxSupply > 0
    /\ to = t.issuer /\ t.issuer \in auth
    /\ quantity \in 1 .. t.maxSupply
    /\ CanAddBalance(t.rows, auth, to, quantity, to)

CanIssue(t, auth, to, quantity) ==
    /\ t.maxSupply > 0
    /\ to = t.issuer /\ t.issuer \in auth
    /\ quantity \in 1 .. t.maxSupply - t.supply
    /\ CanAddBalance(t.rows, auth, to, quantity, to)

Issued(t, quantity) ==
    [t EXCEPT !.supply = @ + quantity,
              !.rows   = AddBalance(@, t.issuer, quantity, t.issuer)]

CanRetire(t, auth, quantity) ==
    /\ t.maxSupply > 0
    /\ t.issuer \in auth
    /\ quantity \in 1 .. MaxAmount
    /\ t.supply - quantity \in Amount
    /\ CanSubBalance(t.rows, auth, t.issuer, quantity)

Retired(t, quantity) ==
    [t EXCEPT !.supply = @ - quantity, !.rows = SubBalance(@, t.issuer, quantity)]

TransferPayer(auth, from, to) == IF to \in auth THEN to ELSE from

\* Faulty: anybody may send.
CanTransferUnsigned(t, auth, from, to, quantity) ==
    /\ from # to
    /\ to \in Account
    /\ t.maxSupply > 0
    /\ quantity \in 1 .. MaxAmount
    /\ CanMove(t.rows, auth \cup {from}, from, to, quantity, TransferPayer(auth, from, to))

CanTransfer(t, auth, from, to, quantity) ==
    /\ from # to
    /\ from \in auth
    /\ to \in Account
    /\ t.maxSupply > 0
    /\ quantity \in 1 .. MaxAmount
    /\ CanMove(t.rows, auth, from, to, quantity, TransferPayer(auth, from, to))

Transferred(t, auth, from, to, quantity) ==
    [t EXCEPT !.rows = Move(@, from, to, quantity, TransferPayer(auth, from, to))]

CanOpenRow(t, auth, owner, ram_payer) == t.maxSupply > 0 /\ CanOpen(auth, owner, ram_payer)

RowOpened(t, owner, ram_payer) == [t EXCEPT !.rows = Open(@, owner, ram_payer)]

CanCloseRow(t, auth, owner) == CanClose(t.rows, auth, owner)

RowClosed(t, owner) == [t EXCEPT !.rows = Close(@, owner)]

=============================================================================
