---------------------------- MODULE EosIssuance -----------------------------
(***************************************************************************)
(* The underlying token of a home chain as a state machine: every action   *)
(* of eosio.token.cpp, authorized by any of the signatures in Signatures.  *)
(***************************************************************************)
EXTENDS EosToken

CONSTANTS
    Signatures,     \* sets of accounts that sign an action together
    Issuers,        \* accounts the token may be created for
    Quantities, Supplies

VARIABLE token      \* the tables of the contract

TypeOK == token \in Token

Init == token = NewToken

create(auth, issuer, maximum_supply) ==
    /\ CanCreate(token, auth, maximum_supply)
    /\ token' = Created(token, issuer, maximum_supply)

issue(auth, to, quantity) ==
    /\ CanIssue(token, auth, to, quantity)
    /\ token' = Issued(token, quantity)

retire(auth, quantity) ==
    /\ CanRetire(token, auth, quantity)
    /\ token' = Retired(token, quantity)

transfer(auth, from, to, quantity) ==
    /\ CanTransfer(token, auth, from, to, quantity)
    /\ token' = Transferred(token, auth, from, to, quantity)

open(auth, owner, ram_payer) ==
    /\ CanOpenRow(token, auth, owner, ram_payer)
    /\ token' = RowOpened(token, owner, ram_payer)

close(auth, owner) ==
    /\ CanCloseRow(token, auth, owner)
    /\ token' = RowClosed(token, owner)

Step(auth) ==
    \/ \E i \in Issuers, max \in Supplies : create(auth, i, max)
    \/ \E to \in Account, q \in Quantities : issue(auth, to, q)
    \/ \E q \in Quantities : retire(auth, q)
    \/ \E from, to \in Account, q \in Quantities : transfer(auth, from, to, q)
    \/ \E owner, ram_payer \in Account : open(auth, owner, ram_payer)
    \/ \E owner \in Account : close(auth, owner)

Next == \E auth \in Signatures : Step(auth)

Spec == Init /\ [][Next]_token

-----------------------------------------------------------------------------
\* Whatever the order of issues, retirements, transfers and rows closed and
\* opened again, the balances add up to the supply, nobody owes tokens and
\* there are no more than the maximum (issue, retire, sub_balance).  retire
\* does not look at the supply.
WithinSupply ==
    /\ BalancesSum(token.rows) = token.supply
    /\ token.supply \in 0 .. token.maxSupply
    /\ \A a \in Account : token.rows[a].balance \in 0 .. token.supply

\* Whoever signs an action, the others lose nothing by it, also when they pay
\* for rows of the signers or the signers for theirs (sub_balance).
OnlyOwnersSpend ==
    [][ \A a \in Account : token'.rows[a].balance < token.rows[a].balance =>
          \A auth \in Signatures : Step(auth) => a \in auth ]_token

=============================================================================
