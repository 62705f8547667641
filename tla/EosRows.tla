------------------------------ MODULE EosRows -------------------------------
(***************************************************************************)
(* What the contracts of an Antelope chain (EOS) have in common: accounts, *)
(* token amounts and the "accounts" table in which a token contract keeps  *)
(* one row per holder.  sub_balance, add_balance, open and close are the   *)
(* same text in eosio.token.cpp and xerc20.token.cpp.                      *)
(*                                                                         *)
(* A row's memory is paid by an account.  Charging memory to an account    *)
(* other than the contract takes that account's authorization: the chain   *)
(* enforces it, and a call that breaks it reverts.  auth is always the set *)
(* of accounts that authorized the action.                                 *)
(***************************************************************************)
EXTENDS Integers, FiniteSets, Functions

CONSTANTS
    Account,     \* the accounts that exist (is_account)
    NoName,      \* name(0)
    MaxAmount    \* asset::max_amount, 2^62 - 1

ASSUME AccountAssumption == NoName \notin Account /\ IsFiniteSet(Account)
ASSUME MaxAmountAssumption == MaxAmount \in Nat \ {0}

AccountOrNone == Account \cup {NoName}

\* asset::is_valid, which asset arithmetic asserts of every result.
Amount == -MaxAmount .. MaxAmount

\* A holder without a row has NoRow.
Row == [payer: AccountOrNone, balance: Amount]

NoRow == [payer |-> NoName, balance |-> 0]

NoRows == [a \in Account |-> NoRow]

HasRow(rows, owner) == rows[owner].payer # NoName

BalancesSum(rows) == SumFunctionOnSet([a \in Account |-> rows[a].balance], Account)

-----------------------------------------------------------------------------
\* "no balance object found", "overdrawn balance"; modify moves the row's
\* memory to its owner.
CanSubBalance(rows, auth, owner, value) ==
    /\ HasRow(rows, owner)
    /\ rows[owner].balance >= value
    /\ rows[owner].balance - value \in Amount
    /\ owner \in auth \cup {rows[owner].payer}

SubBalance(rows, owner, value) ==
    [rows EXCEPT ![owner] = [payer |-> owner, balance |-> @.balance - value]]

CanAddBalance(rows, auth, owner, value, ram_payer) ==
    /\ rows[owner].balance + value \in Amount
    /\ HasRow(rows, owner) \/ ram_payer \in auth

AddBalance(rows, owner, value, ram_payer) ==
    [rows EXCEPT ![owner] =
        [payer   |-> IF HasRow(rows, owner) THEN @.payer ELSE ram_payer,
         balance |-> @.balance + value]]

\* A transfer's two halves, from # to.
CanMove(rows, auth, from, to, value, ram_payer) ==
    /\ CanSubBalance(rows, auth, from, value)
    /\ CanAddBalance(rows, auth, to, value, ram_payer)

Move(rows, from, to, value, ram_payer) ==
    AddBalance(SubBalance(rows, from, value), to, value, ram_payer)

\* open: no effect on a row that exists.
CanOpen(auth, owner, ram_payer) == ram_payer \in auth /\ owner \in Account

Open(rows, owner, ram_payer) ==
    IF HasRow(rows, owner) THEN rows
    ELSE [rows EXCEPT ![owner] = [payer |-> ram_payer, balance |-> 0]]

\* Faulty: a row with tokens may go.
CanCloseAny(rows, auth, owner) == owner \in auth /\ HasRow(rows, owner)

CanClose(rows, auth, owner) ==
    owner \in auth /\ HasRow(rows, owner) /\ rows[owner].balance = 0

Close(rows, owner) == [rows EXCEPT ![owner] = NoRow]

=============================================================================
