----------------------------- MODULE EosLedger ------------------------------
(***************************************************************************)
(* What the bridge's contracts on an EOS chain promise their users, for    *)
(* whom a token and its wrapped form are the same: a wallet grows when an  *)
(* event of another chain is settled, once, shrinks when its owner swaps,  *)
(* by what is announced and a fee that the fees manager gets, and nothing  *)
(* else changes what anybody holds but transfers between wallets.          *)
(***************************************************************************)
EXTENDS Integers, Sequences

CONSTANTS
    Wallet,             \* all accounts but those the bridge itself works with
    FeesManager,
    Event,              \* events of other chains
    Recipient(_),       \* whom an event pays,
    Units(_),           \* and how much, as the adapter counts it
    Wealth              \* what a wallet may hold at first

VARIABLES
    held,               \* by each wallet
    settled,            \* the events paid
    announced           \* the amounts of the swaps, in order

vars == <<held, settled, announced>>

Init ==
    /\ held \in [Wallet -> Wealth]
    /\ held[FeesManager] = 0
    /\ settled = {}
    /\ announced = <<>>

\* The wallets' new contents: n more for w, n less for v.
Given(w, n) == [held EXCEPT ![w] = @ + n]
Moved(v, w, n) == [held EXCEPT ![v] = @ - n, ![w] = @ + n]

Settle(e) ==
    /\ e \notin settled
    /\ settled' = settled \cup {e}
    /\ held' = Given(Recipient(e), Units(e))
    /\ UNCHANGED announced

\* Something remains to be announced; the fee is not zero.
Swap(w, amount, fee) ==
    /\ 0 < fee /\ fee < amount
    /\ announced' = Append(announced, amount - fee)
    /\ UNCHANGED settled
    /\ held' = [Moved(w, FeesManager, fee) EXCEPT ![w] = @ - (amount - fee)]

\* What v has left follows from the last conjunct; it is there to be tested
\* before the other wallets are looked at.
Transfer(v, w, n) ==
    /\ v # w
    /\ held'[v] = held[v] - n
    /\ UNCHANGED <<settled, announced>>
    /\ held' = Moved(v, w, n)

\* Nobody spends more than he holds.
Next ==
    \/ \E e \in Event : Settle(e)
    \/ \E w \in Wallet \ {FeesManager} : \E amount, fee \in 1 .. held[w] : Swap(w, amount, fee)
    \/ \E v, w \in Wallet : \E n \in 1 .. held[v] : Transfer(v, w, n)

Spec == Init /\ [][Next]_vars

=============================================================================
