-------------------------- MODULE CrossChainLedger --------------------------
(***************************************************************************)
(* What the bridge of one token promises, whatever its contracts, signers  *)
(* and relayers do in between: a ledger of value over several chains.  On  *)
(* the home chain collateral is locked; on every chain wrapped tokens      *)
(* circulate; value leaves a chain in a transfer, and a transfer is        *)
(* received at most once, on the chain it names.                           *)
(***************************************************************************)
EXTENDS Integers, Functions

CONSTANTS
    Chain, Home,
    Transfers,      \* transfers that can ever be made
    Value,          \* amounts of value that can move at once
    Exact           \* whether one unit of collateral is one wrapped token

VARIABLES
    locked,         \* the value of the collateral
    circulating,    \* wrapped tokens on each chain
    sent,           \* transfers made
    received        \* transfers that arrived

vars == <<locked, circulating, sent, received>>

Id(t) == <<t.originChainId, t.nonce>>

TypeOK ==
    /\ locked \in Int
    /\ circulating \in [Chain -> Int]
    /\ sent \subseteq Transfers
    /\ received \subseteq Transfers

Init ==
    /\ locked = 0
    /\ circulating = [c \in Chain |-> 0]
    /\ sent = {}
    /\ received = {}

Wrap(n) ==
    /\ locked' = locked + n
    /\ circulating' = [circulating EXCEPT ![Home] = @ + n]
    /\ UNCHANGED <<sent, received>>

\* Anybody may add to the collateral without claiming it.
Donate ==
    /\ locked' \in Int /\ locked' > locked
    /\ UNCHANGED <<circulating, sent, received>>

\* Collateral is released for at most its worth in wrapped tokens, and if it
\* is as divisible as they are for just that, unless it is paid back at once.
Releases(released, n) == released <= n /\ (Exact => released \in {0, n})

Unwrap(n, released) ==
    /\ Releases(released, n)
    /\ n <= circulating[Home]
    /\ locked' = locked - released
    /\ circulating' = [circulating EXCEPT ![Home] = @ - n]
    /\ UNCHANGED <<sent, received>>

\* A transfer takes its amount out of what circulates on its chain, and what
\* was wrapped on the way (on the home chain only).
Send(t, wrapped) ==
    /\ \A u \in sent : Id(u) # Id(t)
    /\ wrapped > 0 => t.originChainId = Home
    /\ t.amount <= circulating[t.originChainId] + wrapped
    /\ sent' = sent \cup {t}
    /\ locked' = locked + wrapped
    /\ circulating' = [circulating EXCEPT ![t.originChainId] = @ + wrapped - t.amount]
    /\ UNCHANGED received

InFlight == {t \in sent : t \notin received}

\* A transfer arrives: its amount circulates on the chain it names ...
Receive(t) ==
    /\ t \in InFlight
    /\ t.destinationChainId \in Chain
    /\ received' = received \cup {t}
    /\ circulating' = [circulating EXCEPT ![t.destinationChainId] = @ + t.amount]
    /\ UNCHANGED <<locked, sent>>

\* ... or on the home chain is unwrapped at once.
ReceiveUnwrapped(t, released) ==
    /\ t \in InFlight
    /\ t.destinationChainId = Home
    /\ Releases(released, t.amount)
    /\ received' = received \cup {t}
    /\ locked' = locked - released
    /\ UNCHANGED <<circulating, sent>>

Next ==
    \/ \E n \in Value : Wrap(n)
    \/ Donate
    \/ \E n, m \in Value : Unwrap(n, m)
    \/ \E t \in Transfers, n \in Value : Send(t, n)
    \/ \E t \in InFlight : Receive(t)
    \/ \E t \in InFlight, m \in Value : ReceiveUnwrapped(t, m)

Spec == Init /\ [][Next]_vars

-----------------------------------------------------------------------------
\* All that anybody could still claim.
Claims ==
    SumFunctionOnSet(circulating, Chain)
        + SumFunctionOnSet([t \in InFlight |-> t.amount], InFlight)

\* The collateral covers what circulates on all chains and what is under way.
Solvent == Claims <= locked

=============================================================================
