------------------------------ MODULE MCBridge ------------------------------
(***************************************************************************)
(* Small instances of Bridge for TLC: the home chain and one remote chain. *)
(***************************************************************************)
EXTENDS Bridge, TLC

CONSTANTS home, remote, homeAdapter, remoteAdapter, otherContract,
          user, token, otherToken, swap, settled, x1, x2, payload, k1, k2, k9

MCEmitterOf == home :> homeAdapter @@ remote :> remoteAdapter

BothWays == {<<home, remote>>, <<remote, home>>}
RemoteBelievesHome == {<<remote, home>>}

\* An event that looks like the first swap from the home chain, but for who
\* emitted it and as what.
Imitation(emitter, topic0) ==
    [originChainId |-> home, tx |-> x1, emitter |-> emitter, topic0 |-> topic0,
     content |-> [nonce |-> 0, erc20 |-> Erc20, destinationChainId |-> remote,
                  amount |-> 1, sender |-> user, recipient |-> user, data |-> NoData]]

\* A swap of another contract, and what the adapter emits as something else.
Imitations == {Imitation(otherContract, SwapTopic), Imitation(homeAdapter, settled)}
Inventions == {Imitation(homeAdapter, SwapTopic)}

\* The operations that differ from the right one in one field.
AlteredOperations(pre) ==
    LET op == OperationOf(pre)
    IN  {[op EXCEPT !.tx = x] : x \in Tx} \cup {[op EXCEPT !.originChainId = c] : c \in Chain}
        \cup {[op EXCEPT !.nonce = n] : n \in 0 .. 1} \cup {[op EXCEPT !.erc20 = t] : t \in Asset}
        \cup {[op EXCEPT !.destinationChainId = c] : c \in Destination}
        \cup {[op EXCEPT !.amount = v] : v \in 1 .. 2} \cup {[op EXCEPT !.sender = a] : a \in Address}
        \cup {[op EXCEPT !.recipient = a] : a \in Recipients}
        \cup {[op EXCEPT !.data = d] : d \in Data \cup {NoData}}

NoOperations(pre) == {}

\* A newly deployed PAM, configured like the old one but not yet keyed.
FreshPams == {[DeployedPam(remote) EXCEPT !.teeAddress = NoKey]}

=============================================================================
