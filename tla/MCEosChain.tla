----------------------------- MODULE MCEosChain -----------------------------
(***************************************************************************)
(* EosChain on small instances: one other chain, one TEE key, a few events *)
(* of the other chain's adapter.                                           *)
(***************************************************************************)
EXTENDS EosChain

CONSTANTS here, there, key, emitter, topic, noKey, noOne, payload, remoteUser, alice, bob

MCLow64 == [c \in ChainId |-> c]

MCPam ==
    P!OriginSet(P!TeeSet(P!ChainIdSet(P!NewPam, here), key), there, emitter, topic)

\* Events of the other chain: amounts in wei, Unit = 2.
Swapped(nonce, amount, recipient, data) ==
    [origin |-> there, block |-> 1, tx |-> nonce, emitter |-> emitter, topic |-> topic,
     content |-> [nonce |-> nonce, token |-> PairWord, destination |-> here,
                  amount |-> amount, sender |-> remoteUser, recipient |-> recipient,
                  data |-> data]]

Signed(event) == [preimage |-> event, signature |-> [by |-> key, of |-> event]]

\* Two tokens and a part of one for alice; data and one token for bob.
TwoEvents == {Swapped(1, 5, alice, NoData), Swapped(2, 2, bob, payload)}

\* Two tokens beyond what an int64_t counts, one token, nothing, and less than
\* a unit.
Beyond == Unit * A!Int64s
FourEvents == {Swapped(1, 5 + Beyond, alice, NoData), Swapped(2, 2, bob, payload),
               Swapped(3, 0, bob, payload), Swapped(4, 1, alice, NoData)}

OneEvent == {Swapped(1, 5, alice, payload)}

TwoSigned == {Signed(e) : e \in TwoEvents}
TwoOperations == {P!OperationOf(e) : e \in TwoEvents}
FourSigned == {Signed(e) : e \in FourEvents}
FourOperations == {P!OperationOf(e) : e \in FourEvents}
OneSigned == {Signed(e) : e \in OneEvent}
OneOperation == {P!OperationOf(e) : e \in OneEvent}

MCSwapMemo ==
    [sender: {alice}, chain: {there}, recipient: {remoteUser}, has_userdata: BOOLEAN]

PlainMemo == {m \in MCSwapMemo : ~m.has_userdata}
MCMemos == MCSwapMemo \cup {NoMemo}

\* The token_bytes of a pair whose token is here, and of one from elsewhere.
HomeWord == A!TokenWord(tokenAccount)
AwayWord == [ascii |-> remoteUser]

=============================================================================
