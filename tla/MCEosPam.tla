------------------------------ MODULE MCEosPam ------------------------------
(***************************************************************************)
(* EosPam on a small instance: two keys, two emitters or topics besides    *)
(* the zero word, and an event with variants of each of its fields.        *)
(***************************************************************************)
EXTENDS EosPam, FiniteSets

CONSTANTS home, remote, far, alice, ghost, key1, key2, word1, word2

Event ==
    [origin |-> remote, block |-> 1, tx |-> 1, emitter |-> word1, topic |-> word2,
     content |-> [nonce |-> 1, token |-> 1, destination |-> home, amount |-> 1,
                  sender |-> 1, recipient |-> alice, data |-> 1]]

Variants ==
    {Event} \cup {[Event EXCEPT !.origin = far], [Event EXCEPT !.block = 2],
                  [Event EXCEPT !.tx = 2],
                  [Event EXCEPT !.emitter = word2], [Event EXCEPT !.emitter = Zero32],
                  [Event EXCEPT !.topic = Zero32],
                  [Event EXCEPT !.content.nonce = 2], [Event EXCEPT !.content.token = 2],
                  [Event EXCEPT !.content.amount = 2],
                  [Event EXCEPT !.content.sender = 2], [Event EXCEPT !.content.data = 2],
                  [Event EXCEPT !.content.destination = far],
                  [Event EXCEPT !.content.recipient = ghost]}

SignedOnes == {[preimage |-> e, signature |-> [by |-> key1, of |-> e]] : e \in Variants}

\* Signed by the second key, and a signature of another event.
OddOnes ==
    {[preimage |-> Event, signature |-> [by |-> key2, of |-> Event]],
     [preimage |-> Event, signature |-> [by |-> key1, of |-> [Event EXCEPT !.block = 2]]]}

Presented == SignedOnes \cup OddOnes

PresentedOperations == {OperationOf(e) : e \in Variants}

CollidingIds == [c \in ChainId |-> IF c = home THEN 1 ELSE 2]

=============================================================================
