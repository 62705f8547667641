----------------------------- MODULE EosEvents ------------------------------
(***************************************************************************)
(* The bytes of an event: how swap puts them together (adapter.cpp), how   *)
(* an event becomes a preimage, and how check_authorization (pam.hpp) cuts *)
(* it up again.                                                            *)
(***************************************************************************)
EXTENDS EosUtils

CONSTANTS
    JSON_PREFIX,    \* {"event_bytes":", 16 characters
    JSON_SUFFIX     \* "}, 2 characters

\* The bytes swap prints.  sender is an account's name, recipient text.
EventBytes(e) ==
    Concat(<< ToBytes32(e.nonce, UINT64), StringToBytes32(e.token), e.chain,
              ToBytes32(e.amount, UINT128), StringToBytes32(e.sender),
              ToBytes32(Len(e.recipient), UINT64), e.recipient, e.data >>)

HexOf(bytes) ==
    LET digit(d) == IF d < 10 THEN 48 + d ELSE 87 + d
    IN  FlattenSeq([i \in DOMAIN bytes |-> << digit(bytes[i] \div 16), digit(bytes[i] % 16) >>])

\* Protocol 2, EOS: the bytes are text in a JSON object.
Payload(protocol, bytes) ==
    IF protocol = 2 THEN JSON_PREFIX \o HexOf(bytes) \o JSON_SUFFIX ELSE bytes

\* version, protocol, origin, block, transaction, emitter and four topics.
Preimage(e) ==
    Concat(<< << e.version, e.protocol >>, e.origin, e.block, e.tx, e.emitter, e.topic,
              Zeros(3 * WORD), Payload(e.protocol, EventBytes(e)) >>)

-----------------------------------------------------------------------------
\* What check_authorization takes from where.

HEADER == 2
CONTEXT == HEADER + 3 * WORD
TOPICS == CONTEXT + 5 * WORD

\* Faulty: the text is not decoded.
EventDataRaw(preimage) == SubSeq(preimage, TOPICS + 1, Len(preimage))

EventData(preimage) ==
    LET payload == SubSeq(preimage, TOPICS + 1, Len(preimage))
    IN  IF preimage[2] = 2
        THEN HexToBytes(SubSeq(payload, 16 + 1, Len(payload) - 2))
        ELSE payload

\* The n-th word of the event's bytes.
WordAt(data, n) == Extract32Bytes(data, n * WORD)

CanDecode(preimage) ==
    LET data == EventData(preimage)
    IN  /\ \A n \in 0 .. 2 : CanExtract(preimage, HEADER + n * WORD)
        /\ \A n \in 0 .. 1 : CanExtract(preimage, CONTEXT + n * WORD)
        /\ \A n \in 0 .. 5 : CanExtract(data, n * WORD)
        /\ CanReadUint64(WordAt(data, 0))
        /\ CanReadUint128(WordAt(data, 3)) /\ CanReadUint128(WordAt(data, 5))

\* A length beyond the end of the data is undefined behaviour and not here.
Decoded(preimage) ==
    LET data == EventData(preimage)
        from == 6 * WORD
        len == Bytes32ToUint128(WordAt(data, 5))
    IN  [origin |-> Extract32Bytes(preimage, HEADER),
         block |-> Extract32Bytes(preimage, HEADER + WORD),
         tx |-> Extract32Bytes(preimage, HEADER + 2 * WORD),
         emitter |-> Extract32Bytes(preimage, CONTEXT),
         topic |-> Extract32Bytes(preimage, CONTEXT + WORD),
         nonce |-> Bytes32ToUint64(WordAt(data, 0)),
         token |-> WordAt(data, 1),
         chain |-> WordAt(data, 2),
         amount |-> Bytes32ToUint128(WordAt(data, 3)),
         sender |-> WordAt(data, 4),
         recipient |-> SubSeq(data, from + 1, from + len),
         data |-> SubSeq(data, from + len + 1, Len(data))]

=============================================================================
