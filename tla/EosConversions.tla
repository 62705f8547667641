--------------------------- MODULE EosConversions ---------------------------
(***************************************************************************)
(* The conversions of utils.hpp and the bytes of events compared with what *)
(* they stand for, one input at a time: given is the amount and precision, *)
(* the word, the text or the event that is converted next.                 *)
(***************************************************************************)
EXTENDS EosEvents

CONSTANTS
    Amounts,        \* amounts in wei
    Exponents,      \* 18 less the precision
    Words, Texts,
    Events,         \* events announced: records of bytes and numbers
    COMMA

VARIABLE given

Init == given = [kind |-> "nothing"]

GiveAmount(n, exp) == given' = [kind |-> "amount", amount |-> n, exp |-> exp]
GiveWord(word) == given' = [kind |-> "word", word |-> word]
GiveText(text) == given' = [kind |-> "text", text |-> text]

GiveEvent(event) == given' = [kind |-> "event", event |-> event]

Convert ==
    /\ given.kind = "nothing"
    /\ \/ \E n \in Amounts, exp \in Exponents : GiveAmount(n, exp)
       \/ \E word \in Words : GiveWord(word)
       \/ \E text \in Texts : GiveText(text)
       \/ \E event \in Events : GiveEvent(event)

Done == given.kind # "nothing" /\ given' = [kind |-> "nothing"]

Next == Convert \/ Done

Spec == Init /\ [][Next]_given

-----------------------------------------------------------------------------
\* settle can mint it: an asset, and a positive one.
Reaches(n, exp) == LET q == AdjustPrecision(n, exp) IN IsAssetAmount(q) /\ q > 0

\* What an asset can hold and what its wei are settled as agree: tokens that
\* cross to another chain of any precision and back are the same in number,
\* and for smaller amounts of wei less than a unit is lost (to_wei,
\* adjust_precision, powint).
AmountsAgree ==
    given.kind = "amount" =>
        LET n == given.amount
            exp == given.exp
        IN  /\ PowInt(10, exp) = 10^exp % BASE^UINT128
            /\ IsAssetAmount(n) /\ n * 10^exp < BASE^UINT128 =>
                  AdjustPrecision(ToWei(n, exp), exp) = n
            /\ n >= 10^exp /\ 4 * (n \div 10^exp) < BASE^UINT64 =>
                  /\ Reaches(n, exp)
                  /\ n - ToWei(AdjustPrecision(n, exp), exp) \in 0 .. 10^exp - 1

\* Words read as 128-bit integers are what they mean, or are refused; those
\* read as 64-bit integers are if they mean one of 64 bits; and what is
\* written reads back (to_bytes, bytes32_to_uint128, bytes32_to_uint64).
WordsAgree ==
    given.kind = "word" =>
        LET n == ValueOf(given.word)
        IN  /\ CanReadUint128(given.word) <=> n < BASE^UINT128
            /\ n < BASE^UINT128 =>
                  Bytes32ToUint128(given.word) = n /\ ToBytes32(n, UINT128) = given.word
            /\ n < BASE^UINT64 =>
                  /\ CanReadUint64(given.word) /\ Bytes32ToUint64(given.word) = n
                  /\ ToBytes32(n, UINT64) = given.word
            /\ GetMappingsKey(given.word) = n % BASE^UINT64

\* The non-empty fields of a text, as maximal runs without a comma.
Fields(text) ==
    LET is(i) == i \in DOMAIN text /\ text[i] # COMMA
        starts == {i \in DOMAIN text : is(i) /\ ~is(i - 1)}
        stop(i) == Min({j \in i .. Len(text) : ~is(j + 1)})
    IN  [k \in 1 .. Cardinality(starts) |->
            LET i == CHOOSE i \in starts : Cardinality({j \in starts : j < i}) = k - 1
            IN  SubSeq(text, i, stop(i))]

\* A memo is cut into its non-empty fields wherever commas stand, and text
\* that is accepted as hexadecimal is digits, two of which make each byte
\* (split, is_hex_notation, hex_to_bytes).
TextsAgree ==
    given.kind = "text" =>
        /\ Split(given.text, COMMA) = Fields(given.text)
        /\ IsHexNotation(given.text) =>
              LET digits == SubSeq(given.text, 3, Len(given.text))
                  value == FoldLeft(LAMBDA v, x : v * 16 + FromHexChar(x), 0, digits)
              IN  Len(digits) % 2 = 0 => ValueOf(HexToBytes(digits)) = value

\* Every conversion yields what its input stands for (utils.hpp).
ConversionsAgree == AmountsAgree /\ WordsAgree /\ TextsAgree

\* Every event of swap reads on the other side as what was announced, under
\* either protocol, whatever its numbers and the lengths of its last two
\* fields, unless both are empty (swap's memo has a recipient).
EventsReadBack ==
    given.kind = "event" /\ given.event.recipient # <<>> =>
        LET event == given.event
        IN  /\ CanDecode(Preimage(event))
            /\ Decoded(Preimage(event)) =
                  [origin |-> event.origin, block |-> event.block, tx |-> event.tx,
                   emitter |-> event.emitter, topic |-> event.topic,
                   nonce |-> event.nonce, token |-> StringToBytes32(event.token),
                   chain |-> event.chain, amount |-> event.amount,
                   sender |-> StringToBytes32(event.sender),
                   recipient |-> event.recipient, data |-> event.data]

=============================================================================
