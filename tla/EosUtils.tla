------------------------------ MODULE EosUtils ------------------------------
(***************************************************************************)
(* The conversions of utils.hpp.  Bytes are sequences of 0 .. BASE - 1,    *)
(* the most significant first; BASE is 256 and a word has WORD = 32 of     *)
(* them in the code, a 128-bit integer half a word and a 64-bit integer a  *)
(* quarter.  Characters are bytes.                                         *)
(***************************************************************************)
EXTENDS Integers, SequencesExt

CONSTANTS BASE, WORD

UINT64 == WORD \div 4       \* bytes of a uint64_t
UINT128 == WORD \div 2      \* bytes of a uint128_t

\* What bytes mean, at any length.
ValueOf(bytes) == FoldLeft(LAMBDA v, b : v * BASE + b, 0, bytes)

Zeros(n) == [i \in 1 .. n |-> 0]

\* to_bytes of an integer of width bytes.
ToBytes(value, size, width) ==
    [i \in 1 .. size |-> IF size - i < width THEN (value \div BASE^(size - i)) % BASE ELSE 0]

ToBytes32(value, width) == ToBytes(value, WORD, width)

\* to_bytes32 of a string: its last character is the last byte.
StringToBytes32(string) == Zeros(WORD - Len(string)) \o string

Concat(elements) == FlattenSeq(elements)

\* The data must go on after the word.
CanExtract(data, offset) == Len(data) > offset + WORD

Extract32Bytes(data, offset) == SubSeq(data, offset + 1, offset + WORD)

IsAllZeros(bytes) == \A i \in DOMAIN bytes : bytes[i] = 0

GetMappingsKey(chain_id) == ValueOf(SubSeq(chain_id, WORD - UINT64 + 1, WORD))

\* "number exceeds 128 bits."
CanReadUint128(word) == IsAllZeros(SubSeq(word, 1, WORD - UINT128))

Bytes32ToUint128(word) == ValueOf(SubSeq(word, UINT128 + 1, WORD)) % BASE^UINT128

\* "number exceeds 64 bits."; only as many bytes as the integer has are looked
\* at, and all the others are read.
CanReadUint64(word) == IsAllZeros(SubSeq(word, 1, UINT64))

Bytes32ToUint64(word) == ValueOf(SubSeq(word, UINT64 + 1, WORD)) % BASE^UINT64

-----------------------------------------------------------------------------
(***************************************************************************)
(* Amounts.                                                                *)
(***************************************************************************)
\* powint, by squaring; its products keep 128 bits.
PowInt(x, p) ==
    LET pow[q \in 0 .. p] ==
            IF q = 0 THEN 1 ELSE IF q = 1 THEN x
            ELSE LET tmp == pow[q \div 2]
                 IN  (IF q % 2 = 0 THEN tmp * tmp ELSE x * tmp * tmp) % BASE^UINT128
    IN  pow[p]

\* to_wei; the precision is of 18 at most.
ToWei(amount, exp) == (amount * PowInt(10, exp)) % BASE^UINT128

\* The conversion to int64_t drops the high bits.
ToInt64(n) ==
    LET low == n % BASE^UINT64
    IN  IF 2 * low >= BASE^UINT64 THEN low - BASE^UINT64 ELSE low

\* asset's constructor: "magnitude of asset amount must be less than 2^62".
IsAssetAmount(n) == -BASE^UINT64 < 4 * n /\ 4 * n < BASE^UINT64

\* Faulty: rounded up.
AdjustPrecisionUp(amount, exp) ==
    ToInt64((amount + PowInt(10, exp) - 1) \div PowInt(10, exp))

AdjustPrecision(amount, exp) == ToInt64(amount \div PowInt(10, exp))

-----------------------------------------------------------------------------
(***************************************************************************)
(* Text.                                                                   *)
(***************************************************************************)
\* from_hex_char_to_uint8, over the codes of 0-9, A-F and a-f.
FromHexChar(x) ==
    CASE x \in 97 .. 102 -> x - 87
      [] x \in 65 .. 70  -> x - 55
      [] x \in 48 .. 57  -> x - 48
      [] OTHER           -> x

HexChars == 48 .. 57 \cup 65 .. 70 \cup 97 .. 102

\* "0x" and at least one digit.
IsHexNotation(s) ==
    Len(s) > 2 /\ s[1] = 48 /\ s[2] = 120 /\ \A i \in 3 .. Len(s) : s[i] \in HexChars

\* from_utf8_encoded_to_bytes, and hex_to_bytes of text of even length.
HexToBytes(chars) ==
    [k \in 1 .. Len(chars) \div 2 |->
        FromHexChar(chars[2 * k - 1]) * 16 + FromHexChar(chars[2 * k])]

\* split, for a delimiter of one character: from prev, the characters before
\* the next delimiter are a token if there are any.
Split(str, delim) ==
    LET field[prev \in 0 .. Len(str) + 1] ==
            LET ends == {i \in prev + 1 .. Len(str) : str[i] = delim}
                pos == IF ends = {} THEN Len(str) + 1 ELSE Min(ends)
                token == SubSeq(str, prev + 1, pos - 1)
            IN  (IF token = <<>> THEN <<>> ELSE << token >>)
                    \o (IF pos >= Len(str) THEN <<>> ELSE field[pos])
    IN  IF str = <<>> THEN <<>> ELSE field[0]

=============================================================================
