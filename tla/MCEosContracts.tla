-------------------------- MODULE MCEosContracts ---------------------------
(***************************************************************************)
(* The four contracts of EosContracts and the conversions, on a small      *)
(* instance.  One of the machines runs, the others rest in their initial   *)
(* states: their interleavings would add nothing.                          *)
(***************************************************************************)
EXTENDS EosContracts, Sequences

CONSTANTS tokenA, tokenB, tokenC, xtokenA, xtokenB

VARIABLES
    running,    \* the machine that runs
    given       \* what is converted

-----------------------------------------------------------------------------
\* A lockbox for two pairs whose wrapped symbols belong to one contract, and a
\* third pair that hides the others: its wrapped symbol, of another contract,
\* is that of the first, its token's symbol that of the second's wrapped one.

PairOf(token_symbol, xerc20, xerc20_symbol) ==
    [token |-> tokenA, token_symbol |-> token_symbol,
     xerc20 |-> xerc20, xerc20_symbol |-> xerc20_symbol]

MCPairs == {PairOf(1, xtokenA, 12), PairOf(2, xtokenA, 14), PairOf(14, xtokenB, 12)}

MCPairAssets ==
    {<<tokenA, s>> : s \in {1, 2, 14}} \cup {<<xtokenA, 12>>, <<xtokenA, 14>>, <<xtokenB, 12>>}

MCInitially ==
    [x \in MCPairAssets |-> [u \in Users |->
        IF x \in {<<tokenA, 1>>, <<tokenA, 2>>} /\ u \in PairBridges THEN 1 ELSE 0]]

\* The first pair's wrapped token has room for what a bridge brings.
MCMaxSupply == [x \in MCPairAssets |-> IF x = <<xtokenA, 12>> THEN 2 ELSE 1]

ASSUME PairsAssumption == L!Parameters

\* Fees in two symbols of one contract, and in one that two others share.
MCAssets == {<<tokenA, 1>>, <<tokenA, 2>>, <<tokenB, 3>>, <<tokenC, 3>>}

ASSUME FeesAssumption == FM!Parameters

-----------------------------------------------------------------------------
\* Words of four bytes: a uint64_t has one and a uint128_t two.

WordOf(b) == [i \in 1 .. 4 |-> b]

\* Amounts at every boundary of an asset's range, and up to the last.
MCAmounts == 0 .. 700 \cup 6390 .. 6410 \cup 25590 .. 25710 \cup 65500 .. 65535

MCWords == {<<b>> \o w : b \in {0, 1}, w \in [1 .. 3 -> {0, 1, 2, 255}]}

Upto(n, S) == UNION {[1 .. k -> S] : k \in 0 .. n}

\* Commas and the characters of 0x9Bf.
MCTexts == Upto(5, {44, 48, 120, 66}) \cup {<<48, 120>> \o t : t \in Upto(4, {57, 66, 102, 103})}

\* Numbers at both ends of their range, texts and data of up to two bytes.
MCEvents ==
    [version: {1}, protocol: {1, 2}, origin: {WordOf(1)}, block: {WordOf(2)}, tx: {WordOf(3)},
     emitter: {WordOf(4)}, topic: {WordOf(5)},
     nonce: {0, 255}, token: {<<>>, <<97, 98>>}, chain: {WordOf(6)},
     amount: {0, 65535}, sender: {<<97>>, <<97, 46, 98>>},
     recipient: {<<>>, <<0>>, <<48, 255>>}, data: {<<>>, <<0>>, <<255>>, <<0, 9>>}]

C == INSTANCE EosConversions WITH
    BASE <- 256, WORD <- 4, COMMA <- 44,
    JSON_PREFIX <- [i \in 1 .. 16 |-> 123], JSON_SUFFIX <- <<34, 125>>,
    Amounts <- MCAmounts, Exponents <- 0 .. 2, Words <- MCWords, Texts <- MCTexts,
    Events <- MCEvents

-----------------------------------------------------------------------------
Machines == {"xtoken", "token", "lockbox", "feesmanager", "conversions"}

MCInit == running \in Machines /\ Init /\ I!Init /\ L!Init /\ FM!Init /\ C!Init

mcVars == <<vars, token, lockboxVars, feesVars, given, running>>

MCNext ==
    \/ /\ running = "xtoken" /\ Next
       /\ UNCHANGED <<running, token, lockboxVars, feesVars, given>>
    \/ /\ running = "token" /\ I!Next
       /\ UNCHANGED <<running, vars, lockboxVars, feesVars, given>>
    \/ /\ running = "lockbox" /\ L!Next
       /\ UNCHANGED <<running, vars, token, feesVars, given>>
    \/ /\ running = "feesmanager" /\ FM!Next
       /\ UNCHANGED <<running, vars, token, lockboxVars, given>>
    \/ /\ running = "conversions" /\ C!Next
       /\ UNCHANGED <<running, vars, token, lockboxVars, feesVars>>

MCSpec == MCInit /\ [][MCNext]_mcVars

-----------------------------------------------------------------------------
\* Amounts cross between precisions unharmed, and words, memos and hexadecimal
\* text are read as what they stand for (utils.hpp).
ConversionsAgree == running = "conversions" => C!ConversionsAgree

\* What swap announces is what check_authorization reads, byte by byte.
EventsReadBack == running = "conversions" => C!EventsReadBack

=============================================================================
