--------------------------- MODULE EosPamContract ---------------------------
(***************************************************************************)
(* The authorization of operations on EOS: the tables that pam.hpp         *)
(* declares and adapter.cpp writes (the TEE key, the origins, the local    *)
(* chain id), and check_authorization.                                     *)
(*                                                                         *)
(* A preimage is the record of what check_authorization cuts out of it;    *)
(* the module EosEvents shows that cutting recovers what was put together.  *)
(* A hash is the value hashed.  A signature names the key and the preimage *)
(* it was made for, and recovers, for another preimage, a key nobody has.  *)
(***************************************************************************)
EXTENDS Integers

CONSTANTS
    Account,        \* the accounts that exist
    ChainId,        \* 32-byte chain ids
    Low64,          \* of each, its last 8 bytes: get_mappings_key
    Key,            \* public keys
    EmptyKey,       \* public_key()
    ForeignKey,     \* what a signature of something else recovers
    Bytes32,        \* emitters and topics
    Zero32,         \* 32 zero bytes
    Unset,          \* a singleton or row that does not exist
    GRACE_PERIOD    \* TEE_ADDRESS_CHANGE_GRACE_PERIOD, 48 hours

ASSUME KeyAssumption == EmptyKey \notin Key /\ ForeignKey \notin Key /\ EmptyKey # ForeignKey
ASSUME UnsetAssumption ==
    Unset \notin ChainId \cup [emitter: Bytes32, topic_zero: Bytes32] \cup 0 .. GRACE_PERIOD
ASSUME GraceAssumption == GRACE_PERIOD \in Nat \ {0}
ASSUME Low64Assumption == Low64 \in [ChainId -> {Low64[c] : c \in ChainId}]

MappingsKey == {Low64[c] : c \in ChainId}

Mapping == [emitter: Bytes32, topic_zero: Bytes32]

AnyKey == Key \cup {EmptyKey}

\* tee.exists is whether the singleton was ever written, tee.wait the seconds
\* left until change_grace_threshold.
Pam ==
    [chain_id: ChainId \cup {Unset},
     tee     : [exists: BOOLEAN, key: AnyKey, updating_key: AnyKey, wait: 0 .. GRACE_PERIOD],
     mappings: [MappingsKey -> Mapping \cup {Unset}]]

NewPam ==
    [chain_id |-> Unset,
     tee      |-> [exists |-> FALSE, key |-> EmptyKey, updating_key |-> EmptyKey, wait |-> 0],
     mappings |-> [k \in MappingsKey |-> Unset]]

-----------------------------------------------------------------------------
\* The adapter's own actions; each asks for the adapter's authority.

ChainIdSet(p, chain_id) == [p EXCEPT !.chain_id = chain_id]

\* Faulty: the second key replaces the first at once.
TeeSetAtOnce(p, pub_key) ==
    [p EXCEPT !.tee = [exists |-> TRUE, key |-> pub_key, updating_key |-> EmptyKey, wait |-> 0]]

\* The first key counts at once, a later one only proposes.
TeeSet(p, pub_key) ==
    IF ~p.tee.exists
    THEN [p EXCEPT !.tee = [exists |-> TRUE, key |-> pub_key,
                            updating_key |-> EmptyKey, wait |-> 0]]
    ELSE [p EXCEPT !.tee = [@ EXCEPT !.updating_key = pub_key, !.wait = GRACE_PERIOD]]

CanApplyNewTee(p) == p.tee.exists /\ p.tee.wait = 0

NewTeeApplied(p) ==
    [p EXCEPT !.tee = [exists |-> TRUE, key |-> p.tee.updating_key,
                       updating_key |-> EmptyKey, wait |-> 0]]

OriginSet(p, chain_id, emitter, topic_zero) ==
    [p EXCEPT !.mappings[Low64[chain_id]] = [emitter |-> emitter, topic_zero |-> topic_zero]]

SecondPassed(p) == [p EXCEPT !.tee.wait = IF @ > 0 THEN @ - 1 ELSE 0]

-----------------------------------------------------------------------------
(***************************************************************************)
(* check_authorization.                                                    *)
(***************************************************************************)
ContextChecks(operation, preimage) ==
    /\ preimage.origin = operation.originChainId
    /\ preimage.block = operation.blockId
    /\ preimage.tx = operation.txId

RecoveredKey(metadata) ==
    IF metadata.signature.of = metadata.preimage THEN metadata.signature.by ELSE ForeignKey

\* Faulty: any non-zero emitter of a registered origin.
EmitterExpectedLoosely(p, preimage) ==
    LET row == p.mappings[Low64[preimage.origin]]
    IN  row # Unset /\ preimage.emitter # Zero32 /\ preimage.topic = row.topic_zero

EmitterExpected(p, preimage) ==
    LET row == p.mappings[Low64[preimage.origin]]
    IN  /\ row # Unset
        /\ preimage.emitter = row.emitter /\ preimage.emitter # Zero32
        /\ preimage.topic = row.topic_zero /\ preimage.topic # Zero32

\* Faulty: the sender is not compared.
ContentMatchesLoosely(operation, content) ==
    /\ operation.nonce = content.nonce
    /\ operation.token = content.token
    /\ operation.destinationChainId = content.destination
    /\ operation.amount = content.amount
    /\ operation.recipient = content.recipient
    /\ operation.data = content.data

ContentMatches(operation, content) ==
    /\ operation.nonce = content.nonce
    /\ operation.token = content.token
    /\ operation.destinationChainId = content.destination
    /\ operation.amount = content.amount
    /\ operation.sender = content.sender
    /\ operation.recipient = content.recipient
    /\ operation.data = content.data

IsAuthorized(p, operation, metadata) ==
    /\ ContextChecks(operation, metadata.preimage)
    /\ p.chain_id # Unset
    /\ p.tee.exists
    /\ RecoveredKey(metadata) = p.tee.key
    /\ EmitterExpected(p, metadata.preimage)
    /\ ContentMatches(operation, metadata.preimage.content)
    /\ p.chain_id = metadata.preimage.content.destination
    /\ operation.recipient \in Account

\* What settle takes has these fields and no others.
IsOperation(operation) ==
    operation =
        [blockId |-> operation.blockId, txId |-> operation.txId,
         originChainId |-> operation.originChainId, nonce |-> operation.nonce,
         token |-> operation.token, destinationChainId |-> operation.destinationChainId,
         amount |-> operation.amount, sender |-> operation.sender,
         recipient |-> operation.recipient, data |-> operation.data]

\* The operation a preimage describes.
OperationOf(preimage) ==
    [blockId |-> preimage.block, txId |-> preimage.tx, originChainId |-> preimage.origin,
     nonce |-> preimage.content.nonce, token |-> preimage.content.token,
     destinationChainId |-> preimage.content.destination,
     amount |-> preimage.content.amount, sender |-> preimage.content.sender,
     recipient |-> preimage.content.recipient, data |-> preimage.content.data]

=============================================================================
