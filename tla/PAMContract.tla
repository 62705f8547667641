---------------------------- MODULE PAMContract -----------------------------
(***************************************************************************)
(* The PAM contract (pNetwork authorization module) as a value: one record *)
(* holds its storage, each function that changes it is an operator on the  *)
(* record, and isAuthorized is a predicate.                                *)
(*                                                                         *)
(* Bytes are abstracted.  A preimage is the record of the fields the       *)
(* contract slices out of metadata.preimage; it is its own hash, so that   *)
(* the event id sha256(preimage) is the preimage.  A signature is the key  *)
(* it recovers to.  blockId and txId are one field, tx: both are compared  *)
(* together.  Keys are the addresses that public keys hash to.             *)
(*                                                                         *)
(* Instead of teeAddressChangeGraceThreshold the record holds the seconds  *)
(* from now until then (graceLeft, 0 once it is past): the contract only   *)
(* ever compares the threshold with block.timestamp.                       *)
(***************************************************************************)
EXTENDS Integers

CONSTANTS
    GracePeriod,    \* TEE_ADDRESS_CHANGE_GRACE_PERIOD
    Key, NoKey,     \* signers' addresses, and address(0)
    Chain,          \* chain ids
    Emitter, NoEmitter,
    Topic, NoTopic

ASSUME GracePeriodAssumption == GracePeriod \in Nat
ASSUME NoKeyAssumption == NoKey \notin Key
ASSUME NoEmitterAssumption == NoEmitter \notin Emitter

KeyOrZero == Key \cup {NoKey}

Pam ==
    [teeAddress         : KeyOrZero,
     teeAddressNew      : KeyOrZero,
     graceLeft          : 0 .. GracePeriod,
     emitters           : [Chain -> Emitter \cup {NoEmitter}],
     chainIdToTopicZero : [Chain -> Topic \cup {NoTopic}]]

NewPam ==
    [teeAddress         |-> NoKey,
     teeAddressNew      |-> NoKey,
     graceLeft          |-> 0,
     emitters           |-> [c \in Chain |-> NoEmitter],
     chainIdToTopicZero |-> [c \in Chain |-> NoTopic]]

-----------------------------------------------------------------------------
(***************************************************************************)
(* The signer and its replacement.                                         *)
(***************************************************************************)

\* The first signer may be anything a public key hashes to; a later one must
\* not be the zero address.
CanSetTeeSigner(p, key) == p.teeAddress = NoKey \/ key # NoKey

\* Faulty: a second announcement keeps the clock of the first.
TeeSignerSetKeepingThreshold(p, key) ==
    IF p.teeAddress = NoKey
    THEN [p EXCEPT !.teeAddress = key]
    ELSE [p EXCEPT !.teeAddressNew = key,
                   !.graceLeft = IF p.teeAddressNew = NoKey THEN GracePeriod ELSE @]

TeeSignerSet(p, key) ==
    IF p.teeAddress = NoKey
    THEN [p EXCEPT !.teeAddress = key]
    ELSE [p EXCEPT !.teeAddressNew = key, !.graceLeft = GracePeriod]

\* Faulty: it does not matter whether a signer is announced.
CanApplyNewTeeSignerUnset(p) == p.graceLeft = 0

CanApplyNewTeeSigner(p) == p.teeAddressNew # NoKey /\ p.graceLeft = 0

NewTeeSignerApplied(p) ==
    [p EXCEPT !.teeAddress = p.teeAddressNew, !.teeAddressNew = NoKey]

GraceElapsing(p) == [p EXCEPT !.graceLeft = IF @ = 0 THEN 0 ELSE @ - 1]

-----------------------------------------------------------------------------
(***************************************************************************)
(* Whose events are believed.                                              *)
(***************************************************************************)
EmitterSet(p, chain, emitter) == [p EXCEPT !.emitters[chain] = emitter]

TopicZeroSet(p, chain, topic0) == [p EXCEPT !.chainIdToTopicZero[chain] = topic0]

\* Faulty: the chain it runs on is not compared.
DoesContentMatchOperationAnyChain(content, op, chainid) ==
    /\ content.nonce = op.nonce /\ content.erc20 = op.erc20
    /\ content.destinationChainId = op.destinationChainId
    /\ content.amount = op.amount
    /\ content.sender = op.sender /\ content.recipient = op.recipient
    /\ content.data = op.data

\* doesContentMatchOperation: the event's bytes and the operation say the
\* same, and it is meant for this chain.
DoesContentMatchOperation(content, op, chainid) ==
    /\ content.nonce = op.nonce
    /\ content.erc20 = op.erc20
    /\ content.destinationChainId = op.destinationChainId
    /\ content.destinationChainId = chainid
    /\ content.amount = op.amount
    /\ content.sender = op.sender
    /\ content.recipient = op.recipient
    /\ content.data = op.data

\* _contextChecks.
ContextChecks(op, preimage) ==
    preimage.originChainId = op.originChainId /\ preimage.tx = op.tx

\* Faulty: the signature is not compared with the signer.
IsAuthorizedAnySigner(p, chainid, op, metadata) ==
    LET pre == metadata.preimage
    IN  /\ ContextChecks(op, pre)
        /\ p.emitters[pre.originChainId] # NoEmitter
        /\ pre.emitter = p.emitters[pre.originChainId]
        /\ pre.topic0 = p.chainIdToTopicZero[pre.originChainId]
        /\ DoesContentMatchOperation(pre.content, op, chainid)

\* isAuthorized reverts while no signer is set, and is false otherwise when
\* any check fails; to the adapter the two are one: it does not settle.
IsAuthorized(p, chainid, op, metadata) ==
    LET pre == metadata.preimage
    IN  /\ p.teeAddress # NoKey
        /\ ContextChecks(op, pre)
        /\ metadata.signer = p.teeAddress
        /\ p.emitters[pre.originChainId] # NoEmitter
        /\ pre.emitter = p.emitters[pre.originChainId]
        /\ pre.topic0 = p.chainIdToTopicZero[pre.originChainId]
        /\ DoesContentMatchOperation(pre.content, op, chainid)

=============================================================================
