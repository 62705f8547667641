---------------------------- MODULE EosPamProofs -----------------------------
(***************************************************************************)
(* Proofs about the authorization tables of the EOS adapter, for every     *)
(* set of chains, chain ids that may collide, keys and grace periods.      *)
(***************************************************************************)
EXTENDS EosPam, TLAPS

\* The clock of a proposed key and the wait an observer counts add up to the
\* grace period; without a proposal there is no key to apply.
ProposalWaits ==
    IF waited = Unset THEN pam.tee.updating_key = EmptyKey
    ELSE pam.tee.exists /\ pam.tee.wait + waited = GRACE_PERIOD

\* Each row of the mappings is what was registered last for one of the chains
\* that share its key.
MappingsRegistered ==
    \A k \in MappingsKey : pam.mappings[k] # Unset =>
        \E c \in ChainId : Low64[c] = k /\ registered[c] = pam.mappings[k]

IInv == TypeOK /\ ProposalWaits /\ MappingsRegistered

Tee == [exists: BOOLEAN, key: AnyKey, updating_key: AnyKey, wait: 0 .. GRACE_PERIOD]

LEMMA InitIInv == Init => IInv
<1> SUFFICES ASSUME Init PROVE IInv
  OBVIOUS
<1>1. NewPam \in Pam
  <2>1. 0 \in 0 .. GRACE_PERIOD
    BY GraceAssumption
  <2>2. QED
    BY <2>1 DEF NewPam, Pam, AnyKey
<1>2. NewPam.tee.updating_key = EmptyKey /\ \A k \in MappingsKey : NewPam.mappings[k] = Unset
  BY DEF NewPam
<1>3. QED
  BY <1>1, <1>2 DEF Init, IInv, TypeOK, ProposalWaits, MappingsRegistered

\* Actions that replace the key's singleton only.
LEMMA TeeStep ==
    ASSUME IInv, NEW tee \in Tee, pam' = [pam EXCEPT !.tee = tee], UNCHANGED registered,
           waited' \in 0 .. GRACE_PERIOD \cup {Unset},
           IF waited' = Unset THEN tee.updating_key = EmptyKey
           ELSE tee.exists /\ tee.wait + waited' = GRACE_PERIOD
    PROVE  IInv'
<1>1. pam' \in Pam /\ pam'.tee = tee /\ pam'.mappings = pam.mappings
  BY DEF IInv, TypeOK, Pam, Tee
<1>2. QED
  BY <1>1 DEF IInv, TypeOK, ProposalWaits, MappingsRegistered

LEMMA OriginStep ==
    ASSUME IInv, NEW c \in ChainId, NEW e \in Bytes32, NEW t \in Bytes32,
           setorigin(c, e, t)
    PROVE  IInv'
<1> DEFINE row == [emitter |-> e, topic_zero |-> t]
           mappings == [pam.mappings EXCEPT ![Low64[c]] = row]
<1>1. /\ pam' = [pam EXCEPT !.mappings = mappings]
      /\ registered' = [registered EXCEPT ![c] = row] /\ waited' = waited
  BY DEF setorigin, OriginSet
<1>2. row \in Mapping /\ Low64[c] \in MappingsKey
  BY DEF Mapping, MappingsKey
<1> HIDE DEF row
<1>3. mappings \in [MappingsKey -> Mapping \cup {Unset}]
  BY <1>2 DEF IInv, TypeOK, Pam
<1>4. pam' \in Pam /\ pam'.tee = pam.tee /\ pam'.mappings = mappings
  BY <1>1, <1>3 DEF IInv, TypeOK, Pam
<1>5. registered' \in [ChainId -> Mapping \cup {Unset}]
  BY <1>1, <1>2 DEF IInv, TypeOK
<1>6. ASSUME NEW k \in MappingsKey, mappings[k] # Unset
      PROVE  \E d \in ChainId : Low64[d] = k /\ registered'[d] = mappings[k]
  <2>1. CASE k = Low64[c]
    BY <1>1, <1>2, <2>1 DEF IInv, TypeOK, Pam
  <2>2. CASE k # Low64[c]
    <3>1. mappings[k] = pam.mappings[k]
      BY <2>2 DEF IInv, TypeOK, Pam
    <3>2. PICK d \in ChainId : Low64[d] = k /\ registered[d] = pam.mappings[k]
      BY <1>6, <3>1 DEF IInv, MappingsRegistered
    <3>3. registered'[d] = registered[d]
      BY <1>1, <2>2, <3>2 DEF IInv, TypeOK
    <3>4. QED
      BY <3>1, <3>2, <3>3
  <2>3. QED
    BY <2>1, <2>2
<1> HIDE DEF mappings
<1>7. QED
  BY <1>1, <1>4, <1>5, <1>6 DEF IInv, TypeOK, ProposalWaits, MappingsRegistered

LEMMA StepIInv == IInv /\ [Next]_vars => IInv'
<1> SUFFICES ASSUME IInv, [Next]_vars PROVE IInv'
  OBVIOUS
<1>1. /\ pam \in Pam /\ pam.tee \in Tee /\ pam.tee.wait \in 0 .. GRACE_PERIOD
      /\ waited \in 0 .. GRACE_PERIOD \cup {Unset} /\ ProposalWaits
  BY DEF IInv, TypeOK, Pam, Tee
<1>2. 0 \in 0 .. GRACE_PERIOD /\ GRACE_PERIOD \in 0 .. GRACE_PERIOD /\ Unset \notin 0 .. GRACE_PERIOD
  BY GraceAssumption, UnsetAssumption
<1>3. ASSUME NEW c \in ChainId, setchainid(c)
      PROVE  IInv'
  <2>1. pam' \in Pam /\ pam'.tee = pam.tee /\ pam'.mappings = pam.mappings
    BY <1>1, <1>3 DEF setchainid, ChainIdSet, Pam
  <2>2. QED
    BY <1>3, <2>1 DEF setchainid, IInv, TypeOK, ProposalWaits, MappingsRegistered
<1>4. ASSUME NEW k \in Key, settee(k)
      PROVE  IInv'
  <2>1. CASE ~pam.tee.exists
    <3> DEFINE tee == [exists |-> TRUE, key |-> k, updating_key |-> EmptyKey, wait |-> 0]
    <3>1. pam' = [pam EXCEPT !.tee = tee] /\ UNCHANGED registered /\ waited' = Unset
      BY <1>4, <2>1 DEF settee, TeeSet
    <3>2. tee \in Tee /\ tee.updating_key = EmptyKey
      BY <1>2 DEF Tee, AnyKey
    <3> HIDE DEF tee
    <3>3. QED
      BY <3>1, <3>2, TeeStep
  <2>2. CASE pam.tee.exists
    <3> DEFINE tee == [pam.tee EXCEPT !.updating_key = k, !.wait = GRACE_PERIOD]
    <3>1. pam' = [pam EXCEPT !.tee = tee] /\ UNCHANGED registered /\ waited' = 0
      BY <1>4, <2>2 DEF settee, TeeSet
    <3>2. tee \in Tee /\ tee.exists /\ tee.wait = GRACE_PERIOD
      BY <1>1, <1>2, <2>2 DEF Tee, AnyKey
    <3> HIDE DEF tee
    <3>3. 0 # Unset /\ GRACE_PERIOD + 0 = GRACE_PERIOD
      BY <1>2, GraceAssumption
    <3>4. QED
      BY <1>2, <3>1, <3>2, <3>3, TeeStep
  <2>3. QED
    BY <2>1, <2>2
<1>5. ASSUME applynewtee
      PROVE  IInv'
  <2> DEFINE tee == [exists |-> TRUE, key |-> pam.tee.updating_key,
                     updating_key |-> EmptyKey, wait |-> 0]
  <2>1. pam' = [pam EXCEPT !.tee = tee] /\ UNCHANGED registered /\ waited' = Unset
    BY <1>5 DEF applynewtee, NewTeeApplied
  <2>2. tee \in Tee /\ tee.updating_key = EmptyKey
    BY <1>1, <1>2 DEF Tee, AnyKey
  <2> HIDE DEF tee
  <2>3. QED
    BY <2>1, <2>2, TeeStep
<1>6. ASSUME NEW c \in Origins, NEW e \in Bytes32, NEW t \in Bytes32, setorigin(c, e, t)
      PROVE  IInv'
  BY <1>6, OriginStep, OriginsAssumption
<1>7. ASSUME Tick
      PROVE  IInv'
  <2> DEFINE left == IF pam.tee.wait > 0 THEN pam.tee.wait - 1 ELSE 0
             tee  == [pam.tee EXCEPT !.wait = left]
  <2>1. pam' = [pam EXCEPT !.tee = tee] /\ UNCHANGED registered
    BY <1>7 DEF Tick, SecondPassed
  <2>2. left \in 0 .. GRACE_PERIOD
    BY <1>1, GraceAssumption
  <2>3. /\ tee \in Tee /\ tee.wait = left /\ tee.exists = pam.tee.exists
        /\ tee.updating_key = pam.tee.updating_key
    BY <1>1, <2>2 DEF Tee
  <2>4. CASE waited = Unset
    <3>1. waited' = Unset
      BY <1>2, <1>7, <2>4 DEF Tick
    <3> HIDE DEF tee, left
    <3>2. QED
      BY <1>1, <2>1, <2>3, <2>4, <3>1, TeeStep DEF ProposalWaits
  <2>5. CASE waited # Unset
    <3>1. waited \in 0 .. GRACE_PERIOD /\ pam.tee.exists /\ pam.tee.wait + waited = GRACE_PERIOD
      BY <1>1, <2>5 DEF ProposalWaits
    <3>2. waited' = IF waited \in 0 .. GRACE_PERIOD - 1 THEN waited + 1 ELSE waited
      BY <1>7 DEF Tick
    <3>3. waited' \in 0 .. GRACE_PERIOD /\ left + waited' = GRACE_PERIOD
      BY <1>1, <3>1, <3>2, GraceAssumption
    <3> HIDE DEF tee, left
    <3>4. QED
      BY <1>2, <2>1, <2>3, <3>1, <3>3, TeeStep
  <2>6. QED
    BY <2>4, <2>5
<1>8. CASE UNCHANGED vars
  BY <1>8 DEF vars, IInv, TypeOK, ProposalWaits, MappingsRegistered
<1>9. QED
  BY <1>3, <1>4, <1>5, <1>6, <1>7, <1>8 DEF Next

\* Only settee and applynewtee touch the key, and settee only the first time.
LEMMA KeyStep ==
    ASSUME IInv, [Next]_vars, pam.tee.exists, pam'.tee.key # pam.tee.key
    PROVE  applynewtee
<1>1. pam \in Pam /\ pam.tee \in Tee
  BY DEF IInv, TypeOK, Pam, Tee
<1>2. ASSUME NEW c \in ChainId, setchainid(c)
      PROVE  pam'.tee.key = pam.tee.key
  BY <1>1, <1>2 DEF setchainid, ChainIdSet, Pam
<1>3. ASSUME NEW k \in Key, settee(k)
      PROVE  pam'.tee.key = pam.tee.key
  <2> DEFINE tee == [pam.tee EXCEPT !.updating_key = k, !.wait = GRACE_PERIOD]
  <2>1. pam' = [pam EXCEPT !.tee = tee]
    BY <1>3 DEF settee, TeeSet
  <2>2. tee.key = pam.tee.key
    BY <1>1 DEF Tee
  <2> HIDE DEF tee
  <2>3. QED
    BY <1>1, <2>1, <2>2 DEF Pam
<1>4. ASSUME NEW c \in Origins, NEW e \in Bytes32, NEW t \in Bytes32, setorigin(c, e, t)
      PROVE  pam'.tee.key = pam.tee.key
  <2> DEFINE mappings == [pam.mappings EXCEPT ![Low64[c]] = [emitter |-> e, topic_zero |-> t]]
  <2>1. pam' = [pam EXCEPT !.mappings = mappings]
    BY <1>4 DEF setorigin, OriginSet
  <2> HIDE DEF mappings
  <2>2. QED
    BY <1>1, <2>1 DEF Pam
<1>5. ASSUME Tick
      PROVE  pam'.tee.key = pam.tee.key
  <2> DEFINE left == IF pam.tee.wait > 0 THEN pam.tee.wait - 1 ELSE 0
             tee  == [pam.tee EXCEPT !.wait = left]
  <2>1. pam' = [pam EXCEPT !.tee = tee]
    BY <1>5 DEF Tick, SecondPassed
  <2> HIDE DEF left
  <2>2. tee.key = pam.tee.key
    BY <1>1 DEF Tee
  <2> HIDE DEF tee
  <2>3. QED
    BY <1>1, <2>1, <2>2 DEF Pam
<1>6. QED
  BY <1>2, <1>3, <1>4, <1>5 DEF Next, vars

\* Whatever was registered over what, an event that passes comes from the
\* emitter last registered for a chain of its key.
LEMMA InvariantRegisters == IInv => AuthorizedOriginRegistered
<1> SUFFICES ASSUME IInv, NEW m \in Metadata, NEW op \in Operations, IsAuthorized(pam, op, m)
             PROVE  \E c \in ChainId :
                       /\ Low64[c] = Low64[m.preimage.origin]
                       /\ registered[c] = [emitter |-> m.preimage.emitter,
                                           topic_zero |-> m.preimage.topic]
  BY DEF AuthorizedOriginRegistered
<1> DEFINE k == Low64[m.preimage.origin]
<1>1. /\ pam.mappings[k] # Unset
      /\ m.preimage.emitter = pam.mappings[k].emitter
      /\ m.preimage.topic = pam.mappings[k].topic_zero
  BY DEF IsAuthorized, EmitterExpected
<1>2. k \in MappingsKey
  BY MetadataAssumption DEF MappingsKey
<1>3. PICK c \in ChainId : Low64[c] = k /\ registered[c] = pam.mappings[k]
  BY <1>1, <1>2 DEF IInv, MappingsRegistered
<1>4. registered[c] \in Mapping
  BY <1>1, <1>3 DEF IInv, TypeOK
<1>5. registered[c] = [emitter |-> m.preimage.emitter, topic_zero |-> m.preimage.topic]
  BY <1>1, <1>3, <1>4 DEF Mapping
<1>6. QED
  BY <1>3, <1>5

-----------------------------------------------------------------------------
\* The tables keep their types; in particular no proposal has to wait for
\* longer than the grace period (settee, applynewtee).
THEOREM TypeCorrect == Spec => []TypeOK
<1>1. IInv => TypeOK
  BY DEF IInv
<1>2. QED
  BY <1>1, InitIInv, StepIInv, PTL DEF Spec

\* The table that check_authorization reads agrees with what setorigin was
\* called with, also for chains whose ids end in the same 8 bytes.
THEOREM OriginSafety == Spec => []AuthorizedOriginRegistered
BY InitIInv, StepIInv, InvariantRegisters, PTL DEF Spec

\* No sequence of settee and applynewtee puts a key in force that was not
\* proposed for the whole grace period.
THEOREM KeySafety == Spec => KeyChangeWaits
<1>1. IInv /\ [Next]_vars =>
        [ /\ pam.tee.exists
          /\ pam'.tee.key \in Key
          /\ pam'.tee.key # pam.tee.key
          => pam'.tee.key = pam.tee.updating_key /\ waited = GRACE_PERIOD ]_vars
  <2> SUFFICES ASSUME IInv, [Next]_vars, pam.tee.exists,
                      pam'.tee.key \in Key, pam'.tee.key # pam.tee.key
               PROVE  pam'.tee.key = pam.tee.updating_key /\ waited = GRACE_PERIOD
    OBVIOUS
  <2>1. applynewtee
    BY KeyStep
  <2>2. pam'.tee.key = pam.tee.updating_key /\ pam.tee.wait = 0
    BY <2>1 DEF applynewtee, NewTeeApplied, CanApplyNewTee, IInv, TypeOK, Pam
  <2>3. waited # Unset
    BY <2>2, KeyAssumption DEF IInv, ProposalWaits
  <2>4. waited \in Nat /\ 0 + waited = GRACE_PERIOD
    BY <2>2, <2>3, GraceAssumption DEF IInv, TypeOK, ProposalWaits
  <2>5. QED
    BY <2>2, <2>4
<1>2. QED
  BY <1>1, InitIInv, StepIInv, PTL DEF Spec, KeyChangeWaits

\* What is authorized repeats every field of the event it is presented with:
\* two operations that pass with the same event are the same, in every state.
THEOREM OneOperationSafety == Spec => []OneOperationPerPreimage
<1>1. OneOperationPerPreimage
  <2> SUFFICES ASSUME NEW m \in Metadata, NEW n \in Metadata,
                      NEW op \in Operations, NEW other \in Operations,
                      m.preimage = n.preimage,
                      IsAuthorized(pam, op, m), IsAuthorized(pam, other, n)
               PROVE  other = op
    BY DEF OneOperationPerPreimage
  <2>1. /\ op.blockId = other.blockId /\ op.txId = other.txId
        /\ op.originChainId = other.originChainId
    BY DEF IsAuthorized, ContextChecks
  <2>2. /\ op.nonce = other.nonce /\ op.token = other.token
        /\ op.destinationChainId = other.destinationChainId
        /\ op.amount = other.amount /\ op.sender = other.sender
        /\ op.recipient = other.recipient /\ op.data = other.data
    BY DEF IsAuthorized, ContentMatches
  <2>3. IsOperation(op) /\ IsOperation(other)
    BY OperationsAssumption
  <2>4. QED
    BY <2>1, <2>2, <2>3 DEF IsOperation
<1>2. QED
  BY <1>1, PTL

=============================================================================
