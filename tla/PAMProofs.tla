----------------------------- MODULE PAMProofs ------------------------------
(***************************************************************************)
(* Proofs about the replacement of the signer for every set of keys and    *)
(* every grace period.                                                     *)
(***************************************************************************)
EXTENDS PAM, TLAPS

IInv == TypeOK /\ PendingIsNoticed

LEMMA InitIInv == Init => IInv
<1> SUFFICES ASSUME Init PROVE IInv
  OBVIOUS
<1>1. NewPam \in Pam /\ NewPam.teeAddressNew = NoKey
  BY GracePeriodAssumption DEF NewPam, Pam, KeyOrZero
<1>2. NoNotice \in Notice
  BY GracePeriodAssumption DEF NoNotice, Notice, KeyOrZero
<1>3. QED
  BY <1>1, <1>2 DEF Init, IInv, TypeOK, PendingIsNoticed

\* Functions that leave the signers and the notice alone.
LEMMA ConfigurationStep ==
    ASSUME IInv, UNCHANGED notice, pam' \in Pam,
           pam'.teeAddress = pam.teeAddress, pam'.teeAddressNew = pam.teeAddressNew,
           pam'.graceLeft = pam.graceLeft
    PROVE  IInv'
BY DEF IInv, TypeOK, PendingIsNoticed

LEMMA EmitterStep ==
    ASSUME IInv, NEW c \in Chain, NEW e \in Emitter \cup {NoEmitter},
           pam' = EmitterSet(pam, c, e), UNCHANGED notice
    PROVE  IInv'
<1> DEFINE emitters == [pam.emitters EXCEPT ![c] = e]
<1>1. emitters \in [Chain -> Emitter \cup {NoEmitter}]
  BY DEF IInv, TypeOK, Pam
<1>2. pam' = [pam EXCEPT !.emitters = emitters]
  BY DEF EmitterSet
<1> HIDE DEF emitters
<1>3. QED
  BY <1>1, <1>2, ConfigurationStep DEF IInv, TypeOK, Pam

LEMMA StepIInv == IInv /\ [Next]_vars => IInv'
<1> SUFFICES ASSUME IInv, [Next]_vars PROVE IInv'
  OBVIOUS
<1>1. pam \in Pam /\ notice \in Notice
  BY DEF IInv, TypeOK
<1>2. ASSUME NEW key \in KeyOrZero, SetTeeSigner(key)
      PROVE  IInv'
  <2>1. CASE pam.teeAddress = NoKey
    <3>1. pam' = [pam EXCEPT !.teeAddress = key] /\ notice' = notice
      BY <1>2, <2>1 DEF SetTeeSigner, TeeSignerSet
    <3>2. pam' \in Pam /\ pam'.teeAddressNew = pam.teeAddressNew
      BY <1>1, <3>1 DEF Pam
    <3>3. pam.teeAddressNew = NoKey
      BY <2>1 DEF IInv, PendingIsNoticed
    <3>4. QED
      BY <1>1, <3>1, <3>2, <3>3 DEF IInv, TypeOK, PendingIsNoticed
  <2>2. CASE pam.teeAddress # NoKey
    <3>1. /\ pam' = [pam EXCEPT !.teeAddressNew = key, !.graceLeft = GracePeriod]
          /\ notice' = [key |-> key, age |-> 0, used |-> FALSE]
      BY <1>2, <2>2 DEF SetTeeSigner, TeeSignerSet
    <3>2. /\ pam' \in Pam /\ pam'.teeAddress = pam.teeAddress
          /\ pam'.teeAddressNew = key /\ pam'.graceLeft = GracePeriod
      <4>1. GracePeriod \in 0 .. GracePeriod
        BY GracePeriodAssumption
      <4>2. QED
        BY <1>1, <3>1, <4>1 DEF Pam
    <3>3. notice' \in Notice
      BY <3>1, GracePeriodAssumption DEF Notice
    <3>4. QED
      BY <2>2, <3>1, <3>2, <3>3, GracePeriodAssumption DEF IInv, TypeOK, PendingIsNoticed
  <2>3. QED
    BY <2>1, <2>2
<1>3. ASSUME ApplyNewTeeSigner
      PROVE  IInv'
  <2>1. pam' = [pam EXCEPT !.teeAddress = pam.teeAddressNew, !.teeAddressNew = NoKey]
    BY <1>3 DEF ApplyNewTeeSigner, NewTeeSignerApplied
  <2>2. pam' \in Pam /\ pam'.teeAddressNew = NoKey
    BY <1>1, <2>1 DEF Pam, KeyOrZero
  <2>3. notice' \in Notice
    BY <1>1, <1>3 DEF ApplyNewTeeSigner, Notice
  <2>4. QED
    BY <2>2, <2>3 DEF IInv, TypeOK, PendingIsNoticed
<1>4. ASSUME NEW c \in Chain, NEW e \in Emitters, SetEmitter(c, e)
      PROVE  IInv'
  BY <1>4, EmitterStep, ConfigurationAssumption DEF SetEmitter
<1>5. ASSUME NEW c \in Chain, UnsetEmitter(c)
      PROVE  IInv'
  BY <1>5, EmitterStep DEF UnsetEmitter
<1>6. ASSUME NEW c \in Chain, NEW t \in Topics, SetTopicZero(c, t)
      PROVE  IInv'
  <2> DEFINE topics == [pam.chainIdToTopicZero EXCEPT ![c] = t]
  <2>1. topics \in [Chain -> Topic \cup {NoTopic}]
    BY <1>1, ConfigurationAssumption DEF Pam
  <2>2. pam' = [pam EXCEPT !.chainIdToTopicZero = topics] /\ UNCHANGED notice
    BY <1>6 DEF SetTopicZero, TopicZeroSet
  <2> HIDE DEF topics
  <2>3. QED
    BY <1>1, <2>1, <2>2, ConfigurationStep DEF Pam
<1>7. ASSUME Tick
      PROVE  IInv'
  <2> DEFINE left == IF pam.graceLeft = 0 THEN 0 ELSE pam.graceLeft - 1
             age  == IF notice.age = GracePeriod THEN notice.age ELSE notice.age + 1
  <2>1. pam' = [pam EXCEPT !.graceLeft = left] /\ notice' = [notice EXCEPT !.age = age]
    BY <1>7 DEF Tick, GraceElapsing
  <2>2. pam.graceLeft \in 0 .. GracePeriod /\ notice.age \in 0 .. GracePeriod
    BY <1>1 DEF Pam, Notice
  <2>3. left \in 0 .. GracePeriod /\ age \in 0 .. GracePeriod
    BY <2>2, GracePeriodAssumption
  <2>4. pam.graceLeft + notice.age = GracePeriod => left + age = GracePeriod
    BY <2>2, GracePeriodAssumption
  <2> HIDE DEF left, age
  <2>5. /\ pam' \in Pam /\ notice' \in Notice
        /\ pam'.graceLeft = left /\ notice'.age = age
        /\ pam'.teeAddress = pam.teeAddress /\ pam'.teeAddressNew = pam.teeAddressNew
        /\ notice'.key = notice.key /\ notice'.used = notice.used
    BY <1>1, <2>1, <2>3 DEF Pam, Notice
  <2>6. QED
    BY <2>4, <2>5 DEF IInv, TypeOK, PendingIsNoticed
<1>8. CASE UNCHANGED vars
  BY <1>8 DEF vars, IInv, TypeOK, PendingIsNoticed
<1>9. QED
  BY <1>2, <1>3, <1>4, <1>5, <1>6, <1>7, <1>8 DEF Next

\* Only two functions touch the signer in force: the first announcement and
\* the application of a later one.
LEMMA SignerStep ==
    ASSUME IInv, [Next]_vars, pam'.teeAddress # pam.teeAddress, pam.teeAddress # NoKey
    PROVE  ApplyNewTeeSigner
<1>1. pam \in Pam
  BY DEF IInv, TypeOK
<1>2. ASSUME NEW key \in KeyOrZero, SetTeeSigner(key)
      PROVE  pam'.teeAddress = pam.teeAddress
  BY <1>1, <1>2 DEF SetTeeSigner, TeeSignerSet, Pam
<1>3. ASSUME NEW c \in Chain, NEW e, pam' = EmitterSet(pam, c, e)
      PROVE  pam'.teeAddress = pam.teeAddress
  BY <1>1, <1>3 DEF EmitterSet, Pam
<1>4. ASSUME NEW c \in Chain, NEW t \in Topics, SetTopicZero(c, t)
      PROVE  pam'.teeAddress = pam.teeAddress
  BY <1>1, <1>4 DEF SetTopicZero, TopicZeroSet, Pam
<1>5. ASSUME Tick
      PROVE  pam'.teeAddress = pam.teeAddress
  BY <1>1, <1>5 DEF Tick, GraceElapsing, Pam
<1>6. QED
  BY <1>2, <1>3, <1>4, <1>5 DEF Next, vars, SetEmitter, UnsetEmitter

-----------------------------------------------------------------------------
\* The clock of a pending signer is the age of its announcement.
THEOREM PendingSafety == Spec => []PendingIsNoticed
<1>1. IInv => PendingIsNoticed
  BY DEF IInv
<1>2. QED
  BY <1>1, InitIInv, StepIInv, PTL DEF Spec

\* No signer comes into force without having been announced for the whole
\* grace period.
THEOREM SignerSafety == Spec => SignerChangesOnNotice
<1>1. IInv /\ [Next]_vars =>
        [ pam.teeAddress # NoKey /\ pam'.teeAddress # pam.teeAddress =>
              /\ notice.key = pam'.teeAddress
              /\ notice.age = GracePeriod
              /\ ~notice.used ]_vars
  <2> SUFFICES ASSUME IInv, [Next]_vars,
                      pam.teeAddress # NoKey, pam'.teeAddress # pam.teeAddress
               PROVE  notice.key = pam'.teeAddress /\ notice.age = GracePeriod /\ ~notice.used
    OBVIOUS
  <2>1. ApplyNewTeeSigner
    BY SignerStep
  <2>2. pam.teeAddressNew # NoKey /\ pam.graceLeft = 0
    BY <2>1 DEF ApplyNewTeeSigner, CanApplyNewTeeSigner
  <2>3. pam'.teeAddress = pam.teeAddressNew
    BY <2>1 DEF ApplyNewTeeSigner, NewTeeSignerApplied, IInv, TypeOK, Pam
  <2>4. notice.age \in Nat
    BY GracePeriodAssumption DEF IInv, TypeOK, Notice
  <2>5. QED
    BY <2>2, <2>3, <2>4, GracePeriodAssumption DEF IInv, PendingIsNoticed
<1>2. QED
  BY <1>1, InitIInv, StepIInv, PTL DEF Spec, SignerChangesOnNotice

\* A contract that has a signer keeps having one.
THEOREM SignerKept == Spec => SignerNeverLost
<1>1. IInv /\ [Next]_vars =>
        [ pam.teeAddress # NoKey => pam'.teeAddress # NoKey ]_vars
  <2> SUFFICES ASSUME IInv, [Next]_vars, pam.teeAddress # NoKey
               PROVE  pam'.teeAddress # NoKey
    OBVIOUS
  <2>1. CASE pam'.teeAddress = pam.teeAddress
    BY <2>1
  <2>2. CASE pam'.teeAddress # pam.teeAddress
    <3>1. ApplyNewTeeSigner
      BY <2>2, SignerStep
    <3>2. pam'.teeAddress = pam.teeAddressNew /\ pam.teeAddressNew # NoKey
      BY <3>1 DEF ApplyNewTeeSigner, CanApplyNewTeeSigner, NewTeeSignerApplied,
                  IInv, TypeOK, Pam
    <3>3. QED
      BY <3>2
  <2>3. QED
    BY <2>1, <2>2
<1>2. QED
  BY <1>1, InitIInv, StepIInv, PTL DEF Spec, SignerNeverLost

=============================================================================
