-------------------------------- MODULE PAM ---------------------------------
(***************************************************************************)
(* The PAM contract as a state machine: the owner announces signers and    *)
(* configures emitters, anybody applies an announced signer, time passes.  *)
(*                                                                         *)
(* notice is a history variable, what an observer of the contract's events *)
(* knows: the signer announced last (TeeSignerPendingChange), for how long *)
(* that announcement has stood, up to the grace period, and whether it has *)
(* been acted upon (TeeSignerChanged).                                     *)
(***************************************************************************)
EXTENDS PAMContract

CONSTANTS Emitters, Topics     \* what the owner configures

ASSUME ConfigurationAssumption == Emitters \subseteq Emitter /\ Topics \subseteq Topic

VARIABLES
    pam,        \* the storage of the contract
    notice      \* history, see above

vars == <<pam, notice>>

Notice == [key: KeyOrZero, age: 0 .. GracePeriod, used: BOOLEAN]

NoNotice == [key |-> NoKey, age |-> 0, used |-> TRUE]

TypeOK == pam \in Pam /\ notice \in Notice

Init == pam = NewPam /\ notice = NoNotice

-----------------------------------------------------------------------------
SetTeeSigner(key) ==
    /\ CanSetTeeSigner(pam, key)
    /\ pam' = TeeSignerSet(pam, key)
    /\ notice' = IF pam.teeAddress = NoKey
                 THEN notice
                 ELSE [key |-> key, age |-> 0, used |-> FALSE]

ApplyNewTeeSigner ==
    /\ CanApplyNewTeeSigner(pam)
    /\ pam' = NewTeeSignerApplied(pam)
    /\ notice' = [notice EXCEPT !.used = TRUE]

SetEmitter(chain, emitter) ==
    /\ pam' = EmitterSet(pam, chain, emitter)
    /\ UNCHANGED notice

UnsetEmitter(chain) ==
    /\ pam' = EmitterSet(pam, chain, NoEmitter)
    /\ UNCHANGED notice

SetTopicZero(chain, topic0) ==
    /\ pam' = TopicZeroSet(pam, chain, topic0)
    /\ UNCHANGED notice

Tick ==
    /\ pam' = GraceElapsing(pam)
    /\ notice' = [notice EXCEPT !.age = IF @ = GracePeriod THEN @ ELSE @ + 1]

Next ==
    \/ \E key \in KeyOrZero : SetTeeSigner(key)
    \/ ApplyNewTeeSigner
    \/ \E c \in Chain, e \in Emitters : SetEmitter(c, e)
    \/ \E c \in Chain : UnsetEmitter(c)
    \/ \E c \in Chain, t \in Topics : SetTopicZero(c, t)
    \/ Tick

Spec == Init /\ [][Next]_vars

-----------------------------------------------------------------------------
\* The announcement the contract is about to act upon is the last one made,
\* and the clock it keeps is the age of that announcement, through any number
\* of announcements made one over the other (setTeeSigner).
PendingIsNoticed ==
    pam.teeAddressNew # NoKey =>
        /\ pam.teeAddress # NoKey
        /\ notice.key = pam.teeAddressNew
        /\ ~notice.used
        /\ pam.graceLeft + notice.age = GracePeriod

\* Once there is a signer, it only ever gives way to the one announced last,
\* after that announcement has stood for the whole grace period without
\* another, and each announcement puts a signer in place at most once
\* (setTeeSigner, applyNewTeeSigner).
SignerChangesOnNotice ==
    [][ pam.teeAddress # NoKey /\ pam'.teeAddress # pam.teeAddress =>
            /\ notice.key = pam'.teeAddress
            /\ notice.age = GracePeriod
            /\ ~notice.used ]_vars

\* The contract never loses its signer: after the first one is set there is
\* always a key that settlements can be signed with (applyNewTeeSigner).
SignerNeverLost ==
    [][ pam.teeAddress # NoKey => pam'.teeAddress # NoKey ]_vars

=============================================================================
