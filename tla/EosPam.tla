------------------------------- MODULE EosPam -------------------------------
(***************************************************************************)
(* The adapter's authorization tables as a state machine, and what         *)
(* check_authorization (through settle, or through isauthorized of         *)
(* test.pam.cpp) accepts in each state.                                    *)
(*                                                                         *)
(* registered and waited are history variables: registered[c] is what      *)
(* setorigin was last called with for chain c, waited the seconds, up to   *)
(* GRACE_PERIOD, since settee last proposed a key that is not in force.    *)
(***************************************************************************)
EXTENDS EosPamContract

CONSTANTS
    Origins,        \* chains the adapter's account calls setorigin for
    Metadata,       \* what a caller of settle may present
    Operations      \* operations presented with it

ASSUME OriginsAssumption == Origins \subseteq ChainId
ASSUME MetadataAssumption == \A m \in Metadata : m.preimage.origin \in ChainId
ASSUME OperationsAssumption == \A op \in Operations : IsOperation(op)

VARIABLES
    pam,            \* the tables
    registered,     \* history, see above
    waited          \* history, see above; Unset while nothing is proposed

vars == <<pam, registered, waited>>

TypeOK ==
    /\ pam \in Pam
    /\ registered \in [ChainId -> Mapping \cup {Unset}]
    /\ waited \in 0 .. GRACE_PERIOD \cup {Unset}

Init ==
    /\ pam = NewPam
    /\ registered = [c \in ChainId |-> Unset]
    /\ waited = Unset

setchainid(chain_id) ==
    /\ pam' = ChainIdSet(pam, chain_id)
    /\ UNCHANGED <<registered, waited>>

settee(pub_key) ==
    /\ pam' = TeeSet(pam, pub_key)
    /\ waited' = IF pam.tee.exists THEN 0 ELSE Unset
    /\ UNCHANGED registered

applynewtee ==
    /\ CanApplyNewTee(pam)
    /\ pam' = NewTeeApplied(pam)
    /\ waited' = Unset
    /\ UNCHANGED registered

setorigin(chain_id, emitter, topic_zero) ==
    /\ pam' = OriginSet(pam, chain_id, emitter, topic_zero)
    /\ registered' = [registered EXCEPT ![chain_id] =
                         [emitter |-> emitter, topic_zero |-> topic_zero]]
    /\ UNCHANGED waited

Tick ==
    /\ pam' = SecondPassed(pam)
    /\ waited' = IF waited \in 0 .. GRACE_PERIOD - 1 THEN waited + 1 ELSE waited
    /\ UNCHANGED registered

Next ==
    \/ \E c \in ChainId : setchainid(c)
    \/ \E k \in Key : settee(k)
    \/ applynewtee
    \/ \E c \in Origins, e, t \in Bytes32 : setorigin(c, e, t)
    \/ Tick

Spec == Init /\ [][Next]_vars

-----------------------------------------------------------------------------
\* An event is accepted only if its emitter and topic are those last set for
\* its chain, or for another chain with the same last 8 bytes: setorigin and
\* the look-up agree on the row, whatever was overwritten in between.
AuthorizedOriginRegistered ==
    \A m \in Metadata, op \in Operations : IsAuthorized(pam, op, m) =>
        \E c \in ChainId :
            /\ Low64[c] = Low64[m.preimage.origin]
            /\ registered[c] = [emitter |-> m.preimage.emitter, topic_zero |-> m.preimage.topic]

\* Whatever is presented with one preimage, only one operation passes: the
\* caller of settle decides nothing about it (the comparisons of context and
\* content together leave no field of the operation open).
OneOperationPerPreimage ==
    \A m \in Metadata, op \in Operations : IsAuthorized(pam, op, m) =>
        \A n \in Metadata, other \in Operations :
            n.preimage = m.preimage /\ IsAuthorized(pam, other, n) => other = op

\* Once the TEE's key is set, no sequence of settee and applynewtee puts
\* another key in force before it has been public for the grace period, also
\* when proposals replace each other (settee, applynewtee).
KeyChangeWaits ==
    [][ /\ pam.tee.exists
        /\ pam'.tee.key \in Key
        /\ pam'.tee.key # pam.tee.key
        => pam'.tee.key = pam.tee.updating_key /\ waited = GRACE_PERIOD ]_vars

=============================================================================
