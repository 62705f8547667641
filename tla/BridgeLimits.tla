---------------------------- MODULE BridgeLimits ----------------------------
(***************************************************************************)
(* The rate limiter of the xERC20 token: the arithmetic by which XERC20    *)
(* bounds what a bridge may mint or burn per day.  One bucket is one       *)
(* BridgeParameters record of the contract (minterParams or burnerParams). *)
(*                                                                         *)
(* The contract keeps the timestamp of the last update and only ever looks *)
(* at block.timestamp - timestamp, and at that only up to _DURATION.  A    *)
(* bucket here keeps that difference, capped at DURATION, as its age, so   *)
(* that time needs no bound: Aged is one second passing.  A bucket of an   *)
(* address that never had limits (timestamp 0) is fully aged.              *)
(***************************************************************************)
EXTENDS Integers

CONSTANTS
    DURATION,   \* _DURATION, the seconds in which a bucket refills (1 day)
    MaxUint     \* the largest uint256; checked arithmetic reverts above it

ASSUME DurationAssumption == DURATION \in Nat \ {0}
ASSUME MaxUintAssumption == MaxUint \in Nat

Uint == 0 .. MaxUint

Lesser(a, b) == IF a <= b THEN a ELSE b

Bucket == [age: 0 .. DURATION, ratePerSecond: Uint, maxLimit: Uint, currentLimit: Uint]

ZeroBucket == [age |-> DURATION, ratePerSecond |-> 0, maxLimit |-> 0, currentLimit |-> 0]

Aged(p) == [p EXCEPT !.age = Lesser(DURATION, p.age + 1)]

-----------------------------------------------------------------------------

\* The sum _limit + _timePassed * _ratePerSecond.
Refill(p) == p.currentLimit + p.age * p.ratePerSecond

Refilled(p) == p.currentLimit = p.maxLimit \/ p.age >= DURATION

\* The sum above is computed in checked arithmetic, and only when the bucket
\* is neither full nor a day old: where it overflows, every call that reads
\* the limit reverts.
LimitReadable(p) == Refilled(p) \/ Refill(p) <= MaxUint

\* Faulty: the day is over one second early.
GetCurrentLimitEarlyReset(p) ==
    IF p.currentLimit = p.maxLimit \/ p.age + 1 >= DURATION
    THEN p.maxLimit ELSE Lesser(p.maxLimit, Refill(p))

GetCurrentLimit(p) ==
    IF Refilled(p) THEN p.maxLimit ELSE Lesser(p.maxLimit, Refill(p))

UseLimits(p, change) ==
    [p EXCEPT !.age = 0, !.currentLimit = GetCurrentLimit(p) - change]

-----------------------------------------------------------------------------
\* Faulty: a new maximum starts with a full quota.
CalculateNewCurrentLimitReset(limit, oldLimit, currentLimit) == limit

\* _calculateNewCurrentLimit: the quota moves by the change of the maximum
\* and never below zero.
CalculateNewCurrentLimit(limit, oldLimit, currentLimit) ==
    IF oldLimit > limit
    THEN IF currentLimit > oldLimit - limit THEN currentLimit - (oldLimit - limit) ELSE 0
    ELSE currentLimit + (limit - oldLimit)

ChangeLimit(p, limit) ==
    [age           |-> 0,
     ratePerSecond |-> limit \div DURATION,
     maxLimit      |-> limit,
     currentLimit  |-> CalculateNewCurrentLimit(limit, p.maxLimit, GetCurrentLimit(p))]

\* The part of the maximum that is spent at this moment.
UsedQuota(p) == p.maxLimit - GetCurrentLimit(p)

\* A bucket the contract keeps: it refills at maxLimit \div DURATION per
\* second and never holds more than its maximum.
BucketOK(p) ==
    /\ p.currentLimit <= p.maxLimit
    /\ p.ratePerSecond = p.maxLimit \div DURATION

=============================================================================
