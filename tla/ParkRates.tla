------------------------------- MODULE ParkRates -------------------------------
(***************************************************************************)
(* Park rates: the weighted median of the rates that blocks vote for, the  *)
(* limit on how fast the voted rates may move, and the premium that coins  *)
(* parked for some number of blocks earn.                                  *)
(*                                                                         *)
(* A rate table gives a rate, or none, to each compact duration d, which   *)
(* stands for 2^d blocks.  The tables of votes and of results have one     *)
(* rate per duration and a single unit can be parked, so that the vectors  *)
(* of CParkRate are functions on durations.                                *)
(***************************************************************************)
EXTENDS Integers, Sequences, FiniteSets, SequencesExt

CONSTANTS
    Duration,               \* compact durations a vote may name
    COIN_PARK_RATE,         \* the rate that doubles what is parked
    MAX_PARK_DURATION,      \* most blocks coins can be parked for
    MAX_MONEY,              \* greatest amount of an output
    RateEncodedPercentage,  \* COIN_PARK_RATE / CENT: the rate of one percent
    BlocksInYear,
    UIntRange               \* unsigned int holds 0 .. UIntRange - 1

ASSUME DurationAssumption == IsFiniteSet(Duration) /\ Duration \subseteq Nat
ASSUME RateAssumption ==
    /\ RateEncodedPercentage \in Nat
    /\ BlocksInYear \in Nat \ {0}
    /\ UIntRange \in Nat \ {0}
    /\ COIN_PARK_RATE \in Nat \ {0}
    /\ MAX_MONEY \in Nat /\ MAX_PARK_DURATION \in Nat

\* A duration that a table does not name.
NoRate == -1
RateTable == [Duration -> Nat \cup {NoRate}]
EmptyTable == [d \in Duration |-> NoRate]

\* The rate of a duration: what operator[] of a map returns for a missing key.
RateOf(table, d) == IF table[d] = NoRate THEN 0 ELSE table[d]

CompactDurationToDuration(d) == 2^d

\* The provers do not know powers: a shift of one yields a number of blocks, a longer
\* one more of them, and CompactDurationRange keeps to durations that coins can be
\* parked for.
ASSUME ShiftAssumption ==
    /\ \A d \in Duration : CompactDurationToDuration(d) \in 1 .. MAX_PARK_DURATION
    /\ \A d, e \in Duration :
          d < e => CompactDurationToDuration(d) < CompactDurationToDuration(e)

MoneyRange(nValue) == 0 <= nValue /\ nValue <= MAX_MONEY
ParkDurationRange(n) == 1 <= n /\ n <= MAX_PARK_DURATION

--------------------------------------------------------------------------------

\* The weight of some of the votes, given by their places; a vote has a weight, the
\* coin age its block destroyed, and a table of rates.
WeightOf(vVote, places) == SumFunction([i \in places |-> vVote[i].nCoinAgeDestroyed])

TotalWeight(vVote) == WeightOf(vVote, DOMAIN vVote)

\* The places of the votes for some rates.
VotesFor(vVote, d, rates) == {i \in DOMAIN vVote : vVote[i].vParkRate[d] \in rates}

\* The rates voted for a duration.
VotedRates(vVote, d) == {vVote[i].vParkRate[d] : i \in DOMAIN vVote} \ {NoRate}

\* Mutated form: the votes that name no rate count for the sum.
MedianOfAll(vVote, d) ==
    LET V == VotedRates(vVote, d)
        half == TotalWeight(vVote) \div 2
        sum == [rates \in SUBSET V |-> WeightOf(vVote, VotesFor(vVote, d, rates \cup {NoRate}))]
        visit[rates \in SUBSET V] ==
            LET r == Min(rates)
            IN  IF rates = {r} \/ sum[rates \ {r}] <= half THEN r ELSE visit[rates \ {r}]
    IN  IF V = {} \/ sum[V] <= half THEN 0 ELSE visit[V]

\* The rates voted for a duration are visited in increasing order, until those that
\* are left weigh no more than half of all the votes.  visit is the rate at which the
\* loop ends, given the rates it has still to visit.
Median(vVote, d) ==
    LET V == VotedRates(vVote, d)
        half == TotalWeight(vVote) \div 2
        sum == [rates \in SUBSET V |-> WeightOf(vVote, VotesFor(vVote, d, rates))]
        visit[rates \in SUBSET V] ==
            LET r == Min(rates)
            IN  IF sum[rates \ {r}] <= half THEN r ELSE visit[rates \ {r}]
    IN  IF sum[V] <= half THEN 0 ELSE visit[V]

CalculateParkRateVote(vVote) ==
    [d \in Duration |->
        IF Median(vVote, d) = 0 THEN NoRate ELSE Median(vVote, d)]

--------------------------------------------------------------------------------

\* Before version 2.0 a rate may exceed the least of the previous ones by one percent
\* a year.  A block without a rate for the duration does not count, and the first
\* rate found is stored in an unsigned int.
MaxIncreaseV0_5(d) ==
    (RateEncodedPercentage * CompactDurationToDuration(d)) \div BlocksInYear

\* The places of the previous tables that have a rate for a duration.
NamedPlaces(vPrevious, d) == {i \in DOMAIN vPrevious : vPrevious[i][d] # NoRate}

\* Mutated form: looks at the last rate only.
PreviousLast(vPrevious, d) ==
    LET named == NamedPlaces(vPrevious, d)
    IN  IF named = {} THEN 0 ELSE vPrevious[Min(named)][d] % UIntRange

PreviousMin(vPrevious, d) ==
    LET named == NamedPlaces(vPrevious, d)
        first == Min(named)
    IN  IF named = {} THEN 0
        ELSE Min({vPrevious[first][d] % UIntRange} \cup
                 {vPrevious[i][d] : i \in named \ {first}})

LimitParkRateChangeV0_5(voted, vPrevious) ==
    [d \in Duration |->
        LET limit == PreviousMin(vPrevious, d) + MaxIncreaseV0_5(d)
        IN  IF voted[d] > limit THEN limit ELSE voted[d]]

\* From version 2.0 on a rate moves by at most 0.002 percent a year up and 0.004
\* percent down from that of the previous block, which is stored in an unsigned int.
MaxIncrease(d) ==
    (((RateEncodedPercentage * 2) \div 1000) * CompactDurationToDuration(d))
        \div BlocksInYear
MaxDecrease(d) ==
    (((RateEncodedPercentage * 4) \div 1000) * CompactDurationToDuration(d))
        \div BlocksInYear

StoredRate(previous, d) == RateOf(previous, d) % UIntRange

LimitRate(voted, previous, d) ==
    LET most  == StoredRate(previous, d) + MaxIncrease(d)
        least == StoredRate(previous, d) - MaxDecrease(d)
    IN  IF RateOf(voted, d) > most THEN most
        ELSE IF RateOf(voted, d) < least THEN least
        ELSE voted[d]

\* Mutated form: only the durations that are voted for are limited.
LimitVotedOnly(voted, previous) ==
    [d \in Duration |-> IF voted[d] = NoRate THEN NoRate
                        ELSE LimitRate(voted, previous, d)]

LimitParkRateChangeV2_0(voted, previous) ==
    [d \in Duration |-> LimitRate(voted, previous, d)]

--------------------------------------------------------------------------------

\* Integer division that truncates toward zero, as CBigNum's does.
Quotient(a, b) == IF a >= 0 THEN a \div b ELSE -((-a) \div b)

\* The durations a table names, in blocks.
Named(table) == {d \in Duration : table[d] # NoRate}

\* Mutated form: counts the duration from zero.
InterpolatedFromZero(table, below, above, nDuration) ==
    table[below] + Quotient(
        nDuration * (table[above] - table[below]),
        CompactDurationToDuration(above) - CompactDurationToDuration(below))

\* The rate of a duration between two that have one.
Interpolated(table, below, above, nDuration) ==
    table[below] + Quotient(
        (nDuration - CompactDurationToDuration(below)) * (table[above] - table[below]),
        CompactDurationToDuration(above) - CompactDurationToDuration(below))

\* What parking nValue for nDuration blocks earns.
GetPremium(nValue, nDuration, table) ==
    LET exact == {d \in Named(table) : CompactDurationToDuration(d) = nDuration}
        below == {d \in Named(table) : CompactDurationToDuration(d) < nDuration}
        above == {d \in Named(table) : CompactDurationToDuration(d) > nDuration}
        rate  == CASE exact # {} -> table[Min(exact)]
                   [] exact = {} /\ below # {} /\ above # {} ->
                         Interpolated(table, Max(below), Min(above), nDuration)
                   [] OTHER -> 0
        premium == (nValue * rate) \div COIN_PARK_RATE
    IN  IF MoneyRange(nValue) /\ ParkDurationRange(nDuration) /\ MoneyRange(premium)
        THEN premium ELSE 0

\* A transaction may park nValue when the amount that comes back is an amount.
CheckParkWithResult(nValue, nDuration, table) ==
    /\ MoneyRange(nValue)
    /\ MoneyRange(nValue + GetPremium(nValue, nDuration, table))

================================================================================
