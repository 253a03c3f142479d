------------------------------- MODULE VoteChain -------------------------------
(***************************************************************************)
(* What shareholders decide by minting blocks: the protocol version, the   *)
(* park rates, the minimum fee and the custodians that are granted new     *)
(* coins.  Every decision is computed when a block enters the index, from  *)
(* the block and its ancestors, so that the state is one branch: the       *)
(* sequence of the CBlockIndex from the genesis block to its last block.   *)
(*                                                                         *)
(* The coin age a block destroys is read from the coins of the best chain  *)
(* and is an input here.  The fees of the two units are voted on in the    *)
(* same way, and one of them is modelled.                                  *)
(***************************************************************************)
EXTENDS ParkRates

CONSTANTS
    Address,                        \* addresses that can be granted coins
    ShareAddress,                   \* those of the unit 'S'
    BlockInput,                     \* what a block can contain
    MaxHeight,                      \* bound: height of the branch
    PROOF_OF_WORK_BLOCKS,           \* height of the last proof-of-work block
    PARK_RATE_VOTES, PARK_RATE_PREVIOUS_VOTES, PARK_RATE_VOTE_DELAY,
    CUSTODIAN_VOTES,
    FEE_VOTES, FEE_VOTE_DELAY_BLOCKS, SAFE_FEE_BLOCKS, DefaultFee,
    PROTOCOL_SWITCH_REQUIRE_VOTES, PROTOCOL_SWITCH_COUNT_VOTES,
    PROTOCOL_V2_0_VOTE_TIME

PROTOCOL_V0_5 == 50000
PROTOCOL_V2_0 == 2000000

\* A block does not vote on the fee.
NoFee == -1

\* What a proof-of-stake block brings: its time, its vote, the coin age of its
\* coinstake, and the coin age of its other transactions.
InputType ==
    [nTime : Nat, nVersionVote : Nat, vParkRate : RateTable, nFeeVote : Nat \cup {NoFee},
     vCustodianVote : SUBSET [address : Address, nAmount : Nat],
     nStakeAge : Nat, nOtherAge : Nat]

ASSUME InputAssumption == BlockInput \subseteq InputType /\ ShareAddress \subseteq Address
ASSUME VoteAssumption ==
    /\ PARK_RATE_VOTES \in Nat \ {0} /\ PARK_RATE_PREVIOUS_VOTES \in Nat \ {0}
    /\ PARK_RATE_VOTE_DELAY \in Nat /\ CUSTODIAN_VOTES \in Nat \ {0}
    /\ FEE_VOTES \in Nat \ {0} /\ FEE_VOTE_DELAY_BLOCKS \in Nat
    /\ SAFE_FEE_BLOCKS \in 0 .. FEE_VOTE_DELAY_BLOCKS /\ DefaultFee \in Nat
    /\ PROTOCOL_SWITCH_REQUIRE_VOTES \in Nat \ {0}
    /\ PROTOCOL_SWITCH_COUNT_VOTES \in Nat /\ PROTOCOL_V2_0_VOTE_TIME \in Nat
    /\ PROOF_OF_WORK_BLOCKS \in Nat \ {0} /\ MaxHeight \in Nat

VARIABLE chain      \* chain[i] is the index of the block at height i - 1

vars == <<chain>>

\* The fields of a CBlockIndex that voting reads.  pprevElected leads to the list of
\* the previous blocks that elected custodians, given by their places in the chain.
\* nTotalAge is what GetCoinAge found when the block was accepted.
IndexType ==
    [fProofOfStake : BOOLEAN, nTime : Nat, nProtocolVersion : {PROTOCOL_V0_5, PROTOCOL_V2_0},
     nVersionVote : Nat, vParkRate : RateTable, nFeeVote : Nat \cup {NoFee},
     vCustodianVote : SUBSET [address : Address, nAmount : Nat],
     nCoinAgeDestroyed : Nat, nTotalAge : Nat,
     vParkRateResult : RateTable, nVotedFee : Nat \cup {NoFee},
     vElectedCustodian : SUBSET [address : Address, nAmount : Nat],
     pprevElected : SUBSET Nat]

TypeOK == chain \in Seq(IndexType)

\* The last n elements of a sequence, or all of them.
LastOf(s, n) == SubSeq(s, IF Len(s) > n THEN Len(s) - n + 1 ELSE 1, Len(s))

\* The votes of a block on c and of the proof-of-stake blocks among the n - 1 before
\* it, by their places.
VotesOn(c, vote, n) ==
    [i \in {Len(c) + 1} \cup {k \in DOMAIN c : k > Len(c) + 1 - n /\ c[k].fProofOfStake} |->
        IF i = Len(c) + 1 THEN vote ELSE c[i]]

--------------------------------------------------------------------------------
\* Protocol version.

\* The votes for version 2.0 or more in the last blocks of a chain.
VersionVotes(c) ==
    Cardinality({i \in DOMAIN c : /\ i > Len(c) - PROTOCOL_SWITCH_COUNT_VOTES
                                  /\ c[i].nVersionVote >= PROTOCOL_V2_0})

\* Mutated form: a vote that passed is counted again for every block.
ActiveWhileVoted(c) ==
    /\ c # <<>>
    /\ c[Len(c)].nTime >= PROTOCOL_V2_0_VOTE_TIME
    /\ VersionVotes(c) >= PROTOCOL_SWITCH_REQUIRE_VOTES

\* Version 2.0 applies to the next block: the vote passes now, or it has passed.
IsNuProtocolV20NextBlock(c) ==
    /\ c # <<>>
    /\ \/ c[Len(c)].nProtocolVersion >= PROTOCOL_V2_0
       \/ /\ c[Len(c)].nTime >= PROTOCOL_V2_0_VOTE_TIME
          /\ VersionVotes(c) >= PROTOCOL_SWITCH_REQUIRE_VOTES

\* Mutated form: has no lowest version.
GetProtocolOrZero(c) ==
    IF IsNuProtocolV20NextBlock(c) THEN PROTOCOL_V2_0 ELSE 0

GetProtocolForNextBlock(c) ==
    IF IsNuProtocolV20NextBlock(c) THEN PROTOCOL_V2_0 ELSE PROTOCOL_V0_5

--------------------------------------------------------------------------------
\* Park rates.

\* The votes that decide the rates of a block on c: its own and those of the
\* proof-of-stake blocks before it.
ParkVotes(c, vote) == VotesOn(c, vote, PARK_RATE_VOTES)

CalculateParkRateResults(c, vote, nProtocolVersion) ==
    LET voted == CalculateParkRateVote(ParkVotes(c, vote))
    IN  IF nProtocolVersion >= PROTOCOL_V2_0
        THEN LimitParkRateChangeV2_0(voted, c[Len(c)].vParkRateResult)
        ELSE LimitParkRateChangeV0_5(voted,
                Reverse([i \in 1 .. Len(LastOf(c, PARK_RATE_PREVIOUS_VOTES)) |->
                            LastOf(c, PARK_RATE_PREVIOUS_VOTES)[i].vParkRateResult]))

\* The block whose rates apply to what the block at place i parks; none is 0.
GetIndexWithEffectiveParkRates(i) ==
    IF chain[i].nProtocolVersion < PROTOCOL_V2_0 THEN i
    ELSE IF i > PARK_RATE_VOTE_DELAY THEN i - PARK_RATE_VOTE_DELAY ELSE 0

PremiumAt(i, nValue, nDuration) ==
    IF GetIndexWithEffectiveParkRates(i) = 0 THEN 0
    ELSE GetPremium(nValue, nDuration,
                    chain[GetIndexWithEffectiveParkRates(i)].vParkRateResult)

--------------------------------------------------------------------------------
\* Fees.

\* The fee a block votes for.
FeeVote(b) == IF b.nFeeVote = NoFee THEN DefaultFee ELSE b.nFeeVote

\* The last FEE_VOTES votes of a chain; blocks before the first vote for the default.
FeeVotes(c) ==
    [i \in 1 .. FEE_VOTES |-> IF i <= Len(c) THEN FeeVote(c[Len(c) - i + 1]) ELSE DefaultFee]

\* How many of the votes are for at most a fee.
VotesUpTo(votes, fee) == Cardinality({i \in DOMAIN votes : votes[i] <= fee})

\* Mutated form: stops one vote early.
FeeBelowHalf(c) ==
    LET votes == FeeVotes(c)
    IN  Min({fee \in Range(votes) : VotesUpTo(votes, fee) >= FEE_VOTES \div 2 - 1})

\* The fees voted for are visited in increasing order, until half of the votes are
\* for the fee or for less.
CalculateVotedFees(c) ==
    LET votes == FeeVotes(c)
    IN  Min({fee \in Range(votes) : VotesUpTo(votes, fee) >= FEE_VOTES \div 2})

GetVotedMinFee(b) == IF b.nVotedFee = NoFee THEN DefaultFee ELSE b.nVotedFee

\* The place of the block whose voted fee is in force for the block at place i.
GetEffectiveFeeIndex(i) == IF i > FEE_VOTE_DELAY_BLOCKS THEN i - FEE_VOTE_DELAY_BLOCKS ELSE 1

\* The fee of transactions in a block at place i + 1.
GetUnitMinFeeFromPrevBlock(i) == GetVotedMinFee(chain[GetEffectiveFeeIndex(i + 1)])

\* Mutated form: starts at the block in force now.
SafeFeePlacesLate(i) ==
    {k \in 1 .. i : /\ k >= GetEffectiveFeeIndex(i)
                     /\ k < GetEffectiveFeeIndex(i) + SAFE_FEE_BLOCKS}

\* The blocks whose voted fees will be in force in the next SAFE_FEE_BLOCKS blocks.
SafeFeePlaces(i) ==
    {k \in 1 .. i : /\ k > GetEffectiveFeeIndex(i)
                     /\ k <= GetEffectiveFeeIndex(i) + SAFE_FEE_BLOCKS}

\* The fee that a transaction created on the block at place i, the tip, pays.
GetSafeMinFee(i) ==
    Max({0} \cup {GetVotedMinFee(chain[k]) : k \in SafeFeePlaces(i)})

--------------------------------------------------------------------------------
\* Custodians.

\* The places of the blocks that elected custodians, up to the end of a chain.
ElectedPlaces(c) == {Len(c)} \cup c[Len(c)].pprevElected

\* Mutated form: forgets the last block.
ElectedBefore(c) == UNION {{g.address : g \in c[k].vElectedCustodian} : k \in c[Len(c)].pprevElected}

\* The addresses that blocks of a chain granted coins to.
GetElectedCustodians(c) ==
    UNION {{g.address : g \in c[k].vElectedCustodian} : k \in ElectedPlaces(c)}

\* The votes that decide the grants of a block on c; its own has a weight of its own.
ExtractVotes(c, vote) == VotesOn(c, vote, CUSTODIAN_VOTES)

\* The weight of the votes for a grant.
Support(vVote, g) == WeightOf(vVote, {i \in DOMAIN vVote : g \in vVote[i].vCustodianVote})

\* Mutated form: the weight alone decides.
PassedByWeight(vVote) ==
    {g \in UNION {vVote[i].vCustodianVote : i \in DOMAIN vVote} :
        Support(vVote, g) > TotalWeight(vVote) \div 2}

\* A grant passes with more than half of the weight and of the number of votes.
Passed(vVote) ==
    {g \in UNION {vVote[i].vCustodianVote : i \in DOMAIN vVote} :
        /\ Support(vVote, g) > TotalWeight(vVote) \div 2
        /\ Cardinality({i \in DOMAIN vVote : g \in vVote[i].vCustodianVote})
               > Cardinality(DOMAIN vVote) \div 2}

\* Of the grants to an address the heaviest counts, and of those the one that comes
\* first in the map, which has the least amount.
IsHeaviest(vVote, g) ==
    \A h \in Passed(vVote) \ {g} :
        h.address = g.address =>
            \/ Support(vVote, g) > Support(vVote, h)
            \/ Support(vVote, g) = Support(vVote, h) /\ g.nAmount < h.nAmount

GenerateCurrencyCoinBases(vVote, alreadyElected) ==
    {g \in Passed(vVote) : IsHeaviest(vVote, g) /\ g.address \notin alreadyElected}

\* The grants of a block on c whose own vote has the given weight.
Grants(c, vote, weight) ==
    GenerateCurrencyCoinBases(
        ExtractVotes(c, [vote EXCEPT !.nCoinAgeDestroyed = weight]),
        GetElectedCustodians(c))

--------------------------------------------------------------------------------

\* The index of a proof-of-work block: it has no vote and decides nothing.
WorkIndex(nTime, nProtocolVersion, pprevElected) ==
    [fProofOfStake |-> FALSE, nTime |-> nTime, nProtocolVersion |-> nProtocolVersion,
     nVersionVote |-> 0, vParkRate |-> EmptyTable, nFeeVote |-> NoFee,
     vCustodianVote |-> {}, nCoinAgeDestroyed |-> 0, nTotalAge |-> 0,
     vParkRateResult |-> EmptyTable, nVotedFee |-> NoFee,
     vElectedCustodian |-> {}, pprevElected |-> pprevElected]

\* The vote of a block, as it is read under a protocol version: only version 2.0 has
\* votes on fees.
ExtractVote(b, nProtocolVersion) ==
    [nVersionVote |-> b.nVersionVote, vParkRate |-> b.vParkRate,
     nFeeVote |-> IF nProtocolVersion >= PROTOCOL_V2_0 THEN b.nFeeVote ELSE NoFee,
     vCustodianVote |-> b.vCustodianVote, nCoinAgeDestroyed |-> b.nStakeAge]

\* Before version 2.0 shares cannot be granted.
IsValidVote(vote, nProtocolVersion) ==
    nProtocolVersion < PROTOCOL_V2_0 =>
        \A g \in vote.vCustodianVote : g.address \notin ShareAddress

\* The coin age of all the transactions of a block, at least one coin-day.
GetCoinAge(b) == Max({1, b.nStakeAge + b.nOtherAge})

\* pprevElected of a block on the chain.
PrevElected ==
    IF chain[Len(chain)].vElectedCustodian # {}
    THEN {Len(chain)} \cup chain[Len(chain)].pprevElected
    ELSE chain[Len(chain)].pprevElected

Init == chain = <<WorkIndex(0, PROTOCOL_V0_5, {})>>

\* A proof-of-work block enters the index.
AddWorkBlock(b) ==
    /\ Len(chain) <= MaxHeight
    /\ Len(chain) <= PROOF_OF_WORK_BLOCKS
    /\ chain' = Append(chain, WorkIndex(b.nTime, GetProtocolForNextBlock(chain), PrevElected))

\* The index of a proof-of-stake block on the chain.
StakeIndex(b) ==
    LET nProtocolVersion == GetProtocolForNextBlock(chain)
        vote == ExtractVote(b, nProtocolVersion)
    IN  [fProofOfStake |-> TRUE, nTime |-> b.nTime,
         nProtocolVersion |-> nProtocolVersion,
         nVersionVote |-> vote.nVersionVote, vParkRate |-> vote.vParkRate,
         nFeeVote |-> vote.nFeeVote, vCustodianVote |-> vote.vCustodianVote,
         nCoinAgeDestroyed |-> vote.nCoinAgeDestroyed, nTotalAge |-> GetCoinAge(b),
         vParkRateResult |-> CalculateParkRateResults(chain, vote, nProtocolVersion),
         nVotedFee |-> CalculateVotedFees(Append(chain, vote)),
         vElectedCustodian |-> Grants(chain, vote, GetCoinAge(b)),
         pprevElected |-> PrevElected]

\* A proof-of-stake block enters the index: AcceptBlock has checked its version vote
\* and its grants, and AddToBlockIndex its vote and its park rates, which are read
\* from the block, as a table, and must be those computed here.
AddStakeBlock(b) ==
    LET nProtocolVersion == GetProtocolForNextBlock(chain)
        vote == ExtractVote(b, nProtocolVersion)
    IN  /\ Len(chain) <= MaxHeight
        /\ Len(chain) > PROOF_OF_WORK_BLOCKS
        /\ nProtocolVersion >= PROTOCOL_V2_0 => b.nVersionVote >= PROTOCOL_V2_0
        /\ IsValidVote(vote, nProtocolVersion)
        /\ vote.nCoinAgeDestroyed # 0
        /\ CalculateParkRateResults(chain, vote, nProtocolVersion) \in RateTable
        /\ chain' = Append(chain, StakeIndex(b))

\* The index of a block is dropped from memory and read again from its record, at a
\* restart or when BlockMap unloads it: the fees voted before version 2.0 are not in
\* the record.
ReloadIndex(i) ==
    chain' = [chain EXCEPT ![i].nVotedFee =
                 IF chain[i].nProtocolVersion >= PROTOCOL_V2_0 THEN @ ELSE NoFee]

Next ==
    \/ \E b \in BlockInput : AddWorkBlock(b)
    \/ \E b \in BlockInput : AddStakeBlock(b)
    \/ \E i \in DOMAIN chain : ReloadIndex(i)

Spec == Init /\ [][Next]_vars

--------------------------------------------------------------------------------

\* The chain up to the parent of the block at place i.
Before(i) == SubSeq(chain, 1, i - 1)

IsStake(i) == chain[i].fProofOfStake
IsV2(i) == chain[i].nProtocolVersion = PROTOCOL_V2_0

\* Safety.  Version 2.0 applies to a block exactly when some ancestor of it, past the
\* switch time, was preceded by enough votes for it: the version is decided once and
\* is never taken back, whatever later blocks vote and in whatever order their
\* timestamps are.
ProtocolByVote ==
    \A i \in DOMAIN chain :
        IsV2(i) <=> \E j \in 1 .. i - 1 :
                       /\ chain[j].nTime >= PROTOCOL_V2_0_VOTE_TIME
                       /\ VersionVotes(SubSeq(chain, 1, j)) >= PROTOCOL_SWITCH_REQUIRE_VOTES

\* How far the rate of the block at place i is from that of its parent.
RateWithinLimits(i, d) ==
    LET rate == RateOf(chain[i].vParkRateResult, d)
        previous == RateOf(chain[i - 1].vParkRateResult, d)
    IN  /\ rate <= previous + MaxIncrease(d)
        /\ rate >= previous - MaxDecrease(d)

\* Safety.  From version 2.0 on a park rate, voted for or not, moves between a block
\* and the next by no more than the limits, as long as the rate of the first one
\* fits in an unsigned int.
RateChangeLimited ==
    \A i \in 2 .. Len(chain) : \A d \in Duration :
        /\ IsStake(i) /\ IsV2(i)
        /\ RateOf(chain[i - 1].vParkRateResult, d) < UIntRange
        => RateWithinLimits(i, d)

\* Safety.  Before version 2.0 no rate exceeds that of any of the previous
\* PARK_RATE_PREVIOUS_VOTES blocks that has one by more than the limit, as long as
\* their rates fit in an unsigned int.
RateIncreaseLimited ==
    \A i \in 2 .. Len(chain) : \A d \in Duration :
        \A j \in 1 .. i - 1 :
            /\ IsStake(i) /\ ~IsV2(i) /\ j >= i - PARK_RATE_PREVIOUS_VOTES
            /\ chain[j].vParkRateResult[d] \in 0 .. UIntRange - 1
            => chain[i].vParkRateResult[d] <= chain[j].vParkRateResult[d] + MaxIncreaseV0_5(d)

\* Safety.  The rates follow the votes: a rate is raised only with more than half of
\* the coin age in the window asking for it or more, and lowered only when less than
\* that asks for keeping it; before version 2.0 no block has a rate that the window
\* does not ask for.
RateBackedByVotes ==
    \A i \in 2 .. Len(chain) : \A d \in Duration :
        LET votes == ParkVotes(Before(i), chain[i])
            rate == RateOf(chain[i].vParkRateResult, d)
            previous == RateOf(chain[i - 1].vParkRateResult, d)
            asked(r) == WeightOf(votes, {k \in DOMAIN votes : votes[k].vParkRate[d] >= r})
                            > TotalWeight(votes) \div 2
        IN  IsStake(i) /\ previous < UIntRange =>
                /\ rate > previous => asked(rate)
                /\ rate < previous /\ IsV2(i) => ~asked(previous)
                /\ rate > 0 /\ ~IsV2(i) => asked(rate)

\* Safety.  Between two durations that have a rate the premium lies between those of
\* the two, as long as these are amounts: parking a little longer never earns more than
\* the longer of them or less than the shorter, also where the division truncates.
PremiumBetweenNeighbours ==
    \A i \in DOMAIN chain : \A a, b \in Named(chain[i].vParkRateResult) :
        \A n \in CompactDurationToDuration(a) .. CompactDurationToDuration(b) :
            LET table == chain[i].vParkRateResult
                nValue == COIN_PARK_RATE
                ends == {GetPremium(nValue, CompactDurationToDuration(a), table),
                         GetPremium(nValue, CompactDurationToDuration(b), table)}
            IN  /\ MoneyRange(table[a]) /\ MoneyRange(table[b])
                /\ {d \in Named(table) : a < d /\ d < b} = {}
                => /\ Min(ends) <= GetPremium(nValue, n, table)
                   /\ GetPremium(nValue, n, table) <= Max(ends)

\* Violated by the code.  "Verify park transactions now that the premium can be
\* calculated": what may be parked in a block can be taken back with its premium.
ParkedCanBeUnparked ==
    \A i \in DOMAIN chain : \A d \in Duration : \A nValue \in 1 .. MAX_MONEY :
        LET n == CompactDurationToDuration(d)
        IN  IsStake(i) /\ CheckParkWithResult(nValue, n, chain[i].vParkRateResult) =>
                MoneyRange(nValue + PremiumAt(i, nValue, n))

\* Safety.  The voted fee is a median of the last votes: at least half of them are for
\* it or less, and at least half for it or more, also when the index was reloaded.
VotedFeeIsMedian ==
    \A i \in DOMAIN chain :
        LET votes == FeeVotes(SubSeq(chain, 1, i))
            fee == GetVotedMinFee(chain[i])
        IN  IsStake(i) =>
                /\ 2 * VotesUpTo(votes, fee) >= FEE_VOTES
                /\ 2 * Cardinality({k \in DOMAIN votes : votes[k] >= fee}) >= FEE_VOTES

\* Safety.  "to make sure this transaction can be included in any of these blocks": a
\* transaction that pays the safe fee of the tip pays the minimum fee of each of the
\* SAFE_FEE_BLOCKS blocks after it, whatever they vote.
SafeFeeSuffices ==
    \A i \in 2 .. Len(chain) : \A k \in i .. i + SAFE_FEE_BLOCKS - 1 :
        k <= Len(chain) => GetUnitMinFeeFromPrevBlock(k) <= GetSafeMinFee(i)

\* Safety.  No address is granted coins twice by blocks of one branch, although the
\* votes that elected it stay in the window.
ElectedOnce ==
    \A i, j \in DOMAIN chain : i # j =>
        {g.address : g \in chain[i].vElectedCustodian}
            \cap {g.address : g \in chain[j].vElectedCustodian} = {}

\* Safety.  A grant is backed by more than half of the minted blocks in the window,
\* and by more than half of their coin age; an address gets one amount.
ElectedByMajority ==
    \A i \in 2 .. Len(chain) : \A g \in chain[i].vElectedCustodian :
        LET votes == ExtractVotes(Before(i),
                         [chain[i] EXCEPT !.nCoinAgeDestroyed = chain[i].nTotalAge])
        IN  /\ 2 * Cardinality({k \in DOMAIN votes : g \in votes[k].vCustodianVote})
                   > Cardinality(DOMAIN votes)
            /\ 2 * Support(votes, g) > TotalWeight(votes)
            /\ \A h \in chain[i].vElectedCustodian : h.address = g.address => h = g

================================================================================
