---------------------------- MODULE VoteChainProofs ----------------------------
(***************************************************************************)
(* Proofs about VoteChain, for every height, every choice of the windows,  *)
(* limits and delays, and every content of the blocks.                     *)
(***************************************************************************)
EXTENDS VoteChain, SumTheorems, SequenceTheorems

GrantType == [address : Address, nAmount : Nat]

\* Votes on the fee, as a vote or an index holds them.
HasFeeVotes(c) ==
    /\ Len(c) \in Nat
    /\ \A k \in 1 .. Len(c) : c[k].nFeeVote \in Nat \cup {NoFee}

\* The window of fee votes is filled with fees.
LEMMA FeeVotesType ==
  ASSUME NEW c, HasFeeVotes(c)
  PROVE  FeeVotes(c) \in [1 .. FEE_VOTES -> Nat]
<1>1. \A i \in 1 .. FEE_VOTES :
         i <= Len(c) => Len(c) - i + 1 \in 1 .. Len(c)
  BY VoteAssumption DEF HasFeeVotes
<1>2. \A i \in 1 .. FEE_VOTES : i <= Len(c) => FeeVote(c[Len(c) - i + 1]) \in Nat
  BY <1>1, VoteAssumption DEF HasFeeVotes, FeeVote, NoFee
<1> QED
  BY <1>2, VoteAssumption DEF FeeVotes

\* Half of the votes are for at most some fee that is voted for, and CalculateVotedFees
\* returns the least such fee.
LEMMA VotedFee ==
  ASSUME NEW c, HasFeeVotes(c)
  PROVE  LET votes == FeeVotes(c)
             fee == CalculateVotedFees(c)
         IN  /\ fee \in Range(votes) /\ fee \in Nat
             /\ VotesUpTo(votes, fee) >= FEE_VOTES \div 2
             /\ \A f \in Range(votes) :
                   VotesUpTo(votes, f) >= FEE_VOTES \div 2 => fee <= f
<1> DEFINE votes == FeeVotes(c)
           Enough == {f \in Range(votes) : VotesUpTo(votes, f) >= FEE_VOTES \div 2}
<1>1. votes \in [1 .. FEE_VOTES -> Nat] /\ FEE_VOTES \in Nat \ {0}
  BY FeeVotesType, VoteAssumption
<1> HIDE DEF votes
<1>2. Range(votes) \in SUBSET Nat /\ votes[1] \in Range(votes)
  BY <1>1 DEF Range
<1>3. IsFiniteSet(Range(votes))
  <2>1. IsFiniteSet(1 .. FEE_VOTES)
    BY <1>1, FS_Interval
  <2>2. votes \in Surjection(1 .. FEE_VOTES, Range(votes))
    BY <1>1 DEF Surjection, Range
  <2> QED
    BY <2>1, <2>2, FS_Surjection
<1>4. PICK top \in Range(votes) : \A f \in Range(votes) : f <= top
  BY <1>2, <1>3, GreatestNat
<1>5. {i \in DOMAIN votes : votes[i] <= top} = 1 .. FEE_VOTES
  BY <1>1, <1>4 DEF Range
<1>6. Cardinality(1 .. FEE_VOTES) = FEE_VOTES
  BY <1>1, FS_Interval
<1>7. top \in Enough
  <2>1. VotesUpTo(votes, top) = FEE_VOTES
    BY <1>5, <1>6 DEF VotesUpTo
  <2>2. FEE_VOTES >= FEE_VOTES \div 2
    BY <1>1
  <2> QED
    BY <2>1, <2>2
<1>8. Enough \in SUBSET Nat
  BY <1>2
<1>9. PICK least \in Enough : \A f \in Enough : least <= f
  <2> HIDE DEF Enough
  <2> QED
    BY <1>7, <1>8, LeastNat
<1>10. CalculateVotedFees(c) = Min(Enough)
  BY DEF CalculateVotedFees, votes
<1>11. Min(Enough) \in Enough /\ \A f \in Enough : Min(Enough) <= f
  <2> HIDE DEF Enough
  <2> QED
    BY <1>9 DEF Min
<1> QED
  BY <1>2, <1>10, <1>11 DEF votes

--------------------------------------------------------------------------------

\* What an index holds.
LEMMA FieldTypes ==
  ASSUME NEW r \in IndexType
  PROVE  /\ r.fProofOfStake \in BOOLEAN /\ r.nTime \in Nat
         /\ r.nProtocolVersion \in {PROTOCOL_V0_5, PROTOCOL_V2_0}
         /\ r.nVersionVote \in Nat /\ r.nFeeVote \in Nat \cup {NoFee}
         /\ r.vCustodianVote \subseteq GrantType
         /\ r.vParkRateResult \in RateTable
         /\ r.nVotedFee \in Nat \cup {NoFee}
         /\ r.pprevElected \in SUBSET Nat
  BY DEF IndexType, GrantType

\* The chain is a sequence of them.
LEMMA ElementType ==
  ASSUME TypeOK
  PROVE  /\ Len(chain) \in Nat /\ DOMAIN chain = 1 .. Len(chain)
         /\ \A i \in 1 .. Len(chain) : chain[i] \in IndexType
<1>1. chain \in Seq(IndexType)
  BY DEF TypeOK
<1> QED
  BY <1>1, LenProperties, ElementOfSeq

\* The coin age of a block is a number.
LEMMA CoinAgeType ==
  ASSUME NEW b \in InputType
  PROVE  GetCoinAge(b) \in Nat
<1> DEFINE age == b.nStakeAge + b.nOtherAge
<1>1. age \in Nat
  BY DEF InputType
<1> HIDE DEF age
<1>2. \E x \in {1, age} : \A y \in {1, age} : x >= y
  BY <1>1
<1>3. Max({1, age}) \in {1, age}
  BY <1>2 DEF Max
<1> QED
  BY <1>1, <1>3 DEF GetCoinAge, age

\* There are two protocol versions.
LEMMA VersionType ==
  ASSUME NEW c
  PROVE  GetProtocolForNextBlock(c) \in {PROTOCOL_V0_5, PROTOCOL_V2_0}
  BY DEF GetProtocolForNextBlock

\* The vote that is read from a block.
LEMMA VoteType ==
  ASSUME NEW b \in InputType, NEW n
  PROVE  LET vote == ExtractVote(b, n)
         IN  /\ vote.nVersionVote = b.nVersionVote /\ vote.vParkRate = b.vParkRate
             /\ vote.nFeeVote \in Nat \cup {NoFee}
             /\ vote.vCustodianVote = b.vCustodianVote
             /\ vote.nCoinAgeDestroyed = b.nStakeAge
             /\ \A w : [vote EXCEPT !.nCoinAgeDestroyed = w].vCustodianVote
                           = b.vCustodianVote
  BY DEF InputType, ExtractVote

\* Grants are made to addresses that were voted for and had no grant before.
LEMMA GrantsType ==
  ASSUME TypeOK, NEW b \in InputType, NEW n, NEW w
  PROVE  LET grants == Grants(chain, ExtractVote(b, n), w)
         IN  /\ grants \subseteq GrantType
             /\ \A g \in grants : g.address \notin GetElectedCustodians(chain)
<1> DEFINE vote == [ExtractVote(b, n) EXCEPT !.nCoinAgeDestroyed = w]
           votes == ExtractVotes(chain, vote)
<1>1. vote.vCustodianVote \subseteq GrantType
  BY VoteType DEF InputType, GrantType
<1> HIDE DEF vote
<1>2. \A i \in DOMAIN votes : votes[i].vCustodianVote \subseteq GrantType
  <2>1. \A i \in DOMAIN chain : chain[i].vCustodianVote \subseteq GrantType
    BY ElementType, FieldTypes
  <2>2. \A i \in DOMAIN votes : votes[i] = vote \/ (i \in DOMAIN chain /\ votes[i] = chain[i])
    BY DEF ExtractVotes, VotesOn
  <2> QED
    BY <1>1, <2>1, <2>2
<1> HIDE DEF votes
<1>3. Passed(votes) \subseteq GrantType
  BY <1>2 DEF Passed
<1>4. Grants(chain, ExtractVote(b, n), w)
        = GenerateCurrencyCoinBases(votes, GetElectedCustodians(chain))
  BY DEF Grants, votes, vote
<1> QED
  BY <1>3, <1>4 DEF GenerateCurrencyCoinBases

\* The two kinds of new index.
LEMMA WorkIndexType ==
  ASSUME NEW t \in Nat, NEW v \in {PROTOCOL_V0_5, PROTOCOL_V2_0}, NEW P \in SUBSET Nat
  PROVE  WorkIndex(t, v, P) \in IndexType
<1>1. EmptyTable \in RateTable
  BY DEF EmptyTable, RateTable
<1> QED
  BY <1>1 DEF WorkIndex, IndexType, NoFee

\* pprevElected is a set of places.
LEMMA PrevElectedType ==
  ASSUME TypeOK, Len(chain) > 0
  PROVE  PrevElected \in SUBSET Nat
<1>1. Len(chain) \in Nat /\ chain[Len(chain)] \in IndexType
  BY DEF TypeOK
<1> QED
  BY <1>1 DEF PrevElected, IndexType

\* A proof-of-stake block that is accepted gets an index.
LEMMA StakeIndexType ==
  ASSUME TypeOK, Len(chain) > 0, NEW b \in InputType, AddStakeBlock(b)
  PROVE  StakeIndex(b) \in IndexType
<1> DEFINE n == GetProtocolForNextBlock(chain)
           vote == ExtractVote(b, n)
<1>1. n \in {PROTOCOL_V0_5, PROTOCOL_V2_0}
  BY VersionType
<1>2. /\ vote.nVersionVote \in Nat /\ vote.vParkRate \in RateTable
      /\ vote.nFeeVote \in Nat \cup {NoFee}
      /\ vote.vCustodianVote \in SUBSET GrantType
      /\ vote.nCoinAgeDestroyed \in Nat
  BY VoteType DEF InputType, GrantType
<1>3. CalculateVotedFees(Append(chain, vote)) \in Nat
  <2>1. chain \in Seq(IndexType \cup {vote})
    BY SeqMonotonic DEF TypeOK
  <2> DEFINE c == Append(chain, vote)
  <2>2. /\ Len(c) = Len(chain) + 1
        /\ \A i \in 1 .. Len(chain) : c[i] = chain[i]
        /\ c[Len(chain) + 1] = vote
    BY <2>1, AppendProperties
  <2>3. \A i \in 1 .. Len(chain) : chain[i].nFeeVote \in Nat \cup {NoFee}
    BY ElementType, FieldTypes
  <2>4. Len(chain) \in Nat
    BY DEF TypeOK
  <2> HIDE DEF c, vote
  <2>5. HasFeeVotes(c)
    BY <1>2, <2>2, <2>3, <2>4 DEF HasFeeVotes
  <2> QED
    BY <2>5, VotedFee DEF c
<1>4. Grants(chain, vote, GetCoinAge(b)) \in SUBSET GrantType
  BY GrantsType
<1>5. CalculateParkRateResults(chain, vote, n) \in RateTable
  BY DEF AddStakeBlock
<1>6. GetCoinAge(b) \in Nat /\ PrevElected \in SUBSET Nat /\ b.nTime \in Nat
  BY CoinAgeType, PrevElectedType DEF InputType
<1> QED
  BY <1>1, <1>2, <1>3, <1>4, <1>5, <1>6 DEF StakeIndex, IndexType, GrantType

--------------------------------------------------------------------------------

\* An index that was reloaded, which may have lost its voted fee.
Reloaded(r, s) ==
    /\ s.fProofOfStake = r.fProofOfStake /\ s.nTime = r.nTime
    /\ s.nProtocolVersion = r.nProtocolVersion /\ s.nVersionVote = r.nVersionVote
    /\ s.nFeeVote = r.nFeeVote /\ s.vParkRateResult = r.vParkRateResult
    /\ s.vElectedCustodian = r.vElectedCustodian /\ s.pprevElected = r.pprevElected
    /\ s.vParkRate = r.vParkRate /\ s.vCustodianVote = r.vCustodianVote
    /\ s.nCoinAgeDestroyed = r.nCoinAgeDestroyed /\ s.nTotalAge = r.nTotalAge
    /\ \/ s.nVotedFee = r.nVotedFee
       \/ s.nVotedFee = NoFee /\ r.nProtocolVersion # PROTOCOL_V2_0

\* What is decided for the index of a block on the chain.
Entered(e) ==
    /\ e \in IndexType
    /\ e.nProtocolVersion = GetProtocolForNextBlock(chain)
    /\ e.pprevElected = PrevElected
    /\ \A g \in e.vElectedCustodian : g.address \notin GetElectedCustodians(chain)
    /\ e.fProofOfStake /\ e.nProtocolVersion = PROTOCOL_V2_0 =>
          \E voted : e.vParkRateResult
                        = LimitParkRateChangeV2_0(voted, chain[Len(chain)].vParkRateResult)
    /\ e.fProofOfStake => \E b \in BlockInput : AddStakeBlock(b) /\ e = StakeIndex(b)
    /\ ~e.fProofOfStake => /\ e.nVotedFee = NoFee /\ e.nFeeVote = NoFee
                           /\ e.vElectedCustodian = {}
    /\ e.fProofOfStake <=> Len(chain) > PROOF_OF_WORK_BLOCKS

\* The chain grows by an index.
Grown(e) ==
    /\ Len(chain') = Len(chain) + 1
    /\ \A i \in 1 .. Len(chain) : chain'[i] = chain[i]
    /\ chain'[Len(chain) + 1] = e

\* The chain stays, but for what a reload loses.
Kept ==
    /\ Len(chain') = Len(chain)
    /\ \A i \in 1 .. Len(chain) : Reloaded(chain[i], chain'[i])

\* A step appends an index that was decided, or reloads one.
LEMMA StepShape ==
  ASSUME TypeOK, Len(chain) > 0, [Next]_vars
  PROVE  /\ TypeOK'
         /\ Len(chain)' > 0
         /\ Kept \/ \E e : Entered(e) /\ Grown(e)
<1>t. Len(chain) \in Nat /\ DOMAIN chain = 1 .. Len(chain)
  BY ElementType
<1>1. ASSUME NEW e \in IndexType, chain' = Append(chain, e)
      PROVE  TypeOK' /\ Grown(e) /\ Len(chain)' > 0
  BY <1>1, <1>t, AppendProperties DEF TypeOK, Grown
<1>2. ASSUME NEW b \in BlockInput, AddWorkBlock(b)
      PROVE  TypeOK' /\ Len(chain)' > 0 /\ \E e : Entered(e) /\ Grown(e)
  <2> DEFINE e == WorkIndex(b.nTime, GetProtocolForNextBlock(chain), PrevElected)
  <2>1. b.nTime \in Nat
    BY InputAssumption DEF InputType
  <2>2. e \in IndexType
    BY <2>1, VersionType, PrevElectedType, WorkIndexType
  <2>3. Entered(e)
    <3>1. /\ e.nProtocolVersion = GetProtocolForNextBlock(chain)
          /\ e.pprevElected = PrevElected /\ e.vElectedCustodian = {}
          /\ e.fProofOfStake = FALSE /\ e.nVotedFee = NoFee /\ e.nFeeVote = NoFee
      BY DEF WorkIndex
    <3>2. ~(Len(chain) > PROOF_OF_WORK_BLOCKS)
      BY <1>2, <1>t, VoteAssumption DEF AddWorkBlock
    <3> HIDE DEF e
    <3> QED
      BY <2>2, <3>1, <3>2 DEF Entered
  <2>4. chain' = Append(chain, e)
    BY <1>2 DEF AddWorkBlock
  <2> HIDE DEF e
  <2> QED
    BY <1>1, <2>2, <2>3, <2>4
<1>3. ASSUME NEW b \in BlockInput, AddStakeBlock(b)
      PROVE  TypeOK' /\ Len(chain)' > 0 /\ \E e : Entered(e) /\ Grown(e)
  <2> DEFINE e == StakeIndex(b)
             n == GetProtocolForNextBlock(chain)
             vote == ExtractVote(b, n)
  <2>1. b \in InputType
    BY InputAssumption
  <2>2. e \in IndexType
    BY <1>3, <2>1, StakeIndexType
  <2>3. /\ e.nProtocolVersion = n
        /\ e.pprevElected = PrevElected
        /\ e.vElectedCustodian = Grants(chain, vote, GetCoinAge(b))
        /\ e.vParkRateResult = CalculateParkRateResults(chain, vote, n)
    BY DEF StakeIndex
  <2>4. \A g \in e.vElectedCustodian : g.address \notin GetElectedCustodians(chain)
    BY <2>1, <2>3, GrantsType
  <2>5. n = PROTOCOL_V2_0 =>
          e.vParkRateResult = LimitParkRateChangeV2_0(
              CalculateParkRateVote(ParkVotes(chain, vote)), chain[Len(chain)].vParkRateResult)
    BY <2>3 DEF CalculateParkRateResults, PROTOCOL_V2_0
  <2>6. chain' = Append(chain, e)
    BY <1>3 DEF AddStakeBlock
  <2>8. e.fProofOfStake = TRUE
    BY DEF StakeIndex
  <2>9. Len(chain) > PROOF_OF_WORK_BLOCKS
    BY <1>3 DEF AddStakeBlock
  <2>10. \E a \in BlockInput : AddStakeBlock(a) /\ e = StakeIndex(a)
    BY <1>3
  <2> HIDE DEF e, n, vote
  <2>7. Entered(e)
    BY <2>2, <2>3, <2>4, <2>5, <2>8, <2>9, <2>10 DEF Entered, n
  <2> QED
    BY <1>1, <2>2, <2>6, <2>7
<1>4. ASSUME NEW i \in DOMAIN chain, ReloadIndex(i)
      PROVE  TypeOK' /\ Len(chain)' > 0 /\ Kept
  <2> DEFINE fee == IF chain[i].nProtocolVersion >= PROTOCOL_V2_0
                    THEN chain[i].nVotedFee ELSE NoFee
             r == [chain[i] EXCEPT !.nVotedFee = fee]
  <2>1. chain[i] \in IndexType /\ i \in 1 .. Len(chain)
    BY <1>t, ElementType
  <2>2. fee \in Nat \cup {NoFee}
    BY <2>1, FieldTypes
  <2>3. chain' = [chain EXCEPT ![i] = r]
    BY <1>4, <2>1 DEF ReloadIndex
  <2>7. \/ fee = chain[i].nVotedFee
        \/ fee = NoFee /\ chain[i].nProtocolVersion # PROTOCOL_V2_0
    BY DEF PROTOCOL_V2_0
  <2> HIDE DEF fee
  <2>4. r \in IndexType /\ Reloaded(chain[i], r)
    BY <2>1, <2>2, <2>7 DEF IndexType, Reloaded
  <2> HIDE DEF r
  <2>5. /\ chain' \in Seq(IndexType) /\ Len(chain') = Len(chain)
        /\ \A j \in 1 .. Len(chain) : chain'[j] = IF j = i THEN r ELSE chain[j]
    BY <2>1, <2>3, <2>4, ExceptSeq DEF TypeOK
  <2>6. \A x : Reloaded(x, x)
    BY DEF Reloaded
  <2> QED
    BY <2>4, <2>5, <2>6 DEF TypeOK, Kept
<1>5. CASE UNCHANGED vars
  <2>1. chain' = chain
    BY <1>5 DEF vars
  <2> QED
    BY <2>1 DEF TypeOK, Kept, Reloaded
<1> QED
  BY <1>2, <1>3, <1>4, <1>5 DEF Next

\* The node starts with the genesis block.
LEMMA InitShape ==
  ASSUME Init
  PROVE  /\ TypeOK /\ Len(chain) = 1
         /\ chain[1] = WorkIndex(0, PROTOCOL_V0_5, {})
<1> DEFINE g == WorkIndex(0, PROTOCOL_V0_5, {})
<1>1. g \in IndexType
  BY WorkIndexType
<1>2. chain = <<g>>
  BY DEF Init
<1> HIDE DEF g
<1> QED
  BY <1>1, <1>2 DEF TypeOK, g

ShapeInv == TypeOK /\ Len(chain) > 0

\* A step, and the lengths of the chain before and after it.
LEMMA ShapeStep ==
  ASSUME ShapeInv, [Next]_vars
  PROVE  /\ ShapeInv'
         /\ Kept \/ \E e : Entered(e) /\ Grown(e)
         /\ Len(chain) \in Nat \ {0} /\ DOMAIN chain = 1 .. Len(chain)
         /\ Len(chain') \in Nat /\ DOMAIN (chain') = 1 .. Len(chain')
<1>1. ShapeInv' /\ (Kept \/ \E e : Entered(e) /\ Grown(e))
  BY StepShape DEF ShapeInv
<1>2. TypeOK /\ TypeOK'
  BY <1>1 DEF ShapeInv
<1>3. Len(chain) \in Nat /\ DOMAIN chain = 1 .. Len(chain)
  BY <1>2, ElementType
<1>4. Len(chain') \in Nat /\ DOMAIN (chain') = 1 .. Len(chain')
  BY <1>2, LenProperties DEF TypeOK
<1> QED
  BY <1>1, <1>3, <1>4 DEF ShapeInv

\* The chain is never empty and its indices keep their types.
THEOREM ShapeInductive == Spec => []ShapeInv
<1>1. Init => ShapeInv
  BY InitShape DEF ShapeInv
<1>2. ShapeInv /\ [Next]_vars => ShapeInv'
  BY StepShape DEF ShapeInv
<1> QED
  BY <1>1, <1>2, PTL DEF Spec

\* Every index keeps its type, the voted fee included: a fee with half of the votes
\* always exists.
THEOREM VoteTypeCorrect == Spec => []TypeOK
<1>1. ShapeInv => TypeOK
  BY DEF ShapeInv
<1> QED
  BY <1>1, ShapeInductive, PTL

--------------------------------------------------------------------------------

\* The list that starts at pprevElected has all the earlier blocks with grants.
ElectedInv ==
    \A i \in 1 .. Len(chain) :
        chain[i].pprevElected = {k \in 1 .. i - 1 : chain[k].vElectedCustodian # {}}

GrantedTo(r) == {g.address : g \in r.vElectedCustodian}

\* No address is granted coins by two blocks, for any window and any votes.
THEOREM GrantedOnce == Spec => []ElectedOnce
<1> DEFINE IInv == ShapeInv /\ ElectedInv /\ ElectedOnce
<1>1. Init => IInv
  <2> SUFFICES ASSUME Init PROVE IInv
    OBVIOUS
  <2>1. /\ TypeOK /\ Len(chain) = 1 /\ chain[1].pprevElected = {}
        /\ DOMAIN chain = 1 .. 1
    BY InitShape, ElementType DEF WorkIndex
  <2>2. ElectedInv
    BY <2>1 DEF ElectedInv
  <2>3. ElectedOnce
    BY <2>1 DEF ElectedOnce
  <2> QED
    BY <2>1, <2>2, <2>3 DEF ShapeInv
<1>2. IInv /\ [Next]_vars => IInv'
  <2> SUFFICES ASSUME IInv, [Next]_vars PROVE IInv'
    OBVIOUS
  <2>1. ShapeInv' /\ (Kept \/ \E e : Entered(e) /\ Grown(e))
    BY ShapeStep
  <2>2. /\ Len(chain) \in Nat \ {0} /\ DOMAIN chain = 1 .. Len(chain)
        /\ Len(chain') \in Nat /\ DOMAIN (chain') = 1 .. Len(chain')
    BY ShapeStep
  <2>3. CASE Kept
    <3>1. /\ Len(chain') = Len(chain)
          /\ \A i \in 1 .. Len(chain) :
                /\ chain'[i].vElectedCustodian = chain[i].vElectedCustodian
                /\ chain'[i].pprevElected = chain[i].pprevElected
      BY <2>3 DEF Kept, Reloaded
    <3>2. ElectedInv'
      BY <2>2, <3>1 DEF ElectedInv
    <3>3. ElectedOnce'
      BY <2>2, <3>1 DEF ElectedOnce
    <3> QED
      BY <2>1, <3>2, <3>3
  <2>4. ASSUME NEW e, Entered(e), Grown(e)
        PROVE  IInv'
    <3> DEFINE n == Len(chain)
    <3>1. /\ Len(chain') = n + 1 /\ chain'[n + 1] = e
          /\ \A i \in 1 .. n : chain'[i] = chain[i]
      BY <2>4 DEF Grown
    <3>2. chain[n].pprevElected = {k \in 1 .. n - 1 : chain[k].vElectedCustodian # {}}
      BY <2>2 DEF ElectedInv
    <3>3. e.pprevElected = {k \in 1 .. n : chain[k].vElectedCustodian # {}}
      <4>1. e.pprevElected = PrevElected
        BY <2>4 DEF Entered
      <4>2. {k \in 1 .. n : chain[k].vElectedCustodian # {}}
              = IF chain[n].vElectedCustodian # {}
                THEN {n} \cup chain[n].pprevElected ELSE chain[n].pprevElected
        BY <2>2, <3>2
      <4> QED
        BY <4>1, <4>2 DEF PrevElected
    <3>4. ElectedInv'
      <4>1. \A i \in 1 .. n : chain'[i].pprevElected
                = {k \in 1 .. i - 1 : chain'[k].vElectedCustodian # {}}
        BY <2>2, <3>1 DEF ElectedInv
      <4>2. chain'[n + 1].pprevElected
                = {k \in 1 .. (n + 1) - 1 : chain'[k].vElectedCustodian # {}}
        BY <2>2, <3>1, <3>3
      <4> HIDE DEF n
      <4> QED
        BY <2>2, <3>1, <4>1, <4>2 DEF ElectedInv, n
    <3>5. \A i \in 1 .. n : GrantedTo(chain[i]) \cap GrantedTo(e) = {}
      <4>1. \A g \in e.vElectedCustodian : g.address \notin GetElectedCustodians(chain)
        BY <2>4 DEF Entered
      <4>2. \A i \in 1 .. n : chain[i].vElectedCustodian # {} => i \in ElectedPlaces(chain)
        <5>1. ElectedPlaces(chain)
                = {n} \cup {k \in 1 .. n - 1 : chain[k].vElectedCustodian # {}}
          BY <3>2 DEF ElectedPlaces
        <5>2. n \in Nat
          BY <2>2
        <5> HIDE DEF n
        <5>3. \A i \in 1 .. n : i = n \/ i \in 1 .. n - 1
          BY <5>2
        <5> QED
          BY <5>1, <5>3
      <4>3. \A i \in 1 .. n : GrantedTo(chain[i]) \subseteq GetElectedCustodians(chain)
        BY <4>2 DEF GrantedTo, GetElectedCustodians
      <4> QED
        BY <4>1, <4>3 DEF GrantedTo
    <3>6. \A i, j \in 1 .. n : i # j => GrantedTo(chain[i]) \cap GrantedTo(chain[j]) = {}
      BY <2>2 DEF ElectedOnce, GrantedTo
    <3>7. \A i, j \in 1 .. n + 1 :
            i # j => GrantedTo(chain'[i]) \cap GrantedTo(chain'[j]) = {}
      <4> HIDE DEF n
      <4>1. \A i \in 1 .. n + 1 : i \in 1 .. n \/ i = n + 1
        BY <2>2 DEF n
      <4> QED
        BY <3>1, <3>5, <3>6, <4>1
    <3>8. ElectedOnce'
      BY <2>2, <3>1, <3>7 DEF ElectedOnce, GrantedTo
    <3> QED
      BY <2>1, <3>4, <3>8
  <2> QED
    BY <2>1, <2>3, <2>4
<1> QED
  BY <1>1, <1>2, PTL DEF Spec

--------------------------------------------------------------------------------

\* The limits are numbers.
LEMMA LimitType ==
  ASSUME NEW d \in Duration
  PROVE  MaxIncrease(d) \in Nat /\ MaxDecrease(d) \in Nat
<1> DEFINE blocks == CompactDurationToDuration(d)
           up == (RateEncodedPercentage * 2) \div 1000
           down == (RateEncodedPercentage * 4) \div 1000
<1>1. blocks \in Nat
  BY ShiftAssumption
<1>2. up \in Nat /\ down \in Nat
  BY RateAssumption
<1>3. MaxIncrease(d) = (up * blocks) \div BlocksInYear
      /\ MaxDecrease(d) = (down * blocks) \div BlocksInYear
  BY DEF MaxIncrease, MaxDecrease
<1> HIDE DEF blocks, up, down
<1>4. up * blocks \in Nat /\ down * blocks \in Nat
  BY <1>1, <1>2
<1> QED
  BY <1>3, <1>4, RateAssumption

\* LimitParkRateChangeV2_0 keeps a rate within the limits, whatever was voted.
LEMMA LimitLimits ==
  ASSUME NEW previous \in RateTable, NEW voted, NEW d \in Duration,
         LimitParkRateChangeV2_0(voted, previous) \in RateTable,
         RateOf(previous, d) < UIntRange
  PROVE  LET rate == RateOf(LimitParkRateChangeV2_0(voted, previous), d)
         IN  /\ rate <= RateOf(previous, d) + MaxIncrease(d)
             /\ rate >= RateOf(previous, d) - MaxDecrease(d)
<1> DEFINE p == RateOf(previous, d)
           result == LimitParkRateChangeV2_0(voted, previous)
<1>1. p \in Nat
  BY DEF RateOf, RateTable, NoRate
<1>2. StoredRate(previous, d) = p
  BY <1>1, RateAssumption DEF StoredRate
<1>3. result[d] = LimitRate(voted, previous, d) /\ result[d] \in Nat \cup {NoRate}
  BY DEF LimitParkRateChangeV2_0, RateTable
<1>4. MaxIncrease(d) \in Nat /\ MaxDecrease(d) \in Nat
  BY LimitType
<1> HIDE DEF p, result
<1>5. CASE RateOf(voted, d) > p + MaxIncrease(d)
  <2>1. result[d] = p + MaxIncrease(d)
    BY <1>2, <1>3, <1>5 DEF LimitRate
  <2> QED
    BY <1>1, <1>4, <2>1 DEF RateOf, p, result, NoRate
<1>6. CASE ~(RateOf(voted, d) > p + MaxIncrease(d)) /\ RateOf(voted, d) < p - MaxDecrease(d)
  <2>1. result[d] = p - MaxDecrease(d)
    BY <1>2, <1>3, <1>6 DEF LimitRate
  <2> QED
    BY <1>1, <1>3, <1>4, <2>1 DEF RateOf, p, result, NoRate
<1>7. CASE ~(RateOf(voted, d) > p + MaxIncrease(d)) /\ ~(RateOf(voted, d) < p - MaxDecrease(d))
  <2>1. result[d] = voted[d]
    BY <1>2, <1>3, <1>7 DEF LimitRate
  <2>2. RateOf(result, d) = RateOf(voted, d) /\ RateOf(result, d) \in Nat
    BY <1>3, <2>1 DEF RateOf, NoRate
  <2> QED
    BY <1>1, <1>4, <1>7, <2>2 DEF p, result
<1> QED
  BY <1>5, <1>6, <1>7

\* From version 2.0 on park rates move within the limits, for every window, every
\* duration and every vote.
THEOREM RatesLimited == Spec => []RateChangeLimited
<1> DEFINE IInv == ShapeInv /\ RateChangeLimited
<1>1. Init => IInv
  <2> SUFFICES ASSUME Init PROVE IInv
    OBVIOUS
  <2>1. TypeOK /\ Len(chain) = 1
    BY InitShape
  <2>2. 2 .. Len(chain) = {}
    BY <2>1
  <2> QED
    BY <2>1, <2>2 DEF ShapeInv, RateChangeLimited
<1>2. IInv /\ [Next]_vars => IInv'
  <2> SUFFICES ASSUME IInv, [Next]_vars
               PROVE  RateChangeLimited'
    BY ShapeStep
  <2> DEFINE n == Len(chain)
  <2>1. n \in Nat \ {0} /\ ShapeInv' /\ (Kept \/ \E e : Entered(e) /\ Grown(e))
    BY ShapeStep
  <2>2. CASE Kept
    <3>1. /\ Len(chain') = n
          /\ \A i \in 1 .. n :
                /\ chain'[i].fProofOfStake = chain[i].fProofOfStake
                /\ chain'[i].nProtocolVersion = chain[i].nProtocolVersion
                /\ chain'[i].vParkRateResult = chain[i].vParkRateResult
      BY <2>2 DEF Kept, Reloaded
    <3>2. \A i \in 2 .. n : i \in 1 .. n /\ i - 1 \in 1 .. n
      BY <2>1
    <3> HIDE DEF n
    <3> QED
      BY <3>1, <3>2 DEF RateChangeLimited, IsStake, IsV2, RateWithinLimits, n
  <2>3. ASSUME NEW e, Entered(e), Grown(e)
        PROVE  RateChangeLimited'
    <3>1. /\ Len(chain') = n + 1 /\ chain'[n + 1] = e
          /\ \A i \in 1 .. n : chain'[i] = chain[i]
      BY <2>3 DEF Grown
    <3>2. ASSUME NEW d \in Duration, e.fProofOfStake, e.nProtocolVersion = PROTOCOL_V2_0,
                 RateOf(chain[n].vParkRateResult, d) < UIntRange
          PROVE  /\ RateOf(e.vParkRateResult, d)
                        <= RateOf(chain[n].vParkRateResult, d) + MaxIncrease(d)
                 /\ RateOf(e.vParkRateResult, d)
                        >= RateOf(chain[n].vParkRateResult, d) - MaxDecrease(d)
      <4>1. chain[n].vParkRateResult \in RateTable
        BY <2>1, ElementType, FieldTypes DEF ShapeInv
      <4>2. e.vParkRateResult \in RateTable
        BY <2>3, FieldTypes DEF Entered
      <4>3. PICK voted : e.vParkRateResult
                           = LimitParkRateChangeV2_0(voted, chain[n].vParkRateResult)
        BY <2>3, <3>2 DEF Entered
      <4> QED
        BY <3>2, <4>1, <4>2, <4>3, LimitLimits
    <3>3. \A i \in 2 .. n + 1 : (i \in 2 .. n /\ i \in 1 .. n /\ i - 1 \in 1 .. n)
                                   \/ (i = n + 1 /\ i - 1 = n /\ n \in 1 .. n)
      BY <2>1
    <3> HIDE DEF n
    <3> SUFFICES ASSUME NEW i \in 2 .. n + 1, NEW d \in Duration,
                        chain'[i].fProofOfStake, chain'[i].nProtocolVersion = PROTOCOL_V2_0,
                        RateOf(chain'[i - 1].vParkRateResult, d) < UIntRange
                 PROVE  RateWithinLimits(i, d)'
      BY <3>1 DEF RateChangeLimited, IsStake, IsV2
    <3>4. CASE i \in 2 .. n /\ i \in 1 .. n /\ i - 1 \in 1 .. n
      <4>1. chain'[i] = chain[i] /\ chain'[i - 1] = chain[i - 1]
        BY <3>1, <3>4
      <4>2. RateWithinLimits(i, d)
        BY <3>4, <4>1 DEF RateChangeLimited, IsStake, IsV2, n
      <4> QED
        BY <4>1, <4>2 DEF RateWithinLimits
    <3>5. CASE i = n + 1 /\ i - 1 = n /\ n \in 1 .. n
      <4>1. chain'[i] = e /\ chain'[i - 1] = chain[n]
        BY <3>1, <3>5
      <4> QED
        BY <3>2, <4>1 DEF RateWithinLimits
    <3> QED
      BY <3>3, <3>4, <3>5
  <2> QED
    BY <2>1, <2>2, <2>3
<1> QED
  BY <1>1, <1>2, PTL DEF Spec

--------------------------------------------------------------------------------

\* The vote on version 2.0 passes at a place of a chain.
PassesAt(c, j) ==
    /\ c[j].nTime >= PROTOCOL_V2_0_VOTE_TIME
    /\ VersionVotes(SubSeq(c, 1, j)) >= PROTOCOL_SWITCH_REQUIRE_VOTES

\* The vote at a place depends on the times and the votes up to that place.
LEMMA PassesByPrefix ==
  ASSUME NEW c \in Seq(IndexType), NEW d \in Seq(IndexType), NEW j \in Nat \ {0},
         j <= Len(c), j <= Len(d),
         \A k \in 1 .. j : c[k].nTime = d[k].nTime /\ c[k].nVersionVote = d[k].nVersionVote
  PROVE  PassesAt(c, j) = PassesAt(d, j)
<1> DEFINE For(s) == {i \in DOMAIN s : /\ i > Len(s) - PROTOCOL_SWITCH_COUNT_VOTES
                                       /\ s[i].nVersionVote >= PROTOCOL_V2_0}
<1>1. ASSUME NEW s \in Seq(IndexType), j <= Len(s)
      PROVE  /\ Len(SubSeq(s, 1, j)) = j /\ DOMAIN SubSeq(s, 1, j) = 1 .. j
             /\ \A k \in 1 .. j : SubSeq(s, 1, j)[k] = s[k]
  <2>1. \A k \in 1 .. j : s[k] \in IndexType
    BY <1>1, ElementOfSeq, LenProperties
  <2>2. /\ SubSeq(s, 1, j) \in Seq(IndexType)
        /\ Len(SubSeq(s, 1, j)) = IF 1 <= j THEN j - 1 + 1 ELSE 0
        /\ \A k \in 1 .. j - 1 + 1 : SubSeq(s, 1, j)[k] = s[1 + k - 1]
    BY <2>1, SubSeqProperties
  <2>3. Len(SubSeq(s, 1, j)) = j /\ DOMAIN SubSeq(s, 1, j) = 1 .. j
    BY <2>2, LenProperties
  <2>4. \A k \in 1 .. j : k \in 1 .. j - 1 + 1 /\ 1 + k - 1 = k
    OBVIOUS
  <2> QED
    BY <2>2, <2>3, <2>4
<1>2. For(SubSeq(c, 1, j)) = For(SubSeq(d, 1, j))
  BY <1>1
<1>3. VersionVotes(SubSeq(c, 1, j)) = VersionVotes(SubSeq(d, 1, j))
  BY <1>2 DEF VersionVotes
<1>4. c[j].nTime = d[j].nTime
  OBVIOUS
<1> QED
  BY <1>3, <1>4 DEF PassesAt

\* The version of the next block is decided by the last block and by the vote at it.
LEMMA NextVersion ==
  ASSUME ShapeInv
  PROVE  (GetProtocolForNextBlock(chain) = PROTOCOL_V2_0)
            <=> (IsV2(Len(chain)) \/ PassesAt(chain, Len(chain)))
<1>1. Len(chain) \in Nat \ {0} /\ chain[Len(chain)] \in IndexType /\ chain # <<>>
  BY ElementType, EmptySeq DEF ShapeInv
<1>2. SubSeq(chain, 1, Len(chain)) = chain
  BY SubSeqFull DEF ShapeInv, TypeOK
<1>3. chain[Len(chain)].nProtocolVersion \in {PROTOCOL_V0_5, PROTOCOL_V2_0}
  BY <1>1, FieldTypes
<1>4. (chain[Len(chain)].nProtocolVersion >= PROTOCOL_V2_0) <=> IsV2(Len(chain))
  BY <1>3 DEF IsV2, PROTOCOL_V0_5, PROTOCOL_V2_0
<1>5. IsNuProtocolV20NextBlock(chain) <=> (IsV2(Len(chain)) \/ PassesAt(chain, Len(chain)))
  BY <1>1, <1>2, <1>4 DEF IsNuProtocolV20NextBlock, PassesAt
<1>6. PROTOCOL_V0_5 # PROTOCOL_V2_0
  BY DEF PROTOCOL_V0_5, PROTOCOL_V2_0
<1> QED
  BY <1>5, <1>6 DEF GetProtocolForNextBlock

\* The protocol version is decided by the votes and never taken back, for every window
\* and every order of the timestamps.
THEOREM ProtocolDecided == Spec => []ProtocolByVote
<1> DEFINE Decided == \A i \in 1 .. Len(chain) :
                          IsV2(i) <=> \E j \in 1 .. i - 1 : PassesAt(chain, j)
           IInv == ShapeInv /\ Decided
<1>1. Init => IInv
  <2> SUFFICES ASSUME Init PROVE IInv
    OBVIOUS
  <2>1. TypeOK /\ Len(chain) = 1 /\ chain[1].nProtocolVersion = PROTOCOL_V0_5
    BY InitShape DEF WorkIndex
  <2>2. ~IsV2(1)
    BY <2>1 DEF IsV2, PROTOCOL_V0_5, PROTOCOL_V2_0
  <2>3. \A i \in 1 .. Len(chain) : i = 1 /\ 1 .. i - 1 = {}
    BY <2>1
  <2> QED
    BY <2>1, <2>2, <2>3 DEF ShapeInv
<1>2. IInv /\ [Next]_vars => IInv'
  <2> SUFFICES ASSUME IInv, [Next]_vars
               PROVE  Decided'
    BY ShapeStep
  <2> DEFINE n == Len(chain)
  <2>1. /\ n \in Nat \ {0} /\ ShapeInv' /\ (Kept \/ \E e : Entered(e) /\ Grown(e))
        /\ chain \in Seq(IndexType) /\ chain' \in Seq(IndexType)
    BY ShapeStep DEF ShapeInv, TypeOK
  <2>2. CASE Kept
    <3>1. /\ Len(chain') = n
          /\ \A i \in 1 .. n : /\ chain'[i].nTime = chain[i].nTime
                               /\ chain'[i].nVersionVote = chain[i].nVersionVote
                               /\ chain'[i].nProtocolVersion = chain[i].nProtocolVersion
      BY <2>2 DEF Kept, Reloaded
    <3>2. \A j \in 1 .. n : PassesAt(chain', j) = PassesAt(chain, j)
      <4> TAKE j \in 1 .. n
      <4>1. j \in Nat \ {0} /\ j <= Len(chain) /\ j <= Len(chain')
        BY <2>1, <3>1
      <4>2. \A k \in 1 .. j : k \in 1 .. n
        BY <2>1
      <4> HIDE DEF n
      <4> QED
        BY <2>1, <3>1, <4>1, <4>2, PassesByPrefix
    <3>3. \A i \in 1 .. n : \A j \in 1 .. i - 1 : j \in 1 .. n
      BY <2>1
    <3> HIDE DEF n
    <3> QED
      BY <3>1, <3>2, <3>3 DEF IsV2, n
  <2>3. ASSUME NEW e, Entered(e), Grown(e)
        PROVE  Decided'
    <3>1. /\ Len(chain') = n + 1 /\ chain'[n + 1] = e
          /\ \A i \in 1 .. n : chain'[i] = chain[i]
      BY <2>3 DEF Grown
    <3>2. \A j \in 1 .. n : PassesAt(chain', j) = PassesAt(chain, j)
      <4> TAKE j \in 1 .. n
      <4>1. j \in Nat \ {0} /\ j <= Len(chain) /\ j <= Len(chain')
        BY <2>1, <3>1
      <4>2. \A k \in 1 .. j : k \in 1 .. n
        BY <2>1
      <4> HIDE DEF n
      <4> QED
        BY <2>1, <3>1, <4>1, <4>2, PassesByPrefix
    <3>3. \A i \in 1 .. n : \A j \in 1 .. i - 1 : j \in 1 .. n
      BY <2>1
    <3>4. IsV2(n) <=> \E j \in 1 .. n - 1 : PassesAt(chain, j)
      BY <2>1
    <3>5. (e.nProtocolVersion = PROTOCOL_V2_0) <=> (IsV2(n) \/ PassesAt(chain, n))
      BY <2>3, NextVersion DEF Entered
    <3>6. /\ \A j \in 1 .. (n + 1) - 1 : j \in 1 .. n - 1 \/ j = n
          /\ n \in 1 .. (n + 1) - 1 /\ \A j \in 1 .. n - 1 : j \in 1 .. (n + 1) - 1
          /\ n \in 1 .. n /\ \A j \in 1 .. n - 1 : j \in 1 .. n
          /\ \A i \in 1 .. n + 1 : i \in 1 .. n \/ i = n + 1
      BY <2>1
    <3>7. (chain'[n + 1].nProtocolVersion = PROTOCOL_V2_0)
            <=> \E j \in 1 .. (n + 1) - 1 : PassesAt(chain', j)
      <4>1. chain'[n + 1] = e
        BY <3>1
      <4> HIDE DEF n
      <4> QED
        BY <3>2, <3>4, <3>5, <3>6, <4>1
    <3>8. \A i \in 1 .. n : IsV2(i)' <=> \E j \in 1 .. i - 1 : PassesAt(chain', j)
      <4> HIDE DEF n
      <4> QED
        BY <3>1, <3>2, <3>3 DEF IsV2, n
    <3> HIDE DEF n
    <3> QED
      BY <3>1, <3>6, <3>7, <3>8 DEF IsV2
  <2> QED
    BY <2>1, <2>2, <2>3
<1>3. IInv => ProtocolByVote
  <2> SUFFICES ASSUME IInv PROVE ProtocolByVote
    OBVIOUS
  <2>1. DOMAIN chain = 1 .. Len(chain)
    BY ElementType DEF ShapeInv
  <2> QED
    BY <2>1 DEF ProtocolByVote, PassesAt
<1> QED
  BY <1>1, <1>2, <1>3, PTL DEF Spec

--------------------------------------------------------------------------------

\* The rates of the blocks that limit a rate before version 2.0, the last block first.
PreviousResults ==
    Reverse([i \in 1 .. Len(LastOf(chain, PARK_RATE_PREVIOUS_VOTES)) |->
                LastOf(chain, PARK_RATE_PREVIOUS_VOTES)[i].vParkRateResult])

\* The block at place j is the (n + 1 - j)-th of them.
LEMMA PreviousAt ==
  ASSUME ShapeInv, NEW j \in 1 .. Len(chain),
         j >= Len(chain) + 1 - PARK_RATE_PREVIOUS_VOTES
  PROVE  /\ Len(chain) + 1 - j \in DOMAIN PreviousResults
         /\ PreviousResults[Len(chain) + 1 - j] = chain[j].vParkRateResult
<1> DEFINE n == Len(chain)
           P == PARK_RATE_PREVIOUS_VOTES
           f == IF n > P THEN n - P + 1 ELSE 1
           last == LastOf(chain, P)
           m == n - f + 1
<1>1. n \in Nat \ {0} /\ P \in Nat \ {0} /\ chain \in Seq(IndexType)
  BY ElementType, VoteAssumption DEF ShapeInv, TypeOK
<1>2. f \in 1 .. n /\ m \in 1 .. n
  BY <1>1
<1>3. last = SubSeq(chain, f, n)
  BY DEF LastOf
<1>4. \A k \in f .. n : chain[k] \in IndexType
  BY <1>1, <1>2, ElementOfSeq
<1> HIDE DEF f
<1>5. /\ Len(last) = m
      /\ \A k \in 1 .. m : last[k] = chain[f + k - 1]
  <2>1. f <= n
    BY <1>1, <1>2
  <2>2. f \in Int /\ n \in Int
    BY <1>1, <1>2
  <2>3. /\ Len(SubSeq(chain, f, n)) = IF f <= n THEN n - f + 1 ELSE 0
        /\ \A k \in 1 .. n - f + 1 : SubSeq(chain, f, n)[k] = chain[f + k - 1]
    BY <1>4, <2>2, SubSeqProperties
  <2> QED
    BY <1>3, <2>1, <2>3
<1> DEFINE rates == [k \in 1 .. Len(last) |-> last[k].vParkRateResult]
<1>6. rates \in Seq({last[k].vParkRateResult : k \in 1 .. m}) /\ Len(rates) = m
  <2> HIDE DEF last, m
  <2>1. rates = [k \in 1 .. m |-> last[k].vParkRateResult]
    BY <1>5
  <2>2. m \in Nat
    BY <1>1, <1>2
  <2> QED
    BY <2>1, <2>2
<1>7. PreviousResults = [k \in 1 .. m |-> rates[(m - k) + 1]]
  BY <1>6 DEF PreviousResults, Reverse
<1> DEFINE k == n + 1 - j
<1>8. k \in 1 .. m /\ (m - k) + 1 \in 1 .. m /\ f + ((m - k) + 1) - 1 = j
  <2>1. j >= f
    BY <1>1 DEF f
  <2>2. j \in 1 .. n /\ f \in 1 .. n /\ n \in Nat
    BY <1>1, <1>2
  <2> HIDE DEF n
  <2> QED
    BY <2>1, <2>2
<1>9. rates[(m - k) + 1] = chain[j].vParkRateResult
  <2>1. rates[(m - k) + 1] = last[(m - k) + 1].vParkRateResult
    BY <1>5, <1>8
  <2>2. last[(m - k) + 1] = chain[j]
    BY <1>5, <1>8
  <2> QED
    BY <2>1, <2>2
<1> HIDE DEF rates, m
<1> QED
  BY <1>7, <1>8, <1>9

\* The results of earlier blocks are tables.
LEMMA PreviousType ==
  ASSUME ShapeInv
  PROVE  /\ DOMAIN PreviousResults \subseteq Nat
         /\ \A k \in DOMAIN PreviousResults : PreviousResults[k] \in RateTable
<1> DEFINE n == Len(chain)
           P == PARK_RATE_PREVIOUS_VOTES
           f == IF n > P THEN n - P + 1 ELSE 1
           last == LastOf(chain, P)
<1>1. n \in Nat \ {0} /\ P \in Nat \ {0} /\ chain \in Seq(IndexType)
  BY ElementType, VoteAssumption DEF ShapeInv, TypeOK
<1>2. f \in 1 .. n
  BY <1>1
<1>3. last = SubSeq(chain, f, n)
  BY DEF LastOf
<1>4. \A k \in f .. n : chain[k] \in IndexType
  BY <1>1, <1>2, ElementOfSeq
<1> HIDE DEF f
<1>5. last \in Seq(IndexType)
  BY <1>1, <1>2, <1>3, <1>4, SubSeqProperties
<1>6. Len(last) \in Nat /\ \A k \in 1 .. Len(last) : last[k].vParkRateResult \in RateTable
  BY <1>5, LenProperties, ElementOfSeq, FieldTypes
<1> HIDE DEF last
<1> DEFINE rates == [k \in 1 .. Len(last) |-> last[k].vParkRateResult]
<1>7. rates \in Seq(RateTable) /\ Len(rates) = Len(last)
  BY <1>6
<1>8. \A k \in 1 .. Len(last) : (Len(last) - k) + 1 \in 1 .. Len(last)
  BY <1>6
<1>9. PreviousResults = [k \in 1 .. Len(last) |-> rates[(Len(last) - k) + 1]]
  BY <1>7 DEF PreviousResults, Reverse, last
<1> HIDE DEF rates
<1>10. \A k \in 1 .. Len(last) : rates[k] \in RateTable
  BY <1>7, ElementOfSeq
<1> QED
  BY <1>6, <1>8, <1>9, <1>10

\* PreviousMin is at most any of the rates that fits in an unsigned int.
LEMMA PreviousMinLeast ==
  ASSUME NEW vPrevious, NEW d \in Duration, DOMAIN vPrevious \subseteq Nat,
         \A k \in DOMAIN vPrevious : vPrevious[k] \in RateTable,
         NEW k \in DOMAIN vPrevious, vPrevious[k][d] \in 0 .. UIntRange - 1
  PROVE  PreviousMin(vPrevious, d) \in Nat /\ PreviousMin(vPrevious, d) <= vPrevious[k][d]
<1> DEFINE named == NamedPlaces(vPrevious, d)
           first == Min(named)
           rates == {vPrevious[first][d] % UIntRange} \cup
                    {vPrevious[i][d] : i \in named \ {first}}
<1>1. UIntRange \in Nat \ {0}
  BY RateAssumption
<1>2. k \in named /\ named \in SUBSET Nat
  BY <1>1 DEF NamedPlaces, NoRate
<1>3. \A i \in named : vPrevious[i][d] \in Nat
  BY DEF NamedPlaces, RateTable
<1>4. first \in named
  <2> HIDE DEF named
  <2>1. PICK x \in named : \A y \in named : x <= y
    BY <1>2, LeastNat
  <2> QED
    BY <2>1 DEF Min
<1>5. PreviousMin(vPrevious, d) = Min(rates)
  BY <1>2 DEF PreviousMin
<1> HIDE DEF named, first
<1>6. vPrevious[k][d] % UIntRange = vPrevious[k][d]
  BY <1>1
<1>7. vPrevious[first][d] % UIntRange \in Nat
  BY <1>1, <1>3, <1>4
<1>8. rates \in SUBSET Nat
  BY <1>3, <1>7
<1>9. vPrevious[k][d] \in rates
  BY <1>2, <1>6
<1> HIDE DEF rates
<1>10. PICK x \in rates : \A y \in rates : x <= y
  BY <1>8, <1>9, LeastNat
<1>11. Min(rates) \in rates /\ \A y \in rates : Min(rates) <= y
  BY <1>10 DEF Min
<1> QED
  BY <1>5, <1>8, <1>9, <1>11

\* The limit before version 2.0 is a number.
LEMMA LimitTypeV0_5 ==
  ASSUME NEW d \in Duration
  PROVE  MaxIncreaseV0_5(d) \in Nat
<1> DEFINE blocks == CompactDurationToDuration(d)
<1>1. blocks \in Nat /\ RateEncodedPercentage \in Nat
  BY ShiftAssumption, RateAssumption
<1>2. MaxIncreaseV0_5(d) = (RateEncodedPercentage * blocks) \div BlocksInYear
  BY DEF MaxIncreaseV0_5
<1> HIDE DEF blocks
<1>3. RateEncodedPercentage * blocks \in Nat
  BY <1>1
<1> QED
  BY <1>2, <1>3, RateAssumption

\* A rate that is entered before version 2.0 exceeds none of the previous ones by more
\* than the limit.
LEMMA EnteredIncrease ==
  ASSUME ShapeInv, NEW e, Entered(e), e.fProofOfStake, e.nProtocolVersion # PROTOCOL_V2_0,
         NEW d \in Duration, NEW j \in 1 .. Len(chain),
         j >= Len(chain) + 1 - PARK_RATE_PREVIOUS_VOTES,
         chain[j].vParkRateResult[d] \in 0 .. UIntRange - 1
  PROVE  e.vParkRateResult[d] <= chain[j].vParkRateResult[d] + MaxIncreaseV0_5(d)
<1>1. PICK b \in BlockInput : e = StakeIndex(b)
  BY DEF Entered
<1> DEFINE n == GetProtocolForNextBlock(chain)
           voted == CalculateParkRateVote(ParkVotes(chain, ExtractVote(b, n)))
           result == e.vParkRateResult
           limit == PreviousMin(PreviousResults, d) + MaxIncreaseV0_5(d)
           rate == chain[j].vParkRateResult[d]
<1>2. e.nProtocolVersion = n /\ n = PROTOCOL_V0_5
  BY VersionType DEF Entered
<1>3. result = CalculateParkRateResults(chain, ExtractVote(b, n), n)
  BY <1>1 DEF StakeIndex
<1>4. result = LimitParkRateChangeV0_5(voted, PreviousResults)
  BY <1>2, <1>3 DEF CalculateParkRateResults, PreviousResults, PROTOCOL_V0_5, PROTOCOL_V2_0
<1>5. result[d] \in Nat \cup {NoRate}
  BY FieldTypes DEF Entered, RateTable
<1> HIDE DEF voted
<1>6. result[d] = IF voted[d] > limit THEN limit ELSE voted[d]
  BY <1>4 DEF LimitParkRateChangeV0_5
<1>7. /\ PreviousMin(PreviousResults, d) \in Nat
      /\ PreviousMin(PreviousResults, d) <= rate
  <2>1. /\ Len(chain) + 1 - j \in DOMAIN PreviousResults
        /\ PreviousResults[Len(chain) + 1 - j] = chain[j].vParkRateResult
    BY PreviousAt
  <2> QED
    BY <2>1, PreviousType, PreviousMinLeast
<1>8. MaxIncreaseV0_5(d) \in Nat /\ rate \in Nat
  BY LimitTypeV0_5, RateAssumption
<1> HIDE DEF result, rate
<1>9. limit \in Nat /\ limit <= rate + MaxIncreaseV0_5(d)
  BY <1>7, <1>8
<1> HIDE DEF limit
<1>10. result[d] <= limit
  BY <1>5, <1>6, <1>9 DEF NoRate
<1> QED
  BY <1>5, <1>8, <1>9, <1>10 DEF NoRate, result, rate

\* Before version 2.0 park rates rise within the limit, for every window, every duration
\* and every vote.
THEOREM RatesRiseSlowly == Spec => []RateIncreaseLimited
<1> DEFINE IInv == ShapeInv /\ RateIncreaseLimited
<1>1. Init => IInv
  <2> SUFFICES ASSUME Init PROVE IInv
    OBVIOUS
  <2>1. TypeOK /\ Len(chain) = 1
    BY InitShape
  <2>2. 2 .. Len(chain) = {}
    BY <2>1
  <2> QED
    BY <2>1, <2>2 DEF ShapeInv, RateIncreaseLimited
<1>2. IInv /\ [Next]_vars => IInv'
  <2> SUFFICES ASSUME IInv, [Next]_vars
               PROVE  RateIncreaseLimited'
    BY ShapeStep
  <2> DEFINE n == Len(chain)
  <2>1. n \in Nat \ {0} /\ ShapeInv' /\ (Kept \/ \E e : Entered(e) /\ Grown(e))
    BY ShapeStep
  <2>2. CASE Kept
    <3>1. /\ Len(chain') = n
          /\ \A i \in 1 .. n :
                /\ chain'[i].fProofOfStake = chain[i].fProofOfStake
                /\ chain'[i].nProtocolVersion = chain[i].nProtocolVersion
                /\ chain'[i].vParkRateResult = chain[i].vParkRateResult
      BY <2>2 DEF Kept, Reloaded
    <3>2. \A i \in 2 .. n : i \in 1 .. n /\ \A j \in 1 .. i - 1 : j \in 1 .. n
      BY <2>1
    <3> HIDE DEF n
    <3> QED
      BY <3>1, <3>2 DEF RateIncreaseLimited, IsStake, IsV2, n
  <2>3. ASSUME NEW e, Entered(e), Grown(e)
        PROVE  RateIncreaseLimited'
    <3>1. /\ Len(chain') = n + 1 /\ chain'[n + 1] = e
          /\ \A i \in 1 .. n : chain'[i] = chain[i]
      BY <2>3 DEF Grown
    <3> SUFFICES ASSUME NEW i \in 2 .. n + 1, NEW d \in Duration, NEW j \in 1 .. i - 1,
                        chain'[i].fProofOfStake, chain'[i].nProtocolVersion # PROTOCOL_V2_0,
                        j >= i - PARK_RATE_PREVIOUS_VOTES,
                        chain'[j].vParkRateResult[d] \in 0 .. UIntRange - 1
                 PROVE  chain'[i].vParkRateResult[d]
                           <= chain'[j].vParkRateResult[d] + MaxIncreaseV0_5(d)
      BY <3>1 DEF RateIncreaseLimited, IsStake, IsV2
    <3>2. j \in 1 .. n /\ chain'[j] = chain[j]
      BY <2>1, <3>1
    <3>3. CASE i \in 2 .. n
      <4>1. chain'[i] = chain[i]
        BY <2>1, <3>1, <3>3
      <4> QED
        BY <3>2, <3>3, <4>1 DEF RateIncreaseLimited, IsStake, IsV2
    <3>4. CASE i = n + 1
      <4>1. chain'[i] = e
        BY <3>1, <3>4
      <4>2. j >= Len(chain) + 1 - PARK_RATE_PREVIOUS_VOTES
        BY <2>1, <3>2, <3>4, VoteAssumption
      <4>4. chain[j].vParkRateResult[d] \in 0 .. UIntRange - 1
        BY <3>2
      <4>5. e.fProofOfStake
        BY <4>1
      <4>6. e.nProtocolVersion # PROTOCOL_V2_0
        BY <4>1
      <4>3. e.vParkRateResult[d] <= chain[j].vParkRateResult[d] + MaxIncreaseV0_5(d)
        BY <2>3, <3>2, <4>2, <4>4, <4>5, <4>6, EnteredIncrease
      <4> QED
        BY <3>2, <4>1, <4>3
    <3> QED
      BY <2>1, <3>3, <3>4
  <2> QED
    BY <2>1, <2>2, <2>3
<1> QED
  BY <1>1, <1>2, PTL DEF Spec

--------------------------------------------------------------------------------

\* A prefix of a chain.
LEMMA PrefixProperties ==
  ASSUME NEW c \in Seq(IndexType), NEW j \in Nat, j <= Len(c)
  PROVE  /\ SubSeq(c, 1, j) \in Seq(IndexType)
         /\ Len(SubSeq(c, 1, j)) = j /\ DOMAIN SubSeq(c, 1, j) = 1 .. j
         /\ \A k \in 1 .. j : SubSeq(c, 1, j)[k] = c[k]
<1>1. \A k \in 1 .. j : c[k] \in IndexType
  BY ElementOfSeq, LenProperties
<1>2. /\ SubSeq(c, 1, j) \in Seq(IndexType)
      /\ Len(SubSeq(c, 1, j)) = IF 1 <= j THEN j - 1 + 1 ELSE 0
      /\ \A k \in 1 .. j - 1 + 1 : SubSeq(c, 1, j)[k] = c[1 + k - 1]
  BY <1>1, SubSeqProperties
<1>3. Len(SubSeq(c, 1, j)) = j /\ DOMAIN SubSeq(c, 1, j) = 1 .. j
  BY <1>2, LenProperties
<1>4. \A k \in 1 .. j : k \in 1 .. j - 1 + 1 /\ 1 + k - 1 = k
  OBVIOUS
<1> QED
  BY <1>2, <1>3, <1>4

\* Proof-of-work blocks come first and decide no fee.
KindInv ==
    \A i \in 1 .. Len(chain) :
        /\ IsStake(i) => i > PROOF_OF_WORK_BLOCKS + 1
        /\ ~IsStake(i) => chain[i].nVotedFee = NoFee /\ chain[i].nFeeVote = NoFee

LEMMA KindInductive == Spec => [](ShapeInv /\ KindInv)
<1>1. Init => ShapeInv /\ KindInv
  <2> SUFFICES ASSUME Init PROVE ShapeInv /\ KindInv
    OBVIOUS
  <2>1. /\ TypeOK /\ Len(chain) = 1 /\ chain[1].fProofOfStake = FALSE
        /\ chain[1].nVotedFee = NoFee /\ chain[1].nFeeVote = NoFee
    BY InitShape DEF WorkIndex
  <2> QED
    BY <2>1 DEF ShapeInv, KindInv, IsStake
<1>2. ShapeInv /\ KindInv /\ [Next]_vars => (ShapeInv /\ KindInv)'
  <2> SUFFICES ASSUME ShapeInv, KindInv, [Next]_vars
               PROVE  KindInv'
    BY ShapeStep
  <2> DEFINE n == Len(chain)
  <2>1. n \in Nat \ {0} /\ ShapeInv' /\ (Kept \/ \E e : Entered(e) /\ Grown(e))
    BY ShapeStep
  <2>2. CASE Kept
    <3>1. /\ Len(chain') = n
          /\ \A i \in 1 .. n :
                /\ chain'[i].fProofOfStake = chain[i].fProofOfStake
                /\ chain'[i].nVotedFee \in {chain[i].nVotedFee, NoFee}
                /\ chain'[i].nFeeVote = chain[i].nFeeVote
      BY <2>2 DEF Kept, Reloaded
    <3> QED
      BY <3>1 DEF KindInv, IsStake
  <2>3. ASSUME NEW e, Entered(e), Grown(e)
        PROVE  KindInv'
    <3>1. /\ Len(chain') = n + 1 /\ chain'[n + 1] = e
          /\ \A i \in 1 .. n : chain'[i] = chain[i]
      BY <2>3 DEF Grown
    <3>2. /\ ~e.fProofOfStake => e.nVotedFee = NoFee /\ e.nFeeVote = NoFee
          /\ e.fProofOfStake => n + 1 > PROOF_OF_WORK_BLOCKS + 1
      BY <2>1, <2>3, VoteAssumption DEF Entered
    <3>3. \A i \in 1 .. n + 1 : i \in 1 .. n \/ i = n + 1
      BY <2>1
    <3> HIDE DEF n
    <3> QED
      BY <3>1, <3>2, <3>3 DEF KindInv, IsStake, n
  <2> QED
    BY <2>1, <2>2, <2>3
<1> QED
  BY <1>1, <1>2, PTL DEF Spec

\* A fee in force is a number.
LEMMA MinFeeType ==
  ASSUME ShapeInv
  PROVE  \A k \in 1 .. Len(chain) : GetVotedMinFee(chain[k]) \in Nat
<1>1. \A k \in 1 .. Len(chain) : chain[k].nVotedFee \in Nat \cup {NoFee}
  BY ElementType, FieldTypes DEF ShapeInv
<1> QED
  BY <1>1, VoteAssumption DEF GetVotedMinFee, NoFee

\* The safe fee is at least the voted fee of each of its blocks.
LEMMA SafeFeeCovers ==
  ASSUME ShapeInv, NEW i \in 1 .. Len(chain), NEW k \in SafeFeePlaces(i)
  PROVE  GetVotedMinFee(chain[k]) <= GetSafeMinFee(i)
<1> DEFINE places == SafeFeePlaces(i)
           fees == {GetVotedMinFee(chain[m]) : m \in places}
           all == {0} \cup fees
<1>1. i \in Nat /\ Len(chain) \in Nat
  BY ElementType DEF ShapeInv
<1>2. places \subseteq 1 .. i /\ IsFiniteSet(places)
  <2>1. IsFiniteSet(1 .. i)
    BY <1>1, FS_Interval
  <2>2. places \subseteq 1 .. i
    BY DEF SafeFeePlaces
  <2> QED
    BY <2>1, <2>2, FS_Subset
<1>3. fees \in SUBSET Nat
  <2>1. \A m \in places : m \in 1 .. Len(chain)
    BY <1>1, <1>2
  <2> QED
    BY <2>1, MinFeeType
<1>4. IsFiniteSet(fees)
  <2> DEFINE f == [m \in places |-> GetVotedMinFee(chain[m])]
  <2> HIDE DEF places
  <2>1. f \in Surjection(places, fees)
    BY DEF Surjection
  <2> HIDE DEF f
  <2> QED
    BY <1>2, <2>1, FS_Surjection
<1>5. GetVotedMinFee(chain[k]) \in fees
  OBVIOUS
<1>6. IsFiniteSet(all)
  <2>1. IsFiniteSet({0})
    BY FS_Singleton
  <2> QED
    BY <1>4, <2>1, FS_Union
<1>7. all \in SUBSET Nat /\ all # {}
  BY <1>3
<1>8. GetSafeMinFee(i) = Max(all)
  BY DEF GetSafeMinFee
<1>9. GetVotedMinFee(chain[k]) \in all
  BY <1>5
<1> HIDE DEF all
<1>10. PICK x \in all : \A y \in all : y <= x
  BY <1>6, <1>7, GreatestNat
<1>11. \A y \in all : x >= y
  BY <1>7, <1>10
<1>12. Max(all) \in all /\ \A y \in all : Max(all) >= y
  BY <1>11 DEF Max
<1> QED
  BY <1>7, <1>8, <1>9, <1>12

\* The block in force for one of the next SAFE_FEE_BLOCKS blocks is one of those that
\* the safe fee covers, or the genesis block.
LEMMA SafeFeeReach ==
  ASSUME NEW i \in Nat, i >= 2, NEW k \in i .. i + SAFE_FEE_BLOCKS - 1
  PROVE  \/ GetEffectiveFeeIndex(k + 1) \in SafeFeePlaces(i)
         \/ GetEffectiveFeeIndex(k + 1) = 1 /\ 2 \in SafeFeePlaces(i)
<1> DEFINE D == FEE_VOTE_DELAY_BLOCKS
           F == SAFE_FEE_BLOCKS
<1>1. D \in Nat /\ F \in 0 .. D
  BY VoteAssumption
<1> HIDE DEF D, F
<1>2. k \in i .. i + F - 1
  BY DEF F
<1>3. CASE k <= D
  <2>1. (IF k + 1 > D THEN (k + 1) - D ELSE 1) = 1
    BY <1>1, <1>2, <1>3
  <2>2. (IF i > D THEN i - D ELSE 1) = 1
    BY <1>1, <1>2, <1>3
  <2>3. 2 \in 1 .. i /\ 2 > 1 /\ 2 <= 1 + F
    BY <1>1, <1>2
  <2> QED
    BY <2>1, <2>2, <2>3 DEF GetEffectiveFeeIndex, SafeFeePlaces, D, F
<1>4. CASE k > D
  <2> DEFINE m == (k + 1) - D
             s == IF i > D THEN i - D ELSE 1
  <2>1. (IF k + 1 > D THEN (k + 1) - D ELSE 1) = m
    BY <1>1, <1>2, <1>4
  <2>2. m \in 1 .. i /\ m > s /\ m <= s + F
    BY <1>1, <1>2, <1>4
  <2> QED
    BY <2>1, <2>2 DEF GetEffectiveFeeIndex, SafeFeePlaces, D, F
<1> QED
  BY <1>1, <1>2, <1>3, <1>4

\* The safe fee suffices in each of the next SAFE_FEE_BLOCKS blocks, for every delay of
\* at least that many blocks, every vote and every reloading of indices.
THEOREM SafeFeeIsSafe == Spec => []SafeFeeSuffices
<1>1. ShapeInv /\ KindInv => SafeFeeSuffices
  <2> SUFFICES ASSUME ShapeInv, KindInv,
                      NEW i \in 2 .. Len(chain), NEW k \in i .. i + SAFE_FEE_BLOCKS - 1,
                      k <= Len(chain)
               PROVE  GetUnitMinFeeFromPrevBlock(k) <= GetSafeMinFee(i)
    BY DEF SafeFeeSuffices
  <2>1. Len(chain) \in Nat /\ i \in Nat /\ i >= 2 /\ i \in 1 .. Len(chain)
    BY ElementType DEF ShapeInv
  <2>2. CASE GetEffectiveFeeIndex(k + 1) \in SafeFeePlaces(i)
    BY <2>1, <2>2, SafeFeeCovers DEF GetUnitMinFeeFromPrevBlock
  <2>3. CASE GetEffectiveFeeIndex(k + 1) = 1 /\ 2 \in SafeFeePlaces(i)
    <3>1. 1 \in 1 .. Len(chain) /\ 2 \in 1 .. Len(chain)
      BY <2>1
    <3>2. ~(1 > PROOF_OF_WORK_BLOCKS + 1) /\ ~(2 > PROOF_OF_WORK_BLOCKS + 1)
      BY VoteAssumption
    <3>3. chain[1].nVotedFee = NoFee /\ chain[2].nVotedFee = NoFee
      BY <3>1, <3>2 DEF KindInv
    <3>4. GetVotedMinFee(chain[1]) = GetVotedMinFee(chain[2])
      BY <3>3 DEF GetVotedMinFee
    <3> QED
      BY <2>1, <2>3, <3>4, SafeFeeCovers DEF GetUnitMinFeeFromPrevBlock
  <2> QED
    BY <2>1, <2>2, <2>3, SafeFeeReach
<1> QED
  BY <1>1, KindInductive, PTL

--------------------------------------------------------------------------------

\* The votes on the fee depend on nothing else of a chain.
LEMMA FeeVotesEqual ==
  ASSUME NEW c, NEW d, Len(c) \in Nat, Len(d) = Len(c),
         \A k \in 1 .. Len(c) : c[k].nFeeVote = d[k].nFeeVote
  PROVE  FeeVotes(c) = FeeVotes(d)
<1>1. \A i \in 1 .. FEE_VOTES : i <= Len(c) => Len(c) - i + 1 \in 1 .. Len(c)
  BY VoteAssumption
<1>2. \A i \in 1 .. FEE_VOTES :
         i <= Len(c) => FeeVote(c[Len(c) - i + 1]) = FeeVote(d[Len(c) - i + 1])
  BY <1>1 DEF FeeVote
<1>3. \A i \in 1 .. FEE_VOTES : FeeVotes(c)[i] = FeeVotes(d)[i]
  BY <1>2 DEF FeeVotes
<1> QED
  BY <1>3 DEF FeeVotes

\* The voted fee is a median when the number of votes is even: the votes below it are
\* those up to the greatest of them, which does not have half of the votes.
LEMMA VotedFeeMedian ==
  ASSUME FEE_VOTES % 2 = 0, NEW c, HasFeeVotes(c)
  PROVE  LET votes == FeeVotes(c)
             fee == CalculateVotedFees(c)
         IN  /\ 2 * VotesUpTo(votes, fee) >= FEE_VOTES
             /\ 2 * Cardinality({k \in DOMAIN votes : votes[k] >= fee}) >= FEE_VOTES
<1> DEFINE votes == FeeVotes(c)
           fee == CalculateVotedFees(c)
           half == FEE_VOTES \div 2
           D == 1 .. FEE_VOTES
           Up(f) == {k \in D : votes[k] <= f}
           Less == {k \in D : votes[k] < fee}
           More == {k \in D : votes[k] >= fee}
<1>1. votes \in [D -> Nat] /\ FEE_VOTES \in Nat \ {0} /\ 2 * half = FEE_VOTES /\ half \in Nat
  BY FeeVotesType, VoteAssumption
<1>2. /\ fee \in Nat /\ VotesUpTo(votes, fee) >= half
      /\ \A f \in Range(votes) : VotesUpTo(votes, f) >= half => fee <= f
  BY VotedFee
<1>3. \A f : VotesUpTo(votes, f) = Cardinality(Up(f))
  BY <1>1 DEF VotesUpTo
<1> HIDE DEF votes, fee, half
<1>4. IsFiniteSet(D) /\ Cardinality(D) = FEE_VOTES
  BY <1>1, FS_Interval
<1>5. \A S \in SUBSET D : IsFiniteSet(S) /\ Cardinality(S) \in Nat
  BY <1>4, FS_Subset, FS_CardinalityType
<1>6. Cardinality(Less) + Cardinality(More) = FEE_VOTES
  <2>1. Less \subseteq D /\ D \ Less = More
    BY <1>1, <1>2
  <2> HIDE DEF Less, More, D
  <2>2. D \cap Less = Less
    BY <2>1
  <2>3. Cardinality(D \ Less) = Cardinality(D) - Cardinality(D \cap Less)
    BY <1>4, FS_Difference
  <2>4. Cardinality(Less) \in Nat
    BY <1>5, <2>1
  <2>5. Cardinality(More) = FEE_VOTES - Cardinality(Less)
    BY <1>4, <2>1, <2>2, <2>3, Zenon
  <2>6. FEE_VOTES \in Nat
    BY <1>1
  <2> QED
    BY <2>4, <2>5, <2>6
<1>7. Cardinality(Less) <= half
  <2>1. CASE Less = {}
    <3>1. Cardinality(Less) = 0
      BY <2>1, FS_EmptySet
    <3> HIDE DEF Less
    <3> QED
      BY <1>1, <3>1
  <2>2. CASE Less # {}
    <3> DEFINE T == {votes[k] : k \in Less}
    <3>1. T \in SUBSET Nat /\ T # {}
      BY <1>1, <2>2
    <3>2. IsFiniteSet(T)
      <4> DEFINE g == [k \in Less |-> votes[k]]
      <4>0. Less \subseteq D
        OBVIOUS
      <4> HIDE DEF Less
      <4>1. g \in Surjection(Less, T)
        BY DEF Surjection
      <4> HIDE DEF g, T
      <4>2. IsFiniteSet(Less)
        BY <1>5, <4>0
      <4> QED
        BY <4>1, <4>2, FS_Surjection
    <3>3. PICK f \in T : \A y \in T : y <= f
      <4> HIDE DEF T
      <4> QED
        BY <3>1, <3>2, GreatestNat
    <3>4. f \in Range(votes) /\ f < fee /\ f \in Nat
      BY <1>1, <3>3 DEF Range
    <3>5. Less = Up(f)
      <4>1. \A k \in D : votes[k] < fee => votes[k] <= f
        BY <3>3
      <4>2. \A k \in D : votes[k] <= f => votes[k] < fee
        BY <1>1, <1>2, <3>4
      <4> QED
        BY <4>1, <4>2
    <3>6. ~(VotesUpTo(votes, f) >= half)
      BY <1>2, <3>4
    <3>7. VotesUpTo(votes, f) \in Nat
      <4>1. Up(f) \in SUBSET D
        OBVIOUS
      <4> HIDE DEF Up
      <4> QED
        BY <1>3, <1>5, <4>1
    <3>8. Cardinality(Less) = VotesUpTo(votes, f)
      BY <1>3, <3>5
    <3> HIDE DEF Less
    <3> QED
      BY <1>1, <3>6, <3>7, <3>8
  <2> QED
    BY <2>1, <2>2
<1>8. {k \in DOMAIN votes : votes[k] >= fee} = More
  BY <1>1
<1>9. Less \in SUBSET D /\ More \in SUBSET D /\ Up(fee) \in SUBSET D
  OBVIOUS
<1> HIDE DEF Less, More, Up
<1>10. Cardinality(Less) \in Nat /\ Cardinality(More) \in Nat /\ VotesUpTo(votes, fee) \in Nat
  BY <1>3, <1>5, <1>9
<1>11. 2 * VotesUpTo(votes, fee) >= FEE_VOTES
  BY <1>1, <1>2, <1>10
<1>12. 2 * Cardinality(More) >= FEE_VOTES
  BY <1>1, <1>6, <1>7, <1>10
<1> QED
  BY <1>8, <1>11, <1>12 DEF votes, fee

\* Before any block votes on the fee the default has all of the votes.
LEMMA DefaultMedian ==
  ASSUME NEW c, Len(c) \in Nat, \A k \in 1 .. Len(c) : c[k].nFeeVote = NoFee
  PROVE  LET votes == FeeVotes(c)
         IN  /\ 2 * VotesUpTo(votes, DefaultFee) >= FEE_VOTES
             /\ 2 * Cardinality({k \in DOMAIN votes : votes[k] >= DefaultFee}) >= FEE_VOTES
<1> DEFINE votes == FeeVotes(c)
           D == 1 .. FEE_VOTES
<1>1. FEE_VOTES \in Nat /\ DefaultFee \in Nat
  BY VoteAssumption
<1>2. \A i \in D : i <= Len(c) => Len(c) - i + 1 \in 1 .. Len(c)
  BY <1>1
<1>3. \A i \in D : votes[i] = DefaultFee
  BY <1>2 DEF FeeVotes, FeeVote
<1>4. DOMAIN votes = D
  BY DEF FeeVotes
<1> HIDE DEF votes
<1>5. /\ {k \in DOMAIN votes : votes[k] <= DefaultFee} = D
      /\ {k \in DOMAIN votes : votes[k] >= DefaultFee} = D
  BY <1>1, <1>3, <1>4
<1>6. Cardinality(D) = FEE_VOTES
  BY <1>1, FS_Interval
<1>7. 2 * FEE_VOTES >= FEE_VOTES
  BY <1>1
<1> QED
  BY <1>5, <1>6, <1>7 DEF votes, VotesUpTo

\* Version 2.0 is not taken back, only its blocks vote on the fee, and the fee of a
\* minted block is what was computed when it entered or, before version 2.0, lost.
FeeInv ==
    \A i \in 1 .. Len(chain) :
        /\ ~IsV2(i) => \A k \in 1 .. i : chain[k].nFeeVote = NoFee
        /\ IsStake(i) =>
              \/ chain[i].nVotedFee = CalculateVotedFees(SubSeq(chain, 1, i))
              \/ chain[i].nVotedFee = NoFee /\ ~IsV2(i)

\* What is voted and decided on the fee for a block that enters.
LEMMA EnteredFee ==
  ASSUME ShapeInv, NEW e, Entered(e)
  PROVE  /\ e.nProtocolVersion # PROTOCOL_V2_0 => e.nFeeVote = NoFee /\ ~IsV2(Len(chain))
         /\ e.fProofOfStake => \E vote : /\ vote.nFeeVote = e.nFeeVote
                                         /\ e.nVotedFee = CalculateVotedFees(Append(chain, vote))
<1>1. e.nProtocolVersion = GetProtocolForNextBlock(chain)
  BY DEF Entered
<1>2. ~(e.nProtocolVersion = PROTOCOL_V2_0) => ~IsV2(Len(chain))
  BY <1>1, NextVersion
<1>3. CASE e.fProofOfStake
  <2>1. PICK b \in BlockInput : e = StakeIndex(b)
    BY <1>3 DEF Entered
  <2> DEFINE n == GetProtocolForNextBlock(chain)
             vote == ExtractVote(b, n)
  <2>2. /\ e.nFeeVote = vote.nFeeVote
        /\ e.nVotedFee = CalculateVotedFees(Append(chain, vote))
    BY <2>1 DEF StakeIndex
  <2>3. n # PROTOCOL_V2_0 => vote.nFeeVote = NoFee
    BY VersionType DEF ExtractVote, PROTOCOL_V0_5, PROTOCOL_V2_0
  <2> QED
    BY <1>1, <1>2, <2>2, <2>3
<1>4. CASE ~e.fProofOfStake
  BY <1>2, <1>4 DEF Entered
<1> QED
  BY <1>3, <1>4

LEMMA FeeInductive == Spec => [](ShapeInv /\ FeeInv)
<1>1. Init => ShapeInv /\ FeeInv
  <2> SUFFICES ASSUME Init PROVE ShapeInv /\ FeeInv
    OBVIOUS
  <2>1. /\ TypeOK /\ Len(chain) = 1 /\ chain[1].fProofOfStake = FALSE
        /\ chain[1].nFeeVote = NoFee
    BY InitShape DEF WorkIndex
  <2> QED
    BY <2>1 DEF ShapeInv, FeeInv, IsStake
<1>2. ShapeInv /\ FeeInv /\ [Next]_vars => (ShapeInv /\ FeeInv)'
  <2> SUFFICES ASSUME ShapeInv, FeeInv, [Next]_vars
               PROVE  FeeInv'
    BY ShapeStep
  <2> DEFINE n == Len(chain)
  <2>1. /\ n \in Nat \ {0} /\ ShapeInv' /\ (Kept \/ \E e : Entered(e) /\ Grown(e))
        /\ chain \in Seq(IndexType) /\ chain' \in Seq(IndexType)
    BY ShapeStep DEF ShapeInv, TypeOK
  <2>2. ASSUME NEW i \in 1 .. n, i <= Len(chain'),
               \A k \in 1 .. n : chain'[k].nFeeVote = chain[k].nFeeVote
        PROVE  CalculateVotedFees(SubSeq(chain', 1, i)) = CalculateVotedFees(SubSeq(chain, 1, i))
    <3>1. /\ Len(SubSeq(chain, 1, i)) = i
          /\ \A k \in 1 .. i : SubSeq(chain, 1, i)[k] = chain[k]
      BY <2>1, PrefixProperties
    <3>2. /\ Len(SubSeq(chain', 1, i)) = i
          /\ \A k \in 1 .. i : SubSeq(chain', 1, i)[k] = chain'[k]
      BY <2>1, <2>2, PrefixProperties
    <3>3. i \in Nat /\ \A k \in 1 .. i : k \in 1 .. n
      BY <2>1
    <3>4. \A k \in 1 .. i : SubSeq(chain', 1, i)[k].nFeeVote = SubSeq(chain, 1, i)[k].nFeeVote
      <4> TAKE k \in 1 .. i
      <4>1. k \in 1 .. n
        BY <3>3
      <4> QED
        BY <2>2, <3>1, <3>2, <4>1
    <3>5. FeeVotes(SubSeq(chain', 1, i)) = FeeVotes(SubSeq(chain, 1, i))
      BY <3>1, <3>2, <3>3, <3>4, FeeVotesEqual
    <3> QED
      BY <3>5 DEF CalculateVotedFees
  <2>3. CASE Kept
    <3>1. /\ Len(chain') = n
          /\ \A k \in 1 .. n :
                /\ chain'[k].fProofOfStake = chain[k].fProofOfStake
                /\ chain'[k].nProtocolVersion = chain[k].nProtocolVersion
                /\ chain'[k].nFeeVote = chain[k].nFeeVote
                /\ \/ chain'[k].nVotedFee = chain[k].nVotedFee
                   \/ chain'[k].nVotedFee = NoFee /\ chain[k].nProtocolVersion # PROTOCOL_V2_0
      BY <2>3 DEF Kept, Reloaded
    <3>2. \A i \in 1 .. n : i <= n /\ \A k \in 1 .. i : k \in 1 .. n
      BY <2>1
    <3> HIDE DEF n
    <3>3. \A i \in 1 .. n :
            CalculateVotedFees(SubSeq(chain', 1, i)) = CalculateVotedFees(SubSeq(chain, 1, i))
      BY <2>2, <3>1, <3>2
    <3> QED
      BY <3>1, <3>2, <3>3 DEF FeeInv, IsStake, IsV2, n
  <2>4. ASSUME NEW e, Entered(e), Grown(e)
        PROVE  FeeInv'
    <3>1. /\ Len(chain') = n + 1 /\ chain'[n + 1] = e
          /\ \A i \in 1 .. n : chain'[i] = chain[i]
      BY <2>4 DEF Grown
    <3>2. /\ e.nProtocolVersion # PROTOCOL_V2_0 => e.nFeeVote = NoFee /\ ~IsV2(n)
          /\ e.fProofOfStake => \E vote : /\ vote.nFeeVote = e.nFeeVote
                                          /\ e.nVotedFee = CalculateVotedFees(Append(chain, vote))
      BY <2>4, EnteredFee
    <3>3. e.fProofOfStake => e.nVotedFee = CalculateVotedFees(SubSeq(chain', 1, n + 1))
      <4> SUFFICES ASSUME e.fProofOfStake
                   PROVE  e.nVotedFee = CalculateVotedFees(SubSeq(chain', 1, n + 1))
        OBVIOUS
      <4>1. PICK vote : /\ vote.nFeeVote = e.nFeeVote
                        /\ e.nVotedFee = CalculateVotedFees(Append(chain, vote))
        BY <3>2
      <4>2. SubSeq(chain', 1, n + 1) = chain'
        BY <2>1, <3>1, SubSeqFull
      <4> DEFINE c == Append(chain, vote)
      <4>3. /\ Len(c) = n + 1
            /\ \A i \in 1 .. n : c[i] = chain[i]
            /\ c[n + 1] = vote
        <5>1. chain \in Seq(IndexType \cup {vote})
          BY <2>1, SeqMonotonic
        <5> QED
          BY <5>1, AppendProperties
      <4> HIDE DEF c, n
      <4>4. \A k \in 1 .. n + 1 : k \in 1 .. n \/ k = n + 1
        BY <2>1
      <4>5. \A k \in 1 .. n + 1 : c[k].nFeeVote = (chain')[k].nFeeVote
        BY <3>1, <4>1, <4>3, <4>4
      <4>6. n + 1 \in Nat
        BY <2>1
      <4>7. FeeVotes(c) = FeeVotes(chain')
        BY <3>1, <4>3, <4>5, <4>6, FeeVotesEqual
      <4> QED
        BY <4>1, <4>2, <4>7 DEF CalculateVotedFees, c
    <3>4. \A i \in 1 .. n + 1 : i \in 1 .. n \/ i = n + 1
      BY <2>1
    <3>5. \A i \in 1 .. n : i <= Len(chain') /\ n \in 1 .. n /\ \A k \in 1 .. i : k \in 1 .. n
      BY <2>1, <3>1
    <3> HIDE DEF n
    <3>6. \A i \in 1 .. n :
            CalculateVotedFees(SubSeq(chain', 1, i)) = CalculateVotedFees(SubSeq(chain, 1, i))
      BY <2>2, <3>1, <3>5
    <3>7. \A i \in 1 .. n :
            /\ ~IsV2(i)' => \A k \in 1 .. i : chain'[k].nFeeVote = NoFee
            /\ IsStake(i)' =>
                  \/ chain'[i].nVotedFee = CalculateVotedFees(SubSeq(chain', 1, i))
                  \/ chain'[i].nVotedFee = NoFee /\ ~IsV2(i)'
      BY <3>1, <3>5, <3>6 DEF FeeInv, IsStake, IsV2, n
    <3>8. e.nProtocolVersion # PROTOCOL_V2_0 =>
             \A k \in 1 .. n + 1 : chain'[k].nFeeVote = NoFee
      <4>1. n \in 1 .. n
        BY <2>1
      <4>2. ~IsV2(n) => \A k \in 1 .. n : chain[k].nFeeVote = NoFee
        BY <4>1 DEF FeeInv, n
      <4> QED
        BY <3>1, <3>2, <3>4, <4>2
    <3> QED
      BY <3>1, <3>3, <3>4, <3>7, <3>8 DEF FeeInv, IsStake, IsV2
  <2> QED
    BY <2>1, <2>3, <2>4
<1> QED
  BY <1>1, <1>2, PTL DEF Spec

\* The voted fee is a median of the votes, also after a reload, for every even number of
\* votes and whatever is voted.
THEOREM MedianFee ==
  ASSUME FEE_VOTES % 2 = 0
  PROVE  Spec => []VotedFeeIsMedian
<1>1. ShapeInv /\ FeeInv => VotedFeeIsMedian
  <2> SUFFICES ASSUME ShapeInv, FeeInv, NEW i \in DOMAIN chain, IsStake(i)
               PROVE  LET votes == FeeVotes(SubSeq(chain, 1, i))
                          fee == GetVotedMinFee(chain[i])
                      IN  /\ 2 * VotesUpTo(votes, fee) >= FEE_VOTES
                          /\ 2 * Cardinality({k \in DOMAIN votes : votes[k] >= fee}) >= FEE_VOTES
    BY DEF VotedFeeIsMedian
  <2> DEFINE c == SubSeq(chain, 1, i)
  <2>1. /\ Len(chain) \in Nat /\ i \in 1 .. Len(chain) /\ chain \in Seq(IndexType)
    BY ElementType DEF ShapeInv, TypeOK
  <2>2. /\ Len(c) = i /\ i \in Nat
        /\ \A k \in 1 .. i : c[k] = chain[k]
    BY <2>1, PrefixProperties
  <2>3. HasFeeVotes(c)
    <3>1. \A k \in 1 .. i : chain[k].nFeeVote \in Nat \cup {NoFee}
      BY <2>1, ElementType, FieldTypes DEF ShapeInv
    <3> HIDE DEF c
    <3> QED
      BY <2>2, <3>1 DEF HasFeeVotes
  <2>4. CalculateVotedFees(c) \in Nat
    BY <2>3, VotedFee
  <2>5. CASE chain[i].nVotedFee = CalculateVotedFees(c)
    <3>1. GetVotedMinFee(chain[i]) = CalculateVotedFees(c)
      BY <2>4, <2>5 DEF GetVotedMinFee, NoFee
    <3> QED
      BY <2>3, <3>1, VotedFeeMedian
  <2>6. CASE chain[i].nVotedFee = NoFee /\ ~IsV2(i)
    <3>1. GetVotedMinFee(chain[i]) = DefaultFee
      BY <2>6 DEF GetVotedMinFee
    <3>2. \A k \in 1 .. i : chain[k].nFeeVote = NoFee
      BY <2>1, <2>6 DEF FeeInv
    <3> HIDE DEF c
    <3>3. \A k \in 1 .. Len(c) : c[k].nFeeVote = NoFee
      BY <2>2, <3>2
    <3> QED
      BY <2>2, <3>1, <3>3, DefaultMedian DEF c
  <2> QED
    BY <2>1, <2>5, <2>6 DEF FeeInv
<1> QED
  BY <1>1, FeeInductive, PTL

--------------------------------------------------------------------------------

\* Votes that weigh something.
Weighted(vVote) ==
    /\ IsFiniteSet(DOMAIN vVote)
    /\ \A i \in DOMAIN vVote : vVote[i].nCoinAgeDestroyed \in Nat

\* The weight of votes is a number, and two parts have no more than the whole.
LEMMA WeightType ==
  ASSUME NEW vVote, Weighted(vVote), NEW A \in SUBSET DOMAIN vVote
  PROVE  /\ WeightOf(vVote, A) \in Nat
         /\ TotalWeight(vVote) = WeightOf(vVote, A) + WeightOf(vVote, DOMAIN vVote \ A)
<1> DEFINE f == [i \in DOMAIN vVote |-> vVote[i].nCoinAgeDestroyed]
           B == DOMAIN vVote \ A
<1>1. Summable(f) /\ DOMAIN f = DOMAIN vVote
  BY DEF Summable, Weighted
<1>2. \A S \in SUBSET DOMAIN vVote :
         [i \in S |-> f[i]] = [i \in S |-> vVote[i].nCoinAgeDestroyed]
  OBVIOUS
<1>3. \A S \in SUBSET DOMAIN vVote : WeightOf(vVote, S) = SumFunction([i \in S |-> f[i]])
  BY <1>2 DEF WeightOf
<1>4. TotalWeight(vVote) = SumFunction(f)
  BY DEF TotalWeight, WeightOf
<1> HIDE DEF f
<1>5. WeightOf(vVote, A) \in Nat
  BY <1>1, <1>3, RestrictSummable
<1>6. SumFunction(f) = SumFunction([i \in A |-> f[i]]) + SumFunction([i \in B |-> f[i]])
  BY <1>1, SumSplit
<1>7. B \in SUBSET DOMAIN vVote
  OBVIOUS
<1> HIDE DEF B
<1>8. TotalWeight(vVote) = WeightOf(vVote, A) + WeightOf(vVote, B)
  BY <1>3, <1>4, <1>6, <1>7
<1> QED
  BY <1>5, <1>8 DEF B

\* What ElectedByMajority asks of the votes.
ByMajority(vVote, grants) ==
    \A g \in grants :
        /\ 2 * Cardinality({k \in DOMAIN vVote : g \in vVote[k].vCustodianVote})
               > Cardinality(DOMAIN vVote)
        /\ 2 * Support(vVote, g) > TotalWeight(vVote)
        /\ \A h \in grants : h.address = g.address => h = g

\* It depends on the weights and on the custodians voted for.
LEMMA MajorityAlike ==
  ASSUME NEW v, NEW w, NEW grants, DOMAIN v = DOMAIN w, ByMajority(v, grants),
         \A k \in DOMAIN v : /\ v[k].nCoinAgeDestroyed = w[k].nCoinAgeDestroyed
                             /\ v[k].vCustodianVote = w[k].vCustodianVote
  PROVE  ByMajority(w, grants)
<1>1. \A A \in SUBSET DOMAIN v : WeightOf(v, A) = WeightOf(w, A)
  <2> SUFFICES ASSUME NEW A \in SUBSET DOMAIN v
               PROVE  WeightOf(v, A) = WeightOf(w, A)
    OBVIOUS
  <2>1. [i \in A |-> v[i].nCoinAgeDestroyed] = [i \in A |-> w[i].nCoinAgeDestroyed]
    OBVIOUS
  <2> QED
    BY <2>1 DEF WeightOf
<1>2. TotalWeight(v) = TotalWeight(w)
  BY <1>1 DEF TotalWeight
<1>3. ASSUME NEW g \in grants
      PROVE  /\ {k \in DOMAIN v : g \in v[k].vCustodianVote}
                  = {k \in DOMAIN w : g \in w[k].vCustodianVote}
             /\ Support(v, g) = Support(w, g)
  <2> DEFINE A == {k \in DOMAIN v : g \in v[k].vCustodianVote}
  <2>1. A = {k \in DOMAIN w : g \in w[k].vCustodianVote} /\ A \in SUBSET DOMAIN v
    OBVIOUS
  <2> HIDE DEF A
  <2>2. WeightOf(v, A) = WeightOf(w, A)
    BY <1>1, <2>1
  <2> QED
    BY <2>1, <2>2 DEF Support, A
<1> QED
  BY <1>2, <1>3 DEF ByMajority

\* GenerateCurrencyCoinBases asks for it.
LEMMA GrantsByMajority ==
  ASSUME NEW vVote, Weighted(vVote), NEW elected,
         \A i \in DOMAIN vVote : vVote[i].vCustodianVote \subseteq GrantType
  PROVE  ByMajority(vVote, GenerateCurrencyCoinBases(vVote, elected))
<1> DEFINE grants == GenerateCurrencyCoinBases(vVote, elected)
           For(g) == {i \in DOMAIN vVote : g \in vVote[i].vCustodianVote}
<1>1. \A g \in grants : g \in Passed(vVote) /\ IsHeaviest(vVote, g)
  BY DEF GenerateCurrencyCoinBases
<1>2. \A g \in Passed(vVote) :
         /\ g \in GrantType
         /\ Support(vVote, g) > TotalWeight(vVote) \div 2
         /\ Cardinality(For(g)) > Cardinality(DOMAIN vVote) \div 2
  BY DEF Passed
<1>3. TotalWeight(vVote) \in Nat
  BY WeightType DEF TotalWeight
<1>4. \A g : Support(vVote, g) \in Nat
  <2> SUFFICES ASSUME NEW g PROVE Support(vVote, g) \in Nat
    OBVIOUS
  <2>1. For(g) \in SUBSET DOMAIN vVote
    OBVIOUS
  <2> QED
    BY <2>1, WeightType DEF Support
<1>5. Cardinality(DOMAIN vVote) \in Nat /\ \A g : Cardinality(For(g)) \in Nat
  <2>1. \A g : For(g) \in SUBSET DOMAIN vVote
    OBVIOUS
  <2> HIDE DEF For
  <2> QED
    BY <2>1, FS_Subset, FS_CardinalityType DEF Weighted
<1>6. \A a, b \in Nat : a > b \div 2 => 2 * a > b
  OBVIOUS
<1> HIDE DEF grants, For
<1>7. ASSUME NEW g \in grants
      PROVE  /\ 2 * Cardinality(For(g)) > Cardinality(DOMAIN vVote)
             /\ 2 * Support(vVote, g) > TotalWeight(vVote)
  BY <1>1, <1>2, <1>3, <1>4, <1>5, <1>6
<1>8. ASSUME NEW g \in grants, NEW h \in grants, h.address = g.address
      PROVE  h = g
  <2> SUFFICES ASSUME h # g PROVE FALSE
    OBVIOUS
  <2>1. g.nAmount \in Nat /\ h.nAmount \in Nat
    BY <1>1, <1>2 DEF GrantType
  <2>2. \/ Support(vVote, g) > Support(vVote, h)
        \/ Support(vVote, g) = Support(vVote, h) /\ g.nAmount < h.nAmount
    BY <1>1, <1>8 DEF IsHeaviest
  <2>3. \/ Support(vVote, h) > Support(vVote, g)
        \/ Support(vVote, h) = Support(vVote, g) /\ h.nAmount < g.nAmount
    BY <1>1, <1>8 DEF IsHeaviest
  <2>4. Support(vVote, g) \in Nat /\ Support(vVote, h) \in Nat
    BY <1>4
  <2> QED
    BY <2>1, <2>2, <2>3, <2>4
<1> QED
  BY <1>7, <1>8 DEF ByMajority, For, grants

\* The places of the votes in a window.
Window(c, n) ==
    {Len(c) + 1} \cup {k \in 1 .. Len(c) : k > Len(c) + 1 - n /\ c[k].fProofOfStake}

\* The votes in a window, by their places.
LEMMA VotesOnShape ==
  ASSUME NEW c \in Seq(IndexType), NEW vote, NEW n \in Nat
  PROVE  LET votes == VotesOn(c, vote, n)
             last == Len(c) + 1
         IN  /\ IsFiniteSet(DOMAIN votes) /\ last \in DOMAIN votes /\ votes[last] = vote
             /\ DOMAIN votes = Window(c, n)
             /\ \A k \in DOMAIN votes \ {last} : k \in 1 .. Len(c) /\ votes[k] = c[k]
<1> DEFINE votes == VotesOn(c, vote, n)
           last == Len(c) + 1
           old == {k \in 1 .. Len(c) : k > last - n /\ c[k].fProofOfStake}
<1>1. Len(c) \in Nat /\ DOMAIN c = 1 .. Len(c)
  BY LenProperties
<1>2. DOMAIN votes = {last} \cup old
  BY <1>1 DEF VotesOn
<1>3. IsFiniteSet({last} \cup old)
  <2>1. IsFiniteSet(1 .. Len(c)) /\ old \subseteq 1 .. Len(c)
    BY <1>1, FS_Interval
  <2>2. IsFiniteSet(old)
    BY <2>1, FS_Subset
  <2>3. IsFiniteSet({last})
    BY FS_Singleton
  <2> HIDE DEF old, last
  <2> QED
    BY <2>2, <2>3, FS_Union
<1>4. votes[last] = vote
  BY DEF VotesOn
<1>5. \A k \in old : k # last
  BY <1>1
<1>6. \A k \in old : votes[k] = c[k]
  BY <1>1, <1>5 DEF VotesOn
<1> QED
  BY <1>2, <1>3, <1>4, <1>6 DEF Window

\* What the counting of votes reads of a vote.
Alike(r, s) ==
    /\ r.nCoinAgeDestroyed = s.nCoinAgeDestroyed
    /\ r.vCustodianVote = s.vCustodianVote
    /\ r.vParkRate = s.vParkRate

\* Two chains whose indices agree have the same votes.
LEMMA VotesOnAlike ==
  ASSUME NEW c \in Seq(IndexType), NEW d \in Seq(IndexType), NEW v, NEW w, NEW n \in Nat,
         Len(c) = Len(d), Alike(v, w),
         \A k \in 1 .. Len(c) : c[k].fProofOfStake = d[k].fProofOfStake /\ Alike(c[k], d[k])
  PROVE  /\ DOMAIN VotesOn(c, v, n) = DOMAIN VotesOn(d, w, n)
         /\ \A k \in DOMAIN VotesOn(c, v, n) : Alike(VotesOn(c, v, n)[k], VotesOn(d, w, n)[k])
<1> DEFINE last == Len(c) + 1
<1>1. Window(c, n) = Window(d, n)
  BY DEF Window
<1>2. /\ DOMAIN VotesOn(c, v, n) = Window(c, n)
      /\ \A k \in DOMAIN VotesOn(c, v, n) \ {last} :
            k \in 1 .. Len(c) /\ VotesOn(c, v, n)[k] = c[k]
      /\ VotesOn(c, v, n)[last] = v
  BY VotesOnShape
<1>3. /\ DOMAIN VotesOn(d, w, n) = Window(d, n)
      /\ \A k \in DOMAIN VotesOn(d, w, n) \ {last} :
            k \in 1 .. Len(d) /\ VotesOn(d, w, n)[k] = d[k]
      /\ VotesOn(d, w, n)[last] = w
  BY VotesOnShape
<1> HIDE DEF last
<1>4. DOMAIN VotesOn(c, v, n) = DOMAIN VotesOn(d, w, n)
  BY <1>1, <1>2, <1>3
<1>5. ASSUME NEW k \in DOMAIN VotesOn(c, v, n)
      PROVE  Alike(VotesOn(c, v, n)[k], VotesOn(d, w, n)[k])
  <2>1. CASE k = last
    BY <1>2, <1>3, <2>1
  <2>2. CASE k # last
    <3>1. k \in 1 .. Len(c) /\ VotesOn(c, v, n)[k] = c[k] /\ VotesOn(d, w, n)[k] = d[k]
      BY <1>2, <1>3, <1>4, <2>2
    <3> QED
      BY <3>1
  <2> QED
    BY <2>1, <2>2
<1> QED
  BY <1>4, <1>5

\* The weights in a window are numbers.
LEMMA VotesOnWeighted ==
  ASSUME NEW c \in Seq(IndexType), NEW vote, NEW n \in Nat, vote.nCoinAgeDestroyed \in Nat
  PROVE  Weighted(VotesOn(c, vote, n))
<1> DEFINE votes == VotesOn(c, vote, n)
           last == Len(c) + 1
<1>1. /\ IsFiniteSet(DOMAIN votes) /\ votes[last] = vote
      /\ \A k \in DOMAIN votes \ {last} : k \in 1 .. Len(c) /\ votes[k] = c[k]
  BY VotesOnShape
<1>2. \A k \in 1 .. Len(c) : c[k].nCoinAgeDestroyed \in Nat
  <2>1. \A k \in 1 .. Len(c) : c[k] \in IndexType
    BY ElementOfSeq, LenProperties
  <2> QED
    BY <2>1 DEF IndexType
<1> HIDE DEF votes, last
<1>3. \A k \in DOMAIN votes : votes[k].nCoinAgeDestroyed \in Nat
  BY <1>1, <1>2
<1> QED
  BY <1>1, <1>3 DEF Weighted, votes

\* A step changes nothing of an index but the voted fee.
LEMMA IndicesStay ==
  ASSUME ShapeInv, Kept \/ \E e : Grown(e)
  PROVE  /\ Len(chain') >= Len(chain)
         /\ \A k \in 1 .. Len(chain) : Reloaded(chain[k], chain'[k])
<1>1. Len(chain) \in Nat
  BY ElementType DEF ShapeInv
<1>2. CASE Kept
  BY <1>1, <1>2 DEF Kept
<1>3. ASSUME NEW e, Grown(e)
      PROVE  /\ Len(chain') >= Len(chain)
             /\ \A k \in 1 .. Len(chain) : Reloaded(chain[k], chain'[k])
  BY <1>1, <1>3 DEF Grown, Reloaded
<1> QED
  BY <1>2, <1>3

\* So the votes that decided on an index stay as well.
LEMMA PrefixAlike ==
  ASSUME ShapeInv, ShapeInv', Kept \/ \E e : Grown(e), NEW m \in Nat, m <= Len(chain)
  PROVE  /\ SubSeq(chain, 1, m) \in Seq(IndexType) /\ SubSeq(chain', 1, m) \in Seq(IndexType)
         /\ Len(SubSeq(chain, 1, m)) = m /\ Len(SubSeq(chain', 1, m)) = m
         /\ \A k \in 1 .. m :
               /\ SubSeq(chain, 1, m)[k].fProofOfStake = SubSeq(chain', 1, m)[k].fProofOfStake
               /\ Alike(SubSeq(chain, 1, m)[k], SubSeq(chain', 1, m)[k])
<1>1. /\ Len(chain') >= Len(chain)
      /\ \A k \in 1 .. Len(chain) : Reloaded(chain[k], chain'[k])
  BY IndicesStay
<1>2. /\ chain \in Seq(IndexType) /\ chain' \in Seq(IndexType)
      /\ Len(chain) \in Nat /\ Len(chain') \in Nat
  BY LenProperties DEF ShapeInv, TypeOK
<1>3. m <= Len(chain')
  BY <1>1, <1>2
<1>4. /\ SubSeq(chain, 1, m) \in Seq(IndexType) /\ Len(SubSeq(chain, 1, m)) = m
      /\ \A k \in 1 .. m : SubSeq(chain, 1, m)[k] = chain[k]
  BY <1>2, PrefixProperties
<1>5. /\ SubSeq(chain', 1, m) \in Seq(IndexType) /\ Len(SubSeq(chain', 1, m)) = m
      /\ \A k \in 1 .. m : SubSeq(chain', 1, m)[k] = chain'[k]
  BY <1>2, <1>3, PrefixProperties
<1>6. \A k \in 1 .. m : k \in 1 .. Len(chain)
  BY <1>2
<1>7. \A k \in 1 .. m : chain[k].fProofOfStake = chain'[k].fProofOfStake /\ Alike(chain[k], chain'[k])
  BY <1>1, <1>6 DEF Reloaded, Alike
<1> QED
  BY <1>4, <1>5, <1>7

\* What is read from a block that enters.
LEMMA EnteredStake ==
  ASSUME ShapeInv, NEW e, Entered(e), e.fProofOfStake
  PROVE  \E b \in BlockInput :
            LET vote == ExtractVote(b, GetProtocolForNextBlock(chain))
            IN  /\ Alike(vote, e) /\ vote.nCoinAgeDestroyed \in Nat
                /\ vote.vParkRate \in RateTable /\ vote.vCustodianVote \subseteq GrantType
                /\ e.nTotalAge = GetCoinAge(b) /\ e.nTotalAge \in Nat
                /\ e.vElectedCustodian = Grants(chain, vote, GetCoinAge(b))
                /\ e.vParkRateResult = CalculateParkRateResults(chain, vote,
                                           GetProtocolForNextBlock(chain))
<1>1. PICK b \in BlockInput : e = StakeIndex(b)
  BY DEF Entered
<1>2. b \in InputType
  BY InputAssumption
<1> DEFINE n == GetProtocolForNextBlock(chain)
           vote == ExtractVote(b, n)
<1>3. /\ e.nCoinAgeDestroyed = vote.nCoinAgeDestroyed /\ e.vParkRate = vote.vParkRate
      /\ e.vCustodianVote = vote.vCustodianVote /\ e.nTotalAge = GetCoinAge(b)
      /\ e.vElectedCustodian = Grants(chain, vote, GetCoinAge(b))
      /\ e.vParkRateResult = CalculateParkRateResults(chain, vote, n)
  BY <1>1 DEF StakeIndex
<1>4. /\ vote.nCoinAgeDestroyed \in Nat /\ vote.vParkRate \in RateTable
      /\ vote.vCustodianVote \subseteq GrantType /\ GetCoinAge(b) \in Nat
  BY <1>2, VoteType, CoinAgeType DEF InputType, GrantType
<1> QED
  BY <1>3, <1>4 DEF Alike

\* The votes on the grants of the block at place i.
GrantVotes(c, i) ==
    ExtractVotes(SubSeq(c, 1, i - 1), [c[i] EXCEPT !.nCoinAgeDestroyed = c[i].nTotalAge])

\* An index with another coin age.
LEMMA Reweighted ==
  ASSUME NEW r \in IndexType, NEW w
  PROVE  LET s == [r EXCEPT !.nCoinAgeDestroyed = w]
         IN  /\ s.nCoinAgeDestroyed = w /\ s.vCustodianVote = r.vCustodianVote
             /\ s.vParkRate = r.vParkRate
  BY DEF IndexType

\* The grants of a block that enters have a majority.
LEMMA EnteredMajority ==
  ASSUME ShapeInv, ShapeInv', NEW e, Entered(e), Grown(e)
  PROVE  ByMajority(GrantVotes(chain', Len(chain) + 1), e.vElectedCustodian)
<1> DEFINE n == Len(chain)
<1>1. /\ n \in Nat /\ chain \in Seq(IndexType)
      /\ chain'[n + 1] = e
      /\ e \in IndexType
  BY ElementType DEF ShapeInv, TypeOK, Grown, Entered
<1>2. CASE ~e.fProofOfStake
  <2>1. n < PROOF_OF_WORK_BLOCKS + 1
    BY <1>1, <1>2, VoteAssumption DEF Entered
  <2>2. e.vElectedCustodian = {}
    BY <1>2 DEF Entered
  <2> QED
    BY <2>2 DEF ByMajority
<1>3. CASE e.fProofOfStake
  <2>1. PICK b \in BlockInput :
            LET vote == ExtractVote(b, GetProtocolForNextBlock(chain))
            IN  /\ Alike(vote, e) /\ vote.vCustodianVote \subseteq GrantType
                /\ e.nTotalAge = GetCoinAge(b) /\ e.nTotalAge \in Nat
                /\ e.vElectedCustodian = Grants(chain, vote, GetCoinAge(b))
    BY <1>3, EnteredStake
  <2> DEFINE vote == ExtractVote(b, GetProtocolForNextBlock(chain))
             age == GetCoinAge(b)
             v == [vote EXCEPT !.nCoinAgeDestroyed = age]
             w == [e EXCEPT !.nCoinAgeDestroyed = e.nTotalAge]
             votes == ExtractVotes(chain, v)
  <2>2. /\ v.nCoinAgeDestroyed = age /\ v.vCustodianVote = vote.vCustodianVote
        /\ v.vParkRate = vote.vParkRate
    BY DEF ExtractVote
  <2>3. /\ w.nCoinAgeDestroyed = e.nTotalAge /\ w.vCustodianVote = e.vCustodianVote
        /\ w.vParkRate = e.vParkRate
    BY <1>1, Reweighted
  <2> HIDE DEF v, w, age, vote
  <2>4. Alike(v, w) /\ v.nCoinAgeDestroyed \in Nat /\ v.vCustodianVote \subseteq GrantType
    BY <2>1, <2>2, <2>3 DEF Alike, age, vote
  <2>5. e.vElectedCustodian = GenerateCurrencyCoinBases(votes, GetElectedCustodians(chain))
    BY <2>1 DEF Grants, v, age, vote
  <2>6. Weighted(votes)
    BY <1>1, <2>4, VotesOnWeighted, VoteAssumption DEF ExtractVotes
  <2>7. \A i \in DOMAIN votes : votes[i].vCustodianVote \subseteq GrantType
    <3>1. \A k \in 1 .. n : chain[k].vCustodianVote \subseteq GrantType
      BY ElementType, FieldTypes DEF ShapeInv
    <3>2. votes[n + 1] = v /\ \A k \in DOMAIN votes \ {n + 1} : k \in 1 .. n /\ votes[k] = chain[k]
      BY <1>1, VotesOnShape, VoteAssumption DEF ExtractVotes
    <3> HIDE DEF n, votes
    <3> QED
      BY <2>4, <3>1, <3>2
  <2>8. ByMajority(votes, e.vElectedCustodian)
    BY <2>5, <2>6, <2>7, GrantsByMajority
  <2>9. GrantVotes(chain', n + 1) = ExtractVotes(SubSeq(chain', 1, n), w)
    <3>1. (n + 1) - 1 = n
      BY <1>1
    <3> QED
      BY <1>1, <3>1 DEF GrantVotes, w
  <2>10. SubSeq(chain, 1, n) = chain
    BY <1>1, SubSeqFull
  <2>11. /\ SubSeq(chain', 1, n) \in Seq(IndexType) /\ Len(SubSeq(chain', 1, n)) = n
         /\ \A k \in 1 .. n :
               /\ chain[k].fProofOfStake = SubSeq(chain', 1, n)[k].fProofOfStake
               /\ Alike(chain[k], SubSeq(chain', 1, n)[k])
    <3>1. n <= Len(chain)
      BY <1>1
    <3>2. Kept \/ \E a : Grown(a)
      OBVIOUS
    <3>3. /\ SubSeq(chain', 1, n) \in Seq(IndexType) /\ Len(SubSeq(chain', 1, n)) = n
          /\ \A k \in 1 .. n :
               /\ SubSeq(chain, 1, n)[k].fProofOfStake = SubSeq(chain', 1, n)[k].fProofOfStake
               /\ Alike(SubSeq(chain, 1, n)[k], SubSeq(chain', 1, n)[k])
      BY <1>1, <3>1, <3>2, PrefixAlike
    <3> QED
      BY <2>10, <3>3
  <2> DEFINE d == SubSeq(chain', 1, n)
  <2> HIDE DEF d
  <2>12. /\ DOMAIN votes = DOMAIN ExtractVotes(d, w)
         /\ \A k \in DOMAIN votes : Alike(votes[k], ExtractVotes(d, w)[k])
    <3>1. CUSTODIAN_VOTES \in Nat
      BY VoteAssumption
    <3>2. /\ d \in Seq(IndexType) /\ Len(chain) = Len(d)
          /\ \A k \in 1 .. Len(chain) :
               chain[k].fProofOfStake = d[k].fProofOfStake /\ Alike(chain[k], d[k])
      BY <2>11 DEF d
    <3> QED
      BY <1>1, <2>4, <3>1, <3>2, VotesOnAlike DEF ExtractVotes
  <2>13. ByMajority(ExtractVotes(d, w), e.vElectedCustodian)
    <3> HIDE DEF votes
    <3> QED
      BY <2>8, <2>12, MajorityAlike DEF Alike
  <2> QED
    BY <2>9, <2>13 DEF d
<1> QED
  BY <1>2, <1>3

\* The grants of a block keep their majority.
LEMMA MajorityStays ==
  ASSUME ShapeInv, ShapeInv', Kept \/ \E e : Grown(e), NEW i \in 2 .. Len(chain),
         ByMajority(GrantVotes(chain, i), chain[i].vElectedCustodian)
  PROVE  ByMajority(GrantVotes(chain', i), chain'[i].vElectedCustodian)
<1> DEFINE m == i - 1
           c == SubSeq(chain, 1, m)
           d == SubSeq(chain', 1, m)
           v == [chain[i] EXCEPT !.nCoinAgeDestroyed = chain[i].nTotalAge]
           w == [chain'[i] EXCEPT !.nCoinAgeDestroyed = chain'[i].nTotalAge]
<1>1. Len(chain) \in Nat /\ m \in Nat /\ m <= Len(chain) /\ i \in 1 .. Len(chain)
  BY ElementType DEF ShapeInv
<1>2. /\ c \in Seq(IndexType) /\ d \in Seq(IndexType) /\ Len(c) = Len(d)
      /\ \A k \in 1 .. Len(c) : c[k].fProofOfStake = d[k].fProofOfStake /\ Alike(c[k], d[k])
  BY <1>1, PrefixAlike
<1>3. Reloaded(chain[i], chain'[i]) /\ Len(chain') >= Len(chain)
  BY <1>1, IndicesStay
<1>4. chain[i] \in IndexType /\ chain'[i] \in IndexType
  <2>1. chain' \in Seq(IndexType) /\ Len(chain') \in Nat
    BY LenProperties DEF ShapeInv, TypeOK
  <2>2. i \in 1 .. Len(chain')
    BY <1>1, <1>3, <2>1
  <2> QED
    BY <1>1, <2>1, <2>2, ElementOfSeq, ElementType DEF ShapeInv
<1>5. Alike(v, w)
  <2>1. /\ v.nCoinAgeDestroyed = chain[i].nTotalAge /\ v.vCustodianVote = chain[i].vCustodianVote
        /\ v.vParkRate = chain[i].vParkRate
    BY <1>4, Reweighted
  <2>2. /\ w.nCoinAgeDestroyed = chain'[i].nTotalAge
        /\ w.vCustodianVote = chain'[i].vCustodianVote
        /\ w.vParkRate = chain'[i].vParkRate
    BY <1>4, Reweighted
  <2> HIDE DEF v, w
  <2> QED
    BY <1>3, <2>1, <2>2 DEF Alike, Reloaded
<1>6. GrantVotes(chain, i) = ExtractVotes(c, v) /\ GrantVotes(chain', i) = ExtractVotes(d, w)
  BY DEF GrantVotes
<1> HIDE DEF c, d, v, w
<1>7. /\ DOMAIN ExtractVotes(c, v) = DOMAIN ExtractVotes(d, w)
      /\ \A k \in DOMAIN ExtractVotes(c, v) :
            Alike(ExtractVotes(c, v)[k], ExtractVotes(d, w)[k])
  BY <1>2, <1>5, VotesOnAlike, VoteAssumption DEF ExtractVotes
<1>8. ByMajority(ExtractVotes(d, w), chain[i].vElectedCustodian)
  BY <1>6, <1>7, MajorityAlike DEF Alike
<1>9. chain'[i].vElectedCustodian = chain[i].vElectedCustodian
  BY <1>3 DEF Reloaded
<1> QED
  BY <1>6, <1>8, <1>9

\* A grant is backed by a majority of blocks and of coin age, for every window and every
\* weight of the votes, and an address gets one amount.
THEOREM GrantsHaveMajority == Spec => []ElectedByMajority
<1> DEFINE Backed == \A i \in 2 .. Len(chain) :
                         ByMajority(GrantVotes(chain, i), chain[i].vElectedCustodian)
           IInv == ShapeInv /\ Backed
<1>1. Init => IInv
  <2> SUFFICES ASSUME Init PROVE IInv
    OBVIOUS
  <2>1. TypeOK /\ Len(chain) = 1
    BY InitShape
  <2>2. 2 .. Len(chain) = {}
    BY <2>1
  <2> QED
    BY <2>1, <2>2 DEF ShapeInv
<1>2. IInv /\ [Next]_vars => IInv'
  <2> SUFFICES ASSUME IInv, [Next]_vars
               PROVE  Backed'
    BY ShapeStep
  <2> DEFINE n == Len(chain)
  <2>1. n \in Nat \ {0} /\ ShapeInv' /\ (Kept \/ \E e : Entered(e) /\ Grown(e))
    BY ShapeStep
  <2>2. \A i \in 2 .. n : ByMajority(GrantVotes(chain', i), chain'[i].vElectedCustodian)
    BY <2>1, MajorityStays
  <2>3. CASE Kept
    <3>1. Len(chain') = n
      BY <2>3 DEF Kept
    <3> QED
      BY <2>2, <3>1
  <2>4. ASSUME NEW e, Entered(e), Grown(e)
        PROVE  Backed'
    <3>1. Len(chain') = n + 1 /\ chain'[n + 1] = e
      BY <2>4 DEF Grown
    <3>2. ByMajority(GrantVotes(chain', n + 1), e.vElectedCustodian)
      BY <2>1, <2>4, EnteredMajority
    <3>3. \A i \in 2 .. n + 1 : i \in 2 .. n \/ i = n + 1
      BY <2>1
    <3> QED
      BY <2>2, <3>1, <3>2, <3>3
  <2> QED
    BY <2>1, <2>3, <2>4
<1>3. IInv => ElectedByMajority
  BY DEF ElectedByMajority, ByMajority, GrantVotes, Before
<1> QED
  BY <1>1, <1>2, <1>3, PTL DEF Spec

--------------------------------------------------------------------------------

\* A loop over the elements of a finite set in increasing order, that ends when those
\* that are left weigh no more than half.
LEMMA VisitEnds ==
  ASSUME NEW V \in SUBSET Nat, IsFiniteSet(V), NEW W \in [SUBSET V -> Nat], NEW half \in Nat,
         W[{}] = 0, \A s, t \in SUBSET V : s \subseteq t => W[s] <= W[t]
  PROVE  LET visit[s \in SUBSET V] ==
                 LET r == Min(s)
                 IN  IF W[s \ {r}] <= half THEN r ELSE visit[s \ {r}]
         IN  \A s \in SUBSET V : W[s] > half =>
                /\ visit[s] \in s
                /\ W[{x \in s : x >= visit[s]}] > half
                /\ W[{x \in s : x > visit[s]}] <= half
<1> DEFINE Step(h) == [s \in SUBSET V |->
                          LET r == Min(s)
                          IN  IF W[s \ {r}] <= half THEN r ELSE h[s \ {r}]]
           Eq(h) == h = Step(h)
           Ends(s) == {x \in s : W[{y \in s : y > x}] <= half}
           g == [s \in SUBSET V |-> Min(Ends(s))]
           visit == CHOOSE h : Eq(h)
<1>1. \A s \in SUBSET V : s # {} => Min(s) \in s /\ \A y \in s : Min(s) <= y
  <2> SUFFICES ASSUME NEW s \in SUBSET V, s # {}
               PROVE  Min(s) \in s /\ \A y \in s : Min(s) <= y
    OBVIOUS
  <2>1. PICK x \in s : \A y \in s : x <= y
    BY LeastNat
  <2> QED
    BY <2>1 DEF Min
<1>2. \A s \in SUBSET V : W[s] \in Nat
  OBVIOUS
<1>3. \A s \in SUBSET V : s # {} =>
         /\ s \ {Min(s)} = {y \in s : y > Min(s)}
         /\ s = {y \in s : y >= Min(s)}
         /\ s \ {Min(s)} \in SUBSET V
  <2> SUFFICES ASSUME NEW s \in SUBSET V, s # {}
               PROVE  /\ s \ {Min(s)} = {y \in s : y > Min(s)}
                      /\ s = {y \in s : y >= Min(s)}
                      /\ s \ {Min(s)} \in SUBSET V
    OBVIOUS
  <2> DEFINE r == Min(s)
  <2>1. r \in s /\ \A y \in s : r <= y
    BY <1>1
  <2>2. \A y \in s : y \in Nat
    OBVIOUS
  <2> HIDE DEF r
  <2>3. \A y \in s : y >= r /\ (y # r <=> y > r)
    BY <2>1, <2>2
  <2>4. s \ {r} = {y \in s : y > r}
    BY <2>3
  <2>5. s = {y \in s : y >= r}
    BY <2>3
  <2> QED
    BY <2>4, <2>5 DEF r
<1>4. \A s \in SUBSET V : g[s] = IF W[s \ {Min(s)}] <= half THEN Min(s) ELSE g[s \ {Min(s)}]
  <2> SUFFICES ASSUME NEW s \in SUBSET V
               PROVE  g[s] = IF W[s \ {Min(s)}] <= half THEN Min(s) ELSE g[s \ {Min(s)}]
    OBVIOUS
  <2> DEFINE r == Min(s)
  <2>1. CASE s = {}
    <3>1. s \ {r} = {} /\ Ends(s) = s
      BY <2>1
    <3>2. W[s \ {r}] <= half
      BY <3>1
    <3> QED
      BY <3>1, <3>2
  <2>2. CASE s # {} /\ W[s \ {r}] <= half
    <3>1. r \in s /\ s \ {r} = {y \in s : y > r} /\ \A y \in s : r <= y
      BY <1>1, <1>3, <2>2
    <3>2. r \in Ends(s) /\ Ends(s) \in SUBSET s
      BY <2>2, <3>1
    <3>3. Ends(s) # {} /\ Ends(s) \in SUBSET V
      BY <3>2
    <3>4. g[s] = Min(Ends(s))
      OBVIOUS
    <3> DEFINE E == Ends(s)
    <3> HIDE DEF E
    <3>5. Min(E) \in E /\ \A y \in E : Min(E) <= y
      BY <1>1, <3>3 DEF E
    <3>6. Min(E) = r
      <4>1. r \in Nat /\ Min(E) \in Nat /\ Min(E) <= r /\ r <= Min(E)
        BY <3>1, <3>2, <3>3, <3>5 DEF E
      <4> QED
        BY <4>1
    <3> QED
      BY <2>2, <3>4, <3>6 DEF E
  <2>3. CASE s # {} /\ ~(W[s \ {r}] <= half)
    <3>1. r \in s /\ s \ {r} = {y \in s : y > r} /\ s \ {r} \in SUBSET V
      BY <1>1, <1>3, <2>3
    <3>t. \A y \in s : y \in Nat
      OBVIOUS
    <3> HIDE DEF r
    <3>2. r \notin Ends(s)
      BY <2>3, <3>1
    <3>3. ASSUME NEW x \in s \ {r}
          PROVE  {y \in s : y > x} = {y \in s \ {r} : y > x}
      <4>1. x \in Nat /\ r \in Nat /\ x > r
        BY <3>1, <3>t
      <4> QED
        BY <4>1
    <3>4. Ends(s) = Ends(s \ {r})
      BY <3>2, <3>3
    <3>5. g[s] = Min(Ends(s)) /\ g[s \ {r}] = Min(Ends(s \ {r}))
      BY <3>1
    <3> HIDE DEF Ends, g
    <3> QED
      BY <2>3, <3>4, <3>5 DEF r
  <2> QED
    BY <2>1, <2>2, <2>3
<1>5. Eq(g)
  <2>1. Step(g) = [s \in SUBSET V |-> g[s]]
    <3> HIDE DEF g
    <3> QED
      BY <1>4
  <2> QED
    BY <2>1
<1> HIDE DEF g
<1>6. Eq(visit)
  <2> HIDE DEF Eq
  <2> QED
    BY <1>5, Zenon
<1> HIDE DEF visit
<1>7. \A s \in SUBSET V : visit[s] = IF W[s \ {Min(s)}] <= half THEN Min(s) ELSE visit[s \ {Min(s)}]
  BY <1>6
<1> DEFINE Good(s) == W[s] > half =>
                        /\ visit[s] \in s
                        /\ W[{x \in s : x >= visit[s]}] > half
                        /\ W[{x \in s : x > visit[s]}] <= half
<1>8. ASSUME NEW w \in SUBSET V, ~Good(w)
      PROVE  FALSE
  <2> DEFINE Bad == {s \in SUBSET V : ~Good(s)}
             Sizes == {Cardinality(s) : s \in Bad}
  <2>1. \A s \in SUBSET V : IsFiniteSet(s) /\ Cardinality(s) \in Nat
    BY FS_Subset, FS_CardinalityType
  <2>2. Sizes \in SUBSET Nat /\ Sizes # {}
    <3> HIDE DEF Good
    <3> QED
      BY <1>8, <2>1
  <2>3. PICK n \in Sizes : \A m \in Sizes : n <= m
    <3> HIDE DEF Sizes
    <3> QED
      BY <2>2, LeastNat
  <2>4. PICK s \in SUBSET V : ~Good(s) /\ Cardinality(s) = n
    <3> HIDE DEF Good
    <3> QED
      BY <2>3
  <2> DEFINE r == Min(s)
             t == s \ {r}
  <2>5. W[s] > half /\ s # {}
    BY <2>4
  <2>6. r \in s /\ t = {y \in s : y > r} /\ s = {y \in s : y >= r} /\ t \in SUBSET V
    BY <1>1, <1>3, <2>4, <2>5
  <2>7. ~(W[t] <= half)
    <3> SUFFICES ASSUME W[t] <= half PROVE FALSE
      OBVIOUS
    <3>1. visit[s] = r
      BY <1>7
    <3> HIDE DEF r
    <3>2. W[{y \in s : y > r}] <= half /\ W[{y \in s : y >= r}] > half
      BY <2>5, <2>6
    <3> QED
      BY <2>4, <2>6, <3>1, <3>2
  <2>8. visit[s] = visit[t]
    BY <1>7, <2>7
  <2> HIDE DEF r
  <2>9. Good(t)
    <3>1. Cardinality(t) = Cardinality(s) - 1
      BY <2>1, <2>4, <2>6, FS_RemoveElement
    <3>2. n \in Nat
      BY <2>2, <2>3
    <3> HIDE DEF Good, t
    <3>3. Cardinality(t) \notin Sizes
      <4> HIDE DEF Sizes
      <4>1. Cardinality(t) \in Nat
        BY <2>1, <2>6
      <4> QED
        BY <2>3, <2>4, <3>1, <3>2, <4>1
    <3> QED
      BY <2>6, <3>3
  <2>10. W[t] \in Nat /\ W[t] > half
    BY <1>2, <2>6, <2>7
  <2>11. /\ visit[t] \in t
         /\ W[{x \in t : x >= visit[t]}] > half
         /\ W[{x \in t : x > visit[t]}] <= half
    BY <2>9, <2>10
  <2> DEFINE v == visit[t]
  <2> HIDE DEF v
  <2>12. v \in Nat /\ r \in Nat /\ v > r /\ v \in s
    <3>1. v \in s /\ v > r
      BY <2>6, <2>11 DEF v
    <3> QED
      BY <2>6, <3>1
  <2>13. {x \in t : x >= v} = {x \in s : x >= v} /\ {x \in t : x > v} = {x \in s : x > v}
    BY <2>12
  <2> HIDE DEF t
  <2> QED
    BY <2>4, <2>8, <2>11, <2>12, <2>13 DEF v
<1>9. \A s \in SUBSET V : Good(s)
  BY <1>8
<1> QED
  BY <1>9 DEF visit

\* More than half of the weight of the votes asks for a rate or for more.
Asked(vVote, d, r) ==
    WeightOf(vVote, {k \in DOMAIN vVote : vVote[k].vParkRate[d] >= r}) > TotalWeight(vVote) \div 2

\* More votes weigh no less.
LEMMA WeightMonotone ==
  ASSUME NEW vVote, Weighted(vVote), NEW A, NEW B, A \subseteq B, B \subseteq DOMAIN vVote
  PROVE  WeightOf(vVote, A) <= WeightOf(vVote, B)
<1> DEFINE f == [i \in B |-> vVote[i].nCoinAgeDestroyed]
<1>1. DOMAIN f = B /\ IsFiniteSet(B)
  BY FS_Subset DEF Weighted
<1>2. Summable(f)
  BY <1>1 DEF Summable, Weighted
<1>3. [i \in A |-> f[i]] = [i \in A |-> vVote[i].nCoinAgeDestroyed]
  OBVIOUS
<1>4. WeightOf(vVote, A) = SumFunction([i \in A |-> f[i]]) /\ WeightOf(vVote, B) = SumFunction(f)
  BY <1>3 DEF WeightOf
<1> HIDE DEF f
<1> DEFINE C == B \ A
<1>5. A \in SUBSET DOMAIN f /\ C \in SUBSET DOMAIN f
  BY <1>1
<1>6. SumFunction(f) = SumFunction([i \in A |-> f[i]]) + SumFunction([i \in C |-> f[i]])
  BY <1>1, <1>2, <1>5, SumSplit
<1>7. SumFunction([i \in A |-> f[i]]) \in Nat /\ SumFunction([i \in C |-> f[i]]) \in Nat
  <2> HIDE DEF C
  <2> QED
    BY <1>2, <1>5, RestrictSummable
<1> DEFINE a == SumFunction([i \in A |-> f[i]])
           c == SumFunction([i \in C |-> f[i]])
<1> HIDE DEF a, c
<1>8. a \in Nat /\ c \in Nat /\ WeightOf(vVote, A) = a /\ WeightOf(vVote, B) = a + c
  BY <1>4, <1>6, <1>7 DEF a, c
<1> QED
  BY <1>8

\* Median is the greatest rate that is asked for.
LEMMA MedianExact ==
  ASSUME NEW vVote, Weighted(vVote), NEW d \in Duration,
         \A i \in DOMAIN vVote : vVote[i].vParkRate \in RateTable
  PROVE  /\ Median(vVote, d) \in Nat
         /\ \A r \in Nat \ {0} : Asked(vVote, d, r) <=> r <= Median(vVote, d)
<1> DEFINE V == VotedRates(vVote, d)
           half == TotalWeight(vVote) \div 2
           W == [s \in SUBSET V |-> WeightOf(vVote, VotesFor(vVote, d, s))]
           Rate(i) == vVote[i].vParkRate[d]
           AtLeast(r) == {i \in DOMAIN vVote : Rate(i) >= r}
           visit[s \in SUBSET V] ==
               LET r == Min(s)
               IN  IF W[s \ {r}] <= half THEN r ELSE visit[s \ {r}]
<1>1. \A i \in DOMAIN vVote : Rate(i) \in Nat \cup {NoRate}
  BY DEF RateTable
<1>2. V \in SUBSET Nat /\ \A i \in DOMAIN vVote : Rate(i) # NoRate => Rate(i) \in V
  BY <1>1 DEF VotedRates
<1>3. IsFiniteSet(V)
  <2> DEFINE T == {Rate(i) : i \in DOMAIN vVote}
             g == [i \in DOMAIN vVote |-> Rate(i)]
  <2>1. g \in Surjection(DOMAIN vVote, T)
    BY DEF Surjection
  <2>2. V \subseteq T
    BY DEF VotedRates
  <2> HIDE DEF g, T, V
  <2>3. IsFiniteSet(T)
    BY <2>1, FS_Surjection DEF Weighted
  <2> QED
    BY <2>2, <2>3, FS_Subset
<1>4. half \in Nat
  <2>1. TotalWeight(vVote) \in Nat
    BY WeightType DEF TotalWeight
  <2> QED
    BY <2>1
<1> HIDE DEF V, half
<1>5. \A s : VotesFor(vVote, d, s) \in SUBSET DOMAIN vVote
  BY DEF VotesFor
<1>6. W \in [SUBSET V -> Nat]
  BY <1>5, WeightType
<1>7. W[{}] = 0
  <2>1. VotesFor(vVote, d, {}) = {}
    BY DEF VotesFor
  <2>2. W[{}] = WeightOf(vVote, {})
    BY <2>1
  <2> DEFINE N == DOMAIN vVote
  <2>3. /\ WeightOf(vVote, {}) \in Nat /\ WeightOf(vVote, N) \in Nat
        /\ WeightOf(vVote, N) = WeightOf(vVote, {}) + WeightOf(vVote, N \ {})
    BY WeightType DEF TotalWeight
  <2>4. N \ {} = N
    OBVIOUS
  <2> HIDE DEF N, W
  <2>5. WeightOf(vVote, {}) = 0
    BY <2>3, <2>4
  <2> QED
    BY <2>2, <2>5
<1>8. \A s, t \in SUBSET V : s \subseteq t => W[s] <= W[t]
  <2> SUFFICES ASSUME NEW s \in SUBSET V, NEW t \in SUBSET V, s \subseteq t
               PROVE  W[s] <= W[t]
    OBVIOUS
  <2>1. VotesFor(vVote, d, s) \subseteq VotesFor(vVote, d, t)
    BY DEF VotesFor
  <2>2. WeightOf(vVote, VotesFor(vVote, d, s)) <= WeightOf(vVote, VotesFor(vVote, d, t))
    BY <1>5, <2>1, WeightMonotone
  <2> QED
    BY <2>2
<1>9. Median(vVote, d) = IF W[V] <= half THEN 0 ELSE visit[V]
  BY DEF Median, V, half
<1>10. \A s \in SUBSET V : W[s] > half =>
                /\ visit[s] \in s
                /\ W[{x \in s : x >= visit[s]}] > half
                /\ W[{x \in s : x > visit[s]}] <= half
  <2> HIDE DEF W
  <2> QED
    BY <1>2, <1>3, <1>4, <1>6, <1>7, <1>8, VisitEnds
<1> HIDE DEF visit
<1>11. \A r \in Nat : AtLeast(r) = VotesFor(vVote, d, {x \in V : x >= r})
  <2> SUFFICES ASSUME NEW r \in Nat
               PROVE  AtLeast(r) = VotesFor(vVote, d, {x \in V : x >= r})
    OBVIOUS
  <2>1. \A i \in DOMAIN vVote : Rate(i) >= r <=> Rate(i) \in {x \in V : x >= r}
    <3> SUFFICES ASSUME NEW i \in DOMAIN vVote
                 PROVE  Rate(i) >= r => Rate(i) \in V
      OBVIOUS
    <3>1. Rate(i) = NoRate => ~(Rate(i) >= r)
      BY DEF NoRate
    <3> QED
      BY <1>2, <3>1
  <2> QED
    BY <2>1 DEF VotesFor
<1>12. \A r \in Nat : Asked(vVote, d, r) <=> W[{x \in V : x >= r}] > half
  <2> SUFFICES ASSUME NEW r \in Nat
               PROVE  Asked(vVote, d, r) <=> W[{x \in V : x >= r}] > half
    OBVIOUS
  <2>1. Asked(vVote, d, r) <=> WeightOf(vVote, AtLeast(r)) > half
    BY DEF Asked, half
  <2>2. W[{x \in V : x >= r}] = WeightOf(vVote, VotesFor(vVote, d, {x \in V : x >= r}))
    OBVIOUS
  <2> HIDE DEF W, AtLeast
  <2> QED
    BY <1>11, <2>1, <2>2
<1> HIDE DEF W
<1>13. CASE W[V] <= half
  <2>1. Median(vVote, d) = 0
    BY <1>9, <1>13
  <2>2. ASSUME NEW r \in Nat \ {0}
        PROVE  ~(W[{x \in V : x >= r}] > half)
    <3> DEFINE s == {x \in V : x >= r}
    <3>1. s \in SUBSET V /\ V \in SUBSET V
      OBVIOUS
    <3> HIDE DEF s
    <3>2. W[s] \in Nat /\ W[V] \in Nat /\ W[s] <= W[V]
      BY <1>6, <1>8, <3>1
    <3>3. ~(W[s] > half)
      BY <1>4, <1>13, <3>2
    <3> QED
      BY <3>3 DEF s
  <2>3. \A r \in Nat \ {0} : ~(r <= 0)
    OBVIOUS
  <2>4. \A r \in Nat \ {0} : ~Asked(vVote, d, r)
    BY <1>12, <2>2
  <2> QED
    BY <2>1, <2>3, <2>4
<1>14. CASE ~(W[V] <= half)
  <2> DEFINE m == visit[V]
  <2>1. Median(vVote, d) = m
    BY <1>9, <1>14
  <2>2. W[V] \in Nat /\ V \in SUBSET V
    BY <1>6
  <2>3. W[V] > half
    BY <1>4, <1>14, <2>2
  <2>4. /\ m \in V /\ m \in Nat
        /\ W[{x \in V : x >= m}] > half
        /\ W[{x \in V : x > m}] <= half
    BY <1>2, <1>10, <2>2, <2>3
  <2> HIDE DEF m
  <2>5. ASSUME NEW r \in Nat \ {0}
        PROVE  W[{x \in V : x >= r}] > half <=> r <= m
    <3> DEFINE s == {x \in V : x >= r}
               t == {x \in V : x >= m}
               u == {x \in V : x > m}
    <3>1. s \in SUBSET V /\ t \in SUBSET V /\ u \in SUBSET V
      OBVIOUS
    <3>2. W[s] \in Nat /\ W[t] \in Nat /\ W[u] \in Nat
      BY <1>6, <3>1
    <3>3. CASE r <= m
      <4>1. t \subseteq s
        <5>1. \A x \in V : x >= m => x >= r
          BY <1>2, <2>4, <3>3
        <5> QED
          BY <5>1
      <4>2. W[t] <= W[s]
        BY <1>8, <3>1, <4>1
      <4>3. W[t] > half
        BY <2>4
      <4> HIDE DEF s, t
      <4>4. W[s] > half
        BY <1>4, <3>2, <4>2, <4>3
      <4> QED
        BY <3>3, <4>4 DEF s
    <3>4. CASE ~(r <= m)
      <4>1. s \subseteq u
        <5>1. \A x \in V : x >= r => x > m
          BY <1>2, <2>4, <3>4
        <5> QED
          BY <5>1
      <4>2. W[s] <= W[u]
        BY <1>8, <3>1, <4>1
      <4>3. W[u] <= half
        BY <2>4
      <4> HIDE DEF s, u
      <4>4. ~(W[s] > half)
        BY <1>4, <3>2, <4>2, <4>3
      <4> QED
        BY <3>4, <4>4 DEF s
    <3> QED
      BY <3>3, <3>4
  <2> QED
    BY <1>12, <2>1, <2>4, <2>5
<1> QED
  BY <1>13, <1>14

\* What RateBackedByVotes asks of a rate and of the one before it.
Follows(vVote, d, rate, previous, isV2) ==
    /\ rate > previous => Asked(vVote, d, rate)
    /\ rate < previous /\ isV2 => ~Asked(vVote, d, previous)
    /\ rate > 0 /\ ~isV2 => Asked(vVote, d, rate)

\* It depends on the weights and on the rates voted for.
LEMMA FollowsAlike ==
  ASSUME NEW v, NEW w, NEW d, NEW rate, NEW previous, NEW isV2, DOMAIN v = DOMAIN w,
         \A k \in DOMAIN v : /\ v[k].nCoinAgeDestroyed = w[k].nCoinAgeDestroyed
                             /\ v[k].vParkRate = w[k].vParkRate,
         Follows(v, d, rate, previous, isV2)
  PROVE  Follows(w, d, rate, previous, isV2)
<1>1. \A A \in SUBSET DOMAIN v : WeightOf(v, A) = WeightOf(w, A)
  <2> SUFFICES ASSUME NEW A \in SUBSET DOMAIN v
               PROVE  WeightOf(v, A) = WeightOf(w, A)
    OBVIOUS
  <2>1. [i \in A |-> v[i].nCoinAgeDestroyed] = [i \in A |-> w[i].nCoinAgeDestroyed]
    OBVIOUS
  <2> QED
    BY <2>1 DEF WeightOf
<1>2. TotalWeight(v) = TotalWeight(w)
  BY <1>1 DEF TotalWeight
<1>3. ASSUME NEW r
      PROVE  Asked(v, d, r) <=> Asked(w, d, r)
  <2> DEFINE A == {k \in DOMAIN v : v[k].vParkRate[d] >= r}
  <2>1. A = {k \in DOMAIN w : w[k].vParkRate[d] >= r} /\ A \in SUBSET DOMAIN v
    OBVIOUS
  <2> HIDE DEF A
  <2>2. WeightOf(v, A) = WeightOf(w, A)
    BY <1>1, <2>1
  <2> QED
    BY <1>2, <2>1, <2>2 DEF Asked, A
<1> QED
  BY <1>3 DEF Follows

\* What is voted for a duration is the median, where there is one.
LEMMA VotedMedian ==
  ASSUME NEW vVote, NEW d \in Duration, Median(vVote, d) \in Nat
  PROVE  LET voted == CalculateParkRateVote(vVote)
         IN  /\ voted[d] = IF Median(vVote, d) = 0 THEN NoRate ELSE Median(vVote, d)
             /\ RateOf(voted, d) = Median(vVote, d)
<1>1. CalculateParkRateVote(vVote)[d] = IF Median(vVote, d) = 0 THEN NoRate ELSE Median(vVote, d)
  BY DEF CalculateParkRateVote
<1> QED
  BY <1>1 DEF RateOf, NoRate

\* LimitParkRateChangeV2_0 moves a rate toward the median.
LEMMA LimitFollows ==
  ASSUME NEW vVote, Weighted(vVote), NEW d \in Duration,
         \A i \in DOMAIN vVote : vVote[i].vParkRate \in RateTable,
         NEW previous \in RateTable, RateOf(previous, d) < UIntRange,
         NEW result \in RateTable,
         result = LimitParkRateChangeV2_0(CalculateParkRateVote(vVote), previous)
  PROVE  Follows(vVote, d, RateOf(result, d), RateOf(previous, d), TRUE)
<1> DEFINE p == RateOf(previous, d)
           voted == CalculateParkRateVote(vVote)
           m == Median(vVote, d)
           rate == RateOf(result, d)
<1>1. p \in Nat
  BY DEF RateOf, RateTable, NoRate
<1>2. StoredRate(previous, d) = p
  BY <1>1, RateAssumption DEF StoredRate
<1>3. result[d] = LimitRate(voted, previous, d) /\ result[d] \in Nat \cup {NoRate}
  BY DEF LimitParkRateChangeV2_0, RateTable
<1>4. MaxIncrease(d) \in Nat /\ MaxDecrease(d) \in Nat
  BY LimitType
<1>5. m \in Nat /\ \A r \in Nat \ {0} : Asked(vVote, d, r) <=> r <= m
  BY MedianExact
<1>6. RateOf(voted, d) = m
  BY <1>5, VotedMedian
<1>7. rate \in Nat
  BY <1>3 DEF RateOf, NoRate
<1>8. /\ rate > p => rate <= m
      /\ rate < p => m < p
  <2> HIDE DEF p, m, voted
  <2>1. CASE m > p + MaxIncrease(d)
    <3>1. result[d] = p + MaxIncrease(d)
      BY <1>2, <1>3, <1>6, <2>1 DEF LimitRate
    <3>2. rate = p + MaxIncrease(d)
      BY <1>1, <1>4, <3>1 DEF RateOf, NoRate
    <3> HIDE DEF rate
    <3> QED
      BY <1>1, <1>4, <1>5, <2>1, <3>2
  <2>2. CASE ~(m > p + MaxIncrease(d)) /\ m < p - MaxDecrease(d)
    <3>1. result[d] = p - MaxDecrease(d)
      BY <1>2, <1>3, <1>6, <2>2 DEF LimitRate
    <3>2. rate = p - MaxDecrease(d)
      BY <1>1, <1>3, <1>4, <1>5, <2>2, <3>1 DEF RateOf, NoRate
    <3> HIDE DEF rate
    <3> QED
      BY <1>1, <1>4, <1>5, <2>2, <3>2
  <2>3. CASE ~(m > p + MaxIncrease(d)) /\ ~(m < p - MaxDecrease(d))
    <3>1. result[d] = voted[d]
      BY <1>2, <1>3, <1>6, <2>3 DEF LimitRate
    <3>2. rate = m
      BY <1>6, <3>1 DEF RateOf
    <3> QED
      BY <1>1, <1>5, <3>2
  <2> QED
    BY <2>1, <2>2, <2>3
<1> HIDE DEF p, m, rate
<1>9. rate > p => Asked(vVote, d, rate)
  BY <1>1, <1>5, <1>7, <1>8
<1>10. rate < p => ~Asked(vVote, d, p)
  BY <1>1, <1>5, <1>7, <1>8
<1> QED
  BY <1>9, <1>10 DEF Follows, p, rate

\* The least of the previous rates is a number.
LEMMA PreviousMinType ==
  ASSUME NEW vPrevious, NEW d \in Duration, DOMAIN vPrevious \subseteq Nat,
         \A k \in DOMAIN vPrevious : vPrevious[k] \in RateTable
  PROVE  PreviousMin(vPrevious, d) \in Nat
<1> DEFINE named == NamedPlaces(vPrevious, d)
           first == Min(named)
           rates == {vPrevious[first][d] % UIntRange} \cup
                    {vPrevious[i][d] : i \in named \ {first}}
<1>1. CASE named = {}
  BY <1>1 DEF PreviousMin
<1>2. CASE named # {}
  <2>1. \A i \in named : vPrevious[i][d] \in Nat
    BY DEF NamedPlaces, RateTable
  <2>2. named \in SUBSET Nat
    BY DEF NamedPlaces
  <2>3. PreviousMin(vPrevious, d) = Min(rates)
    BY <1>2 DEF PreviousMin
  <2> HIDE DEF named
  <2>4. first \in named
    <3>1. PICK x \in named : \A y \in named : x <= y
      BY <1>2, <2>2, LeastNat
    <3> QED
      BY <3>1 DEF Min
  <2>5. vPrevious[first][d] % UIntRange \in Nat
    BY <2>1, <2>4, RateAssumption
  <2> HIDE DEF first
  <2>6. rates \in SUBSET Nat /\ rates # {}
    BY <2>1, <2>5
  <2> HIDE DEF rates
  <2>7. PICK x \in rates : \A y \in rates : x <= y
    BY <2>6, LeastNat
  <2>8. Min(rates) \in rates
    BY <2>7 DEF Min
  <2> QED
    BY <2>3, <2>6, <2>8
<1> QED
  BY <1>1, <1>2

\* LimitParkRateChangeV0_5 yields no more than the median.
LEMMA LimitFollowsV0_5 ==
  ASSUME NEW vVote, Weighted(vVote), NEW d \in Duration,
         \A i \in DOMAIN vVote : vVote[i].vParkRate \in RateTable,
         NEW vPrevious, DOMAIN vPrevious \subseteq Nat,
         \A k \in DOMAIN vPrevious : vPrevious[k] \in RateTable,
         NEW previous \in Nat, NEW result \in RateTable,
         result = LimitParkRateChangeV0_5(CalculateParkRateVote(vVote), vPrevious)
  PROVE  Follows(vVote, d, RateOf(result, d), previous, FALSE)
<1> DEFINE voted == CalculateParkRateVote(vVote)
           m == Median(vVote, d)
           rate == RateOf(result, d)
           limit == PreviousMin(vPrevious, d) + MaxIncreaseV0_5(d)
<1>1. m \in Nat /\ \A r \in Nat \ {0} : Asked(vVote, d, r) <=> r <= m
  BY MedianExact
<1>2. voted[d] = IF m = 0 THEN NoRate ELSE m
  BY <1>1, VotedMedian
<1>3. limit \in Nat
  BY PreviousMinType, LimitTypeV0_5
<1> HIDE DEF voted
<1>4. result[d] = (IF voted[d] > limit THEN limit ELSE voted[d]) /\ result[d] \in Nat \cup {NoRate}
  BY DEF LimitParkRateChangeV0_5, RateTable, voted
<1> HIDE DEF m, limit
<1>5. rate \in Nat /\ (rate > 0 => rate <= m)
  BY <1>1, <1>2, <1>3, <1>4 DEF RateOf, NoRate
<1> HIDE DEF rate
<1>6. rate > 0 => Asked(vVote, d, rate)
  BY <1>1, <1>5
<1>7. rate > previous => rate > 0
  BY <1>5
<1> QED
  BY <1>6, <1>7 DEF Follows, rate

\* What RateBackedByVotes asks of the block at place i of a chain.
RatesFollow(c, i) ==
    \A d \in Duration :
        LET previous == RateOf(c[i - 1].vParkRateResult, d)
        IN  c[i].fProofOfStake /\ previous < UIntRange =>
                Follows(ParkVotes(SubSeq(c, 1, i - 1), c[i]), d,
                        RateOf(c[i].vParkRateResult, d), previous,
                        c[i].nProtocolVersion = PROTOCOL_V2_0)

\* The rates of a block that enters follow the votes.
LEMMA EnteredFollows ==
  ASSUME ShapeInv, ShapeInv', NEW e, Entered(e), Grown(e)
  PROVE  RatesFollow(chain', Len(chain) + 1)
<1> DEFINE n == Len(chain)
           c == SubSeq(chain', 1, n)
<1>1. /\ n \in Nat \ {0} /\ chain \in Seq(IndexType) /\ n \in 1 .. n
      /\ chain'[n + 1] = e /\ chain'[n] = chain[n] /\ (n + 1) - 1 = n
      /\ e \in IndexType /\ e.vParkRateResult \in RateTable
  BY ElementType, FieldTypes DEF ShapeInv, TypeOK, Grown, Entered
<1> SUFFICES ASSUME NEW d \in Duration, e.fProofOfStake,
                    RateOf(chain[n].vParkRateResult, d) < UIntRange
             PROVE  Follows(ParkVotes(c, e), d, RateOf(e.vParkRateResult, d),
                            RateOf(chain[n].vParkRateResult, d),
                            e.nProtocolVersion = PROTOCOL_V2_0)
  BY <1>1 DEF RatesFollow
<1> DEFINE nVersion == GetProtocolForNextBlock(chain)
<1>2. PICK b \in BlockInput :
          LET vote == ExtractVote(b, nVersion)
          IN  /\ Alike(vote, e) /\ vote.nCoinAgeDestroyed \in Nat
              /\ vote.vParkRate \in RateTable
              /\ e.vParkRateResult = CalculateParkRateResults(chain, vote, nVersion)
  BY EnteredStake
<1> DEFINE vote == ExtractVote(b, nVersion)
           votes == ParkVotes(chain, vote)
           result == e.vParkRateResult
           previous == chain[n].vParkRateResult
<1>3. e.nProtocolVersion = nVersion /\ nVersion \in {PROTOCOL_V0_5, PROTOCOL_V2_0}
  BY VersionType DEF Entered
<1> HIDE DEF vote, nVersion
<1>4. Weighted(votes)
  BY <1>1, <1>2, VotesOnWeighted, VoteAssumption DEF ParkVotes, vote
<1>5. \A i \in DOMAIN votes : votes[i].vParkRate \in RateTable
  <2>1. \A k \in 1 .. n : chain[k].vParkRate \in RateTable
    BY ElementType DEF ShapeInv, IndexType
  <2>2. votes[n + 1] = vote /\ \A k \in DOMAIN votes \ {n + 1} : k \in 1 .. n /\ votes[k] = chain[k]
    BY <1>1, VotesOnShape, VoteAssumption DEF ParkVotes
  <2>3. vote.vParkRate \in RateTable
    BY <1>2 DEF vote
  <2> HIDE DEF n, votes
  <2> QED
    BY <2>1, <2>2, <2>3
<1>6. previous \in RateTable
  BY <1>1, ElementType, FieldTypes DEF ShapeInv
<1>7. result = CalculateParkRateResults(chain, vote, nVersion)
  BY <1>2 DEF vote
<1>8. RateOf(previous, d) \in Nat
  BY <1>6 DEF RateOf, RateTable, NoRate
<1>9. Follows(votes, d, RateOf(result, d), RateOf(previous, d), nVersion = PROTOCOL_V2_0)
  <2>1. CASE nVersion = PROTOCOL_V2_0
    <3>1. result = LimitParkRateChangeV2_0(CalculateParkRateVote(votes), previous)
      BY <1>7, <2>1 DEF CalculateParkRateResults, PROTOCOL_V2_0
    <3>2. Follows(votes, d, RateOf(result, d), RateOf(previous, d), TRUE)
      <4> HIDE DEF votes, result, previous
      <4> QED
        BY <1>1, <1>4, <1>5, <1>6, <3>1, LimitFollows DEF result, previous
    <3> QED
      BY <2>1, <3>2 DEF Follows
  <2>2. CASE nVersion = PROTOCOL_V0_5
    <3>1. result = LimitParkRateChangeV0_5(CalculateParkRateVote(votes), PreviousResults)
      BY <1>7, <2>2 DEF CalculateParkRateResults, PreviousResults, PROTOCOL_V0_5, PROTOCOL_V2_0
    <3>2. Follows(votes, d, RateOf(result, d), RateOf(previous, d), FALSE)
      <4> HIDE DEF votes, result, previous
      <4>1. result \in RateTable
        BY <1>1 DEF result
      <4> QED
        BY <1>4, <1>5, <1>8, <3>1, <4>1, PreviousType, LimitFollowsV0_5
    <3>3. nVersion # PROTOCOL_V2_0
      BY <2>2 DEF PROTOCOL_V0_5, PROTOCOL_V2_0
    <3> QED
      BY <3>2, <3>3 DEF Follows
  <2> QED
    BY <1>3, <2>1, <2>2
<1>10. /\ c \in Seq(IndexType) /\ Len(c) = n
       /\ \A k \in 1 .. n : chain[k].fProofOfStake = c[k].fProofOfStake /\ Alike(chain[k], c[k])
  <2>1. SubSeq(chain, 1, n) = chain
    BY <1>1, SubSeqFull
  <2>2. n <= Len(chain) /\ n \in Nat
    BY <1>1
  <2>3. Kept \/ \E a : Grown(a)
    OBVIOUS
  <2>4. /\ c \in Seq(IndexType) /\ Len(c) = n
        /\ \A k \in 1 .. n :
              /\ SubSeq(chain, 1, n)[k].fProofOfStake = c[k].fProofOfStake
              /\ Alike(SubSeq(chain, 1, n)[k], c[k])
    BY <2>2, <2>3, PrefixAlike
  <2> QED
    BY <2>1, <2>4
<1> HIDE DEF c
<1>11. /\ DOMAIN votes = DOMAIN ParkVotes(c, e)
       /\ \A k \in DOMAIN votes : Alike(votes[k], ParkVotes(c, e)[k])
  <2>1. PARK_RATE_VOTES \in Nat
    BY VoteAssumption
  <2>2. Alike(vote, e)
    BY <1>2 DEF vote
  <2> QED
    BY <1>1, <1>10, <2>1, <2>2, VotesOnAlike DEF ParkVotes
<1> HIDE DEF votes, result, previous
<1>12. Follows(ParkVotes(c, e), d, RateOf(result, d), RateOf(previous, d), nVersion = PROTOCOL_V2_0)
  BY <1>9, <1>11, FollowsAlike DEF Alike
<1> QED
  BY <1>3, <1>12 DEF result, previous

\* The rates of a block keep following the votes that decided them.
LEMMA FollowsStays ==
  ASSUME ShapeInv, ShapeInv', Kept \/ \E e : Grown(e), NEW i \in 2 .. Len(chain),
         RatesFollow(chain, i)
  PROVE  RatesFollow(chain', i)
<1> DEFINE m == i - 1
           c == SubSeq(chain, 1, m)
           d == SubSeq(chain', 1, m)
<1>1. Len(chain) \in Nat /\ m \in Nat /\ m <= Len(chain) /\ i \in 1 .. Len(chain) /\ m \in 1 .. Len(chain)
  BY ElementType DEF ShapeInv
<1>2. /\ c \in Seq(IndexType) /\ d \in Seq(IndexType) /\ Len(c) = Len(d)
      /\ \A k \in 1 .. Len(c) : c[k].fProofOfStake = d[k].fProofOfStake /\ Alike(c[k], d[k])
  BY <1>1, PrefixAlike
<1>3. Reloaded(chain[i], chain'[i]) /\ Reloaded(chain[m], chain'[m])
  BY <1>1, IndicesStay
<1>4. Alike(chain[i], chain'[i])
  BY <1>3 DEF Alike, Reloaded
<1> DEFINE v == ParkVotes(c, chain[i])
           w == ParkVotes(d, chain'[i])
<1> HIDE DEF c, d
<1>5. DOMAIN v = DOMAIN w /\ \A k \in DOMAIN v : Alike(v[k], w[k])
  BY <1>2, <1>4, VotesOnAlike, VoteAssumption DEF ParkVotes
<1> HIDE DEF v, w
<1>6. SUFFICES ASSUME NEW t \in Duration, chain'[i].fProofOfStake,
                      RateOf(chain'[m].vParkRateResult, t) < UIntRange
               PROVE  Follows(w, t, RateOf(chain'[i].vParkRateResult, t),
                              RateOf(chain'[m].vParkRateResult, t),
                              chain'[i].nProtocolVersion = PROTOCOL_V2_0)
  BY DEF RatesFollow, w, d
<1>7. /\ chain'[i].vParkRateResult = chain[i].vParkRateResult
      /\ chain'[m].vParkRateResult = chain[m].vParkRateResult
      /\ chain'[i].nProtocolVersion = chain[i].nProtocolVersion
      /\ chain'[i].fProofOfStake = chain[i].fProofOfStake
  BY <1>3 DEF Reloaded
<1>8. Follows(v, t, RateOf(chain[i].vParkRateResult, t), RateOf(chain[m].vParkRateResult, t),
              chain[i].nProtocolVersion = PROTOCOL_V2_0)
  BY <1>6, <1>7 DEF RatesFollow, v, c
<1>9. Follows(w, t, RateOf(chain[i].vParkRateResult, t), RateOf(chain[m].vParkRateResult, t),
              chain[i].nProtocolVersion = PROTOCOL_V2_0)
  BY <1>5, <1>8, FollowsAlike DEF Alike
<1> QED
  BY <1>7, <1>9

\* The rates follow the votes, for every window, every weight of the votes and every
\* limit.
THEOREM RatesFollowVotes == Spec => []RateBackedByVotes
<1> DEFINE Backed == \A i \in 2 .. Len(chain) : RatesFollow(chain, i)
           IInv == ShapeInv /\ Backed
<1>1. Init => IInv
  <2> SUFFICES ASSUME Init PROVE IInv
    OBVIOUS
  <2>1. TypeOK /\ Len(chain) = 1
    BY InitShape
  <2>2. 2 .. Len(chain) = {}
    BY <2>1
  <2> QED
    BY <2>1, <2>2 DEF ShapeInv
<1>2. IInv /\ [Next]_vars => IInv'
  <2> SUFFICES ASSUME IInv, [Next]_vars
               PROVE  Backed'
    BY ShapeStep
  <2> DEFINE n == Len(chain)
  <2>1. n \in Nat \ {0} /\ ShapeInv' /\ (Kept \/ \E e : Entered(e) /\ Grown(e))
    BY ShapeStep
  <2>2. \A i \in 2 .. n : RatesFollow(chain', i)
    BY <2>1, FollowsStays
  <2>3. CASE Kept
    <3>1. Len(chain') = n
      BY <2>3 DEF Kept
    <3> QED
      BY <2>2, <3>1
  <2>4. ASSUME NEW e, Entered(e), Grown(e)
        PROVE  Backed'
    <3>1. Len(chain') = n + 1
      BY <2>4 DEF Grown
    <3>2. RatesFollow(chain', n + 1)
      BY <2>1, <2>4, EnteredFollows
    <3>3. \A i \in 2 .. n + 1 : i \in 2 .. n \/ i = n + 1
      BY <2>1
    <3> QED
      BY <2>2, <3>1, <3>2, <3>3
  <2> QED
    BY <2>1, <2>3, <2>4
<1>3. IInv => RateBackedByVotes
  BY DEF RateBackedByVotes, RatesFollow, Follows, Asked, Before, IsStake, IsV2
<1> QED
  BY <1>1, <1>2, <1>3, PTL DEF Spec

--------------------------------------------------------------------------------
\* Premiums.

\* Products and quotients of numbers grow with them.
LEMMA ProductMono ==
  ASSUME NEW x \in Nat, NEW y \in Nat, NEW m \in Nat, x <= y
  PROVE  x * m \in Nat /\ m * x = x * m /\ x * m <= y * m
<1>1. PICK k \in Nat : y = x + k
  BY y - x \in Nat, y = x + (y - x)
<1>2. y * m = x * m + k * m /\ k * m >= 0 /\ x * m >= 0
  BY <1>1
<1> QED
  BY <1>2

LEMMA QuotientOf ==
  ASSUME NEW x \in Nat, NEW m \in Nat \ {0}
  PROVE  x \div m \in Nat /\ (x \div m) * m <= x /\ x < (x \div m) * m + m
  OBVIOUS

LEMMA QuotientAtMost ==
  ASSUME NEW x \in Nat, NEW m \in Nat \ {0}, NEW r \in Nat, x < r * m + m
  PROVE  x \div m \in 0 .. r
<1> DEFINE q == x \div m
<1>1. q \in Nat /\ q * m <= x
  BY QuotientOf
<1> HIDE DEF q
<1>2. CASE q > r
  <2>1. (r + 1) * m <= q * m
    BY <1>1, <1>2, ProductMono
  <2>2. (r + 1) * m = r * m + m /\ r * m \in Nat /\ q * m \in Nat
    BY <1>1
  <2> QED
    BY <1>1, <2>1, <2>2
<1> QED
  BY <1>1, <1>2 DEF q

LEMMA QuotientMono ==
  ASSUME NEW x \in Nat, NEW y \in Nat, NEW m \in Nat \ {0}, x <= y
  PROVE  x \div m \in Nat /\ x \div m <= y \div m
<1>1. y \div m \in Nat /\ y < (y \div m) * m + m /\ x \div m \in Nat
  BY QuotientOf
<1> DEFINE r == y \div m
<1>2. r \in Nat /\ x < r * m + m
  <2>1. r * m \in Nat
    BY <1>1
  <2> HIDE DEF r
  <2> QED
    BY <1>1, <2>1 DEF r
<1> HIDE DEF r
<1>3. x \div m \in 0 .. r
  BY <1>2, QuotientAtMost
<1> QED
  BY <1>1, <1>3 DEF r

\* The rate that GetPremium finds for a number of blocks.
RateFor(table, n) ==
    LET exact == {d \in Named(table) : CompactDurationToDuration(d) = n}
        below == {d \in Named(table) : CompactDurationToDuration(d) < n}
        above == {d \in Named(table) : CompactDurationToDuration(d) > n}
    IN  CASE exact # {} -> table[Min(exact)]
          [] exact = {} /\ below # {} /\ above # {} ->
                Interpolated(table, Max(below), Min(above), n)
          [] OTHER -> 0

\* What a value earns at a rate.
Earned(nValue, rate) == (nValue * rate) \div COIN_PARK_RATE

LEMMA PremiumOfRate ==
  ASSUME NEW nValue, NEW n, NEW table
  PROVE  GetPremium(nValue, n, table) =
            IF /\ MoneyRange(nValue) /\ ParkDurationRange(n)
               /\ MoneyRange(Earned(nValue, RateFor(table, n)))
            THEN Earned(nValue, RateFor(table, n)) ELSE 0
  BY DEF GetPremium, RateFor, Earned

\* Longer durations are longer.
LEMMA DurationOrder ==
  ASSUME NEW d \in Duration, NEW e \in Duration
  PROVE  /\ d \in Nat /\ e \in Nat
         /\ CompactDurationToDuration(d) \in Nat /\ ParkDurationRange(CompactDurationToDuration(d))
         /\ CompactDurationToDuration(d) < CompactDurationToDuration(e) <=> d < e
         /\ CompactDurationToDuration(d) = CompactDurationToDuration(e) <=> d = e
<1>1. /\ d \in Nat /\ e \in Nat
      /\ CompactDurationToDuration(d) \in 1 .. MAX_PARK_DURATION
      /\ CompactDurationToDuration(e) \in 1 .. MAX_PARK_DURATION
      /\ d < e => CompactDurationToDuration(d) < CompactDurationToDuration(e)
      /\ e < d => CompactDurationToDuration(e) < CompactDurationToDuration(d)
  BY ShiftAssumption, DurationAssumption
<1>2. MAX_PARK_DURATION \in Nat
  BY RateAssumption
<1> DEFINE p == CompactDurationToDuration(d)
           q == CompactDurationToDuration(e)
<1>3. d = e => p = q
  OBVIOUS
<1>4. ParkDurationRange(p)
  BY <1>1, <1>2 DEF ParkDurationRange
<1> HIDE DEF p, q
<1>5. /\ p \in Nat /\ q \in Nat /\ (d < e => p < q) /\ (e < d => q < p)
  BY <1>1, <1>2 DEF p, q
<1>6. (p < q <=> d < e) /\ (p = q <=> d = e)
  BY <1>1, <1>3, <1>5
<1> QED
  BY <1>1, <1>4, <1>5, <1>6 DEF p, q

\* A duration that has a rate gets it.
LEMMA RateOfNamed ==
  ASSUME NEW table, NEW a \in Named(table)
  PROVE  RateFor(table, CompactDurationToDuration(a)) = table[a]
<1> DEFINE exact == {d \in Named(table) : CompactDurationToDuration(d) = CompactDurationToDuration(a)}
<1>1. exact = {a}
  BY DurationOrder DEF Named
<1>2. a \in Nat
  BY DurationOrder DEF Named
<1>3. Min({a}) = a
  BY <1>2 DEF Min
<1> QED
  BY <1>1, <1>3 DEF RateFor

\* Between two durations that have a rate, and none between them, the rates of these two
\* are interpolated.
LEMMA RateOfUnnamed ==
  ASSUME NEW table, NEW a \in Named(table), NEW b \in Named(table),
         {d \in Named(table) : a < d /\ d < b} = {},
         NEW n \in Nat, CompactDurationToDuration(a) < n, n < CompactDurationToDuration(b)
  PROVE  RateFor(table, n) = Interpolated(table, a, b, n)
<1> DEFINE P(d) == CompactDurationToDuration(d)
           exact == {d \in Named(table) : P(d) = n}
           below == {d \in Named(table) : P(d) < n}
           above == {d \in Named(table) : P(d) > n}
<1>1. \A d, e \in Named(table) : /\ d \in Nat /\ P(d) \in Nat
                                 /\ P(d) < P(e) <=> d < e
  BY DurationOrder DEF Named
<1> HIDE DEF P
<1>2. P(a) < n /\ n < P(b)
  BY DEF P
<1>3. \A d \in Named(table) : d <= a \/ b <= d
  BY <1>1
<1>4. \A d \in Named(table) : (d <= a => P(d) <= P(a)) /\ (b <= d => P(b) <= P(d))
  BY <1>1
<1>5. \A d \in Named(table) : P(d) # n /\ (P(d) < n => d <= a) /\ (P(d) > n => b <= d)
  BY <1>1, <1>2, <1>3, <1>4
<1>6. exact = {} /\ a \in below /\ b \in above
  BY <1>2, <1>5
<1>7. (\A d \in below : d \in Nat /\ d <= a) /\ (\A d \in above : d \in Nat /\ b <= d)
  BY <1>1, <1>5
<1> HIDE DEF exact, below, above
<1>8. Max(below) = a
  <2>1. a \in below /\ \A d \in below : a >= d
    BY <1>6, <1>7
  <2>2. Max(below) \in below /\ \A d \in below : Max(below) >= d
    BY <2>1 DEF Max
  <2> QED
    BY <1>7, <2>1, <2>2
<1>9. Min(above) = b
  <2>1. b \in above /\ \A d \in above : b <= d
    BY <1>6, <1>7
  <2>2. Min(above) \in above /\ \A d \in above : Min(above) <= d
    BY <2>1 DEF Min
  <2> QED
    BY <1>7, <2>1, <2>2
<1> QED
  BY <1>6, <1>8, <1>9 DEF RateFor, exact, below, above, P

\* An interpolated rate lies between the two.
LEMMA InterpolatedBetween ==
  ASSUME NEW ra \in Nat, NEW rb \in Nat, NEW p \in Nat, NEW q \in Nat, NEW n \in Nat,
         p < n, n < q
  PROVE  LET r == ra + Quotient((n - p) * (rb - ra), q - p)
         IN  /\ r \in Nat
             /\ ra <= rb => ra <= r /\ r <= rb
             /\ rb <= ra => rb <= r /\ r <= ra
<1> DEFINE k == n - p
           m == q - p
<1>1. k \in Nat /\ m \in Nat \ {0} /\ k <= m
  OBVIOUS
<1> HIDE DEF k, m
<1>2. ASSUME NEW D \in Nat
      PROVE  k * D \in Nat /\ (k * D) \div m \in 0 .. D
  <2>1. k * D \in Nat /\ k * D <= m * D /\ m * D = D * m /\ D * m \in Nat
    BY <1>1, ProductMono
  <2>2. k * D < D * m + m
    BY <1>1, <2>1
  <2> QED
    BY <1>1, <2>1, <2>2, QuotientAtMost
<1>3. CASE ra <= rb
  <2>1. rb - ra \in Nat
    BY <1>3
  <2>2. k * (rb - ra) \in Nat /\ (k * (rb - ra)) \div m \in 0 .. (rb - ra)
    BY <1>2, <2>1
  <2>3. Quotient(k * (rb - ra), m) = (k * (rb - ra)) \div m
    BY <2>2 DEF Quotient
  <2> DEFINE x == Quotient(k * (rb - ra), m)
  <2>4. x \in 0 .. (rb - ra)
    BY <2>2, <2>3
  <2> HIDE DEF x
  <2>5. ra + x \in Nat /\ ra <= ra + x /\ ra + x <= rb /\ (rb <= ra => ra + x = ra /\ rb = ra)
    BY <1>3, <2>4
  <2> QED
    BY <2>5 DEF x, k, m
<1>4. CASE rb < ra
  <2>1. ra - rb \in Nat \ {0}
    BY <1>4
  <2> DEFINE D == ra - rb
             y == k * D
  <2>2. y \in Nat /\ y \div m \in 0 .. D
    BY <1>2, <2>1
  <2>3. k * (rb - ra) = -y
    <3>1. rb - ra = -D /\ D \in Int /\ k \in Int
      BY <1>1
    <3> HIDE DEF D
    <3> QED
      BY <3>1
  <2> HIDE DEF y
  <2>4. Quotient(-y, m) = -(y \div m)
    <3>1. CASE y = 0
      <4>1. 0 < 0 * m + m
        BY <1>1
      <4>2. 0 \div m \in 0 .. 0
        BY <1>1, <4>1, QuotientAtMost
      <4>3. 0 \div m = 0
        BY <4>2
      <4>4. -y = 0
        <5>1. \A z \in Int : z <= 0 /\ z >= 0 => -z = 0
          OBVIOUS
        <5>2. y \in Int /\ y <= 0 /\ y >= 0
          BY <2>2, <3>1
        <5> QED
          BY <5>1, <5>2
      <4> QED
        BY <3>1, <4>3, <4>4 DEF Quotient
    <3>2. CASE y # 0
      <4>1. ~(-y >= 0) /\ -(-y) = y
        BY <2>2, <3>2
      <4> QED
        BY <4>1 DEF Quotient
    <3> QED
      BY <3>1, <3>2
  <2> DEFINE x == y \div m
  <2>5. x \in 0 .. (ra - rb) /\ Quotient(k * (rb - ra), m) = -x
    BY <2>2, <2>3, <2>4
  <2> HIDE DEF x
  <2>6. /\ ra + (-x) \in Nat /\ rb <= ra + (-x) /\ ra + (-x) <= ra /\ ~(ra <= rb)
    BY <1>4, <2>5
  <2> QED
    BY <2>5, <2>6 DEF k, m
<1> QED
  BY <1>3, <1>4

\* What is earned grows with the rate.
LEMMA EarnedMono ==
  ASSUME NEW nValue \in Nat, NEW r \in Nat, NEW s \in Nat, r <= s
  PROVE  Earned(nValue, r) \in Nat /\ Earned(nValue, r) <= Earned(nValue, s)
<1>1. nValue * r \in Nat /\ nValue * s \in Nat /\ nValue * r <= nValue * s
  BY ProductMono
<1> QED
  BY <1>1, RateAssumption, QuotientMono DEF Earned

\* Parking for a duration between two that have a rate earns something between what these
\* earn, for every table of rates and every value for which both are amounts: neither the
\* interpolation nor the two divisions that truncate leave the interval.
THEOREM PremiumsInterpolate ==
  ASSUME NEW table \in RateTable, NEW nValue \in Nat,
         NEW a \in Named(table), NEW b \in Named(table),
         {d \in Named(table) : a < d /\ d < b} = {},
         MoneyRange(Earned(nValue, table[a])), MoneyRange(Earned(nValue, table[b])),
         NEW n \in CompactDurationToDuration(a) .. CompactDurationToDuration(b)
  PROVE  LET earns(k) == GetPremium(nValue, k, table)
             atA == earns(CompactDurationToDuration(a))
             atB == earns(CompactDurationToDuration(b))
         IN  /\ {atA, atB, earns(n)} \subseteq Nat
             /\ \/ atA <= earns(n) /\ earns(n) <= atB
                \/ atB <= earns(n) /\ earns(n) <= atA
<1> DEFINE p == CompactDurationToDuration(a)
           q == CompactDurationToDuration(b)
           ra == table[a]
           rb == table[b]
           r == RateFor(table, n)
<1>1. /\ p \in Nat /\ q \in Nat /\ ParkDurationRange(p) /\ ParkDurationRange(q)
  BY DurationOrder DEF Named
<1>2. /\ ra \in Nat /\ rb \in Nat
  BY DEF Named, RateTable
<1>3. n \in Nat /\ p <= n /\ n <= q /\ ParkDurationRange(n)
  <2> HIDE DEF p, q
  <2>1. n \in p .. q
    BY DEF p, q
  <2> QED
    BY <1>1, <2>1, RateAssumption DEF ParkDurationRange
<1>4. RateFor(table, p) = ra /\ RateFor(table, q) = rb
  BY RateOfNamed
<1>5. /\ r \in Nat
      /\ (ra <= r /\ r <= rb) \/ (rb <= r /\ r <= ra)
  <2>1. CASE n = p \/ n = q
    BY <1>2, <1>4, <2>1
  <2>2. CASE p < n /\ n < q
    <3>1. r = ra + Quotient((n - p) * (rb - ra), q - p)
      BY <1>3, <2>2, RateOfUnnamed DEF Interpolated
    <3> HIDE DEF p, q, ra, rb, r
    <3> DEFINE x == ra + Quotient((n - p) * (rb - ra), q - p)
    <3>2. /\ x \in Nat
          /\ ra <= rb => ra <= x /\ x <= rb
          /\ rb <= ra => rb <= x /\ x <= ra
      BY <1>1, <1>2, <1>3, <2>2, InterpolatedBetween
    <3> HIDE DEF x
    <3>3. r = x
      BY <3>1 DEF x
    <3> QED
      BY <1>2, <3>2, <3>3
  <2> HIDE DEF p, q
  <2> QED
    BY <1>1, <1>3, <2>1, <2>2
<1> DEFINE E(x) == Earned(nValue, x)
<1>6. /\ E(ra) \in Nat /\ E(rb) \in Nat /\ E(r) \in Nat
      /\ (E(ra) <= E(r) /\ E(r) <= E(rb)) \/ (E(rb) <= E(r) /\ E(r) <= E(ra))
  <2>1. \A x, y \in Nat : x <= y => E(x) \in Nat /\ E(y) \in Nat /\ E(x) <= E(y)
    BY EarnedMono
  <2> HIDE DEF ra, rb, r, E
  <2> QED
    BY <1>2, <1>5, <2>1
<1>7. MoneyRange(E(r))
  <2>1. MoneyRange(E(ra)) /\ MoneyRange(E(rb))
    OBVIOUS
  <2> HIDE DEF E
  <2> QED
    BY <1>6, <2>1, RateAssumption DEF MoneyRange
<1>8. /\ GetPremium(nValue, p, table) = IF MoneyRange(nValue) THEN E(ra) ELSE 0
      /\ GetPremium(nValue, q, table) = IF MoneyRange(nValue) THEN E(rb) ELSE 0
      /\ GetPremium(nValue, n, table) = IF MoneyRange(nValue) THEN E(r) ELSE 0
  BY <1>1, <1>3, <1>4, <1>7, PremiumOfRate
<1> HIDE DEF p, q, ra, rb, r, E
<1>9. CASE MoneyRange(nValue)
  BY <1>6, <1>8, <1>9 DEF p, q
<1>10. CASE ~MoneyRange(nValue)
  BY <1>8, <1>10 DEF p, q
<1> QED
  BY <1>9, <1>10

\* In every chain of blocks, for the tables that the votes decide.
THEOREM PremiumsLieBetween == Spec => []PremiumBetweenNeighbours
<1>1. ShapeInv => PremiumBetweenNeighbours
  <2> SUFFICES ASSUME ShapeInv, NEW i \in DOMAIN chain,
                      NEW a \in Named(chain[i].vParkRateResult),
                      NEW b \in Named(chain[i].vParkRateResult),
                      NEW n \in CompactDurationToDuration(a) .. CompactDurationToDuration(b),
                      MoneyRange(chain[i].vParkRateResult[a]),
                      MoneyRange(chain[i].vParkRateResult[b]),
                      {d \in Named(chain[i].vParkRateResult) : a < d /\ d < b} = {}
               PROVE  LET P(k) == GetPremium(COIN_PARK_RATE, k, chain[i].vParkRateResult)
                          ends == {P(CompactDurationToDuration(a)),
                                   P(CompactDurationToDuration(b))}
                      IN  Min(ends) <= P(n) /\ P(n) <= Max(ends)
    BY DEF PremiumBetweenNeighbours
  <2> DEFINE table == chain[i].vParkRateResult
             v == COIN_PARK_RATE
             x == GetPremium(v, CompactDurationToDuration(a), table)
             y == GetPremium(v, CompactDurationToDuration(b), table)
             z == GetPremium(v, n, table)
  <2>1. table \in RateTable
    BY ElementType, FieldTypes DEF ShapeInv
  <2>2. v \in Nat \ {0}
    BY RateAssumption
  <2> HIDE DEF table
  <2>3. table[a] \in Nat /\ table[b] \in Nat
    BY <2>1 DEF Named, RateTable, table
  <2>4. \A k \in Nat : Earned(v, k) = k
    BY <2>2 DEF Earned
  <2>5. /\ x \in Nat /\ y \in Nat /\ z \in Nat
        /\ (x <= z /\ z <= y) \/ (y <= z /\ z <= x)
    <3> HIDE DEF v
    <3>1. a \in Named(table) /\ b \in Named(table) /\ {d \in Named(table) : a < d /\ d < b} = {}
      BY DEF table
    <3>2. MoneyRange(Earned(v, table[a])) /\ MoneyRange(Earned(v, table[b])) /\ v \in Nat
      BY <2>2, <2>3, <2>4 DEF table
    <3> QED
      BY <2>1, <3>1, <3>2, PremiumsInterpolate
  <2> HIDE DEF x, y, z
  <2>6. Min({x, y}) <= z /\ z <= Max({x, y})
    <3>1. CASE x <= y
      <4>1. Min({x, y}) = x /\ Max({x, y}) = y
        BY <2>5, <3>1 DEF Min, Max
      <4> QED
        BY <2>5, <3>1, <4>1
    <3>2. CASE y <= x
      <4>1. Min({x, y}) = y /\ Max({x, y}) = x
        BY <2>5, <3>2 DEF Min, Max
      <4> QED
        BY <2>5, <3>2, <4>1
    <3> QED
      BY <2>5, <3>1, <3>2
  <2> QED
    BY <2>6 DEF x, y, z, v, table
<1> QED
  BY <1>1, ShapeInductive, PTL

================================================================================
