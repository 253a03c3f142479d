------------------------------ MODULE MCVoteChain ------------------------------
(***************************************************************************)
(* Small instances of VoteChain.  Each of the four votes has a set of      *)
(* blocks that differ in that vote, and in what decides its weight.        *)
(***************************************************************************)
EXTENDS VoteChain

CONSTANTS a, b      \* two custodians, b an address of shares

\* A block that votes for version 2.0 and for nothing else.
Plain ==
    [nTime |-> 1, nVersionVote |-> PROTOCOL_V2_0, vParkRate |-> EmptyTable,
     nFeeVote |-> NoFee, vCustodianVote |-> {}, nStakeAge |-> 1, nOtherAge |-> 0]

\* Durations of 2 and 8 blocks: rates for one of them, for both, for none, and zero,
\* some above what one block may add before version 2.0.
Durations == {1, 3}
Table(short, long) == [d \in Durations |-> IF d = 1 THEN short ELSE long]
Tables == {Table(NoRate, NoRate), Table(3, NoRate), Table(1200, NoRate), Table(3, 20),
           Table(0, 5)}

\* Blocks after the switch time, of several weights, and blocks before it.
ParkInputs ==
    {[Plain EXCEPT !.vParkRate = t, !.nStakeAge = w] : t \in Tables, w \in {0, 1, 2}}
    \cup {[Plain EXCEPT !.vParkRate = t, !.nTime = 0] : t \in Tables}

Grant(address, nAmount) == [address |-> address, nAmount |-> nAmount]

\* A block that votes for custodians and for a fee, with the given coin ages.
Ballot(grants, nFee, nStake, nOther) ==
    [Plain EXCEPT !.vCustodianVote = grants, !.nFeeVote = nFee,
                  !.nStakeAge = nStake, !.nOtherAge = nOther]

\* Votes for one custodian, for two amounts of one, for both custodians, of several
\* weights, and with fees below and above the default, or none.  Then a block before the
\* switch time, and one against version 2.0.
FeeAndGrantInputs ==
    {Ballot({}, 5, 1, 0), Ballot({Grant(a, 1)}, 5, 1, 0), Ballot({Grant(a, 2)}, 1, 1, 2),
     Ballot({Grant(a, 1), Grant(a, 2)}, 5, 2, 0), Ballot({Grant(a, 1), Grant(b, 1)}, NoFee, 1, 2),
     [Plain EXCEPT !.nTime = 0],
     [Ballot({Grant(b, 1)}, 5, 1, 0) EXCEPT !.nVersionVote = PROTOCOL_V0_5]}

Custodians == {a, b}
Shares == {b}
NoDurations == {}

================================================================================
