------------------------------- MODULE Rewards -------------------------------
(***************************************************************************)
(* The miner's reward of a block and what side chains get of it            *)
(* (consensus/alien/alien.go accumulateRewards, snapshot.go                *)
(* calculateSCReward), as operators on amounts.  big.Int has no width and  *)
(* divides towards zero, so natural numbers and \div are exact for the     *)
(* amounts the code divides.                                               *)
(***************************************************************************)
EXTENDS Integers, FiniteSets, Functions, FiniteSetsExt

CONSTANTS
    SignerBlockReward,      \* reward of a block of the first year
    BlocksPerYear,          \* secondsPerYear / Period
    MinerRewardPerThousand  \* share of the miner

ASSUME RewardsAssumption ==
    /\ SignerBlockReward \in Nat
    /\ BlocksPerYear \in Nat \ {0}
    /\ MinerRewardPerThousand \in 0..1000

\* The sum of the values of f, a function with numbers as values.
SumOf(f) == MapThenSumSet(LAMBDA x : f[x], DOMAIN f)

\* Rsh of big.Int: x halved k times.
Rsh(x, k) ==
    LET halved[i \in 0..k] == IF i = 0 THEN x ELSE halved[i - 1] \div 2
    IN  halved[k]

\* The reward is halved every year.
BlockReward(n) == Rsh(SignerBlockReward, n \div BlocksPerYear)

MinerReward(n) == (BlockReward(n) * MinerRewardPerThousand) \div 1000

\* calculateSCReward: RewardPerPeriod counts in thousandths of the miner's
\* reward, unless all side chains together ask for more than that.
RewardBase(perPeriod) == Max({1000, SumOf(perPeriod)})

\* The reward of one coinbase for its score on one side chain.
SingleReward(score, perPeriod, base, minerReward) ==
    ((score * perPeriod) \div base) * minerReward

\* The share of each block of a period, by its place in a row of blocks of
\* one sealer (SCCurrentBlockReward).
SCCurrentBlockReward == <<
    <<100>>,
    <<30, 70>>,
    <<15, 30, 55>>,
    <<5, 15, 30, 50>>,
    <<5, 10, 15, 25, 45>>,
    <<1, 4, 10, 15, 25, 45>> >>

\* calculateCurrentBlockReward: zero for a place the table does not have.
CurrentBlockReward(place, countPerPeriod) ==
    LET period == Min({countPerPeriod, 6}) IN
    IF period = 0 THEN 0
    ELSE IF place \notin DOMAIN SCCurrentBlockReward[period] THEN 0
    ELSE SCCurrentBlockReward[period][place]

=============================================================================
