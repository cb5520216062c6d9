---------------------------- MODULE RewardsProofs ----------------------------
(***************************************************************************)
(* TLAPS proofs about Rewards: for every set of accounts, schedule of      *)
(* versions, vote, evidence and number of restarts.                        *)
(***************************************************************************)
EXTENDS Rewards, SumProofs, SequenceTheorems

Balances == [Accounts -> Nat]
Powers == [Signers -> Nat]

-----------------------------------------------------------------------------
(* Arithmetic and types. *)

\* The quotient of a division, and that its remainder is smaller than the divisor.
LEMMA Quotient ==
    ASSUME NEW n \in Nat, NEW d \in Nat, d > 0
    PROVE  n \div d \in Nat /\ d * (n \div d) <= n /\ n - d * (n \div d) < d
<1>1. n \div d \in Int /\ n % d \in 0..(d - 1)
  OBVIOUS
<1>2. n = d * (n \div d) + (n % d)
  OBVIOUS
<1> DEFINE q == n \div d
<1>3. ASSUME q < 0 PROVE FALSE
  <2>1. \A x \in Int : x < 0 => d * x <= -d
    OBVIOUS
  <2> QED BY <1>1, <1>2, <1>3, <2>1
<1>4. q >= 0 /\ d * q \in Int
  BY <1>1, <1>3
<1> QED BY <1>1, <1>2, <1>4

LEMMA AccountFacts ==
    /\ IsFiniteSet(Accounts) /\ IsFiniteSet(Signers)
    /\ Signers \subseteq Accounts /\ ZeroAddress \in Accounts /\ ZeroAddress \notin Signers
    /\ DefaultReceiver \in Accounts
    /\ \A s \in Signers : Beneficiary[s] \in Accounts
<1>1. Signers \subseteq Accounts
  BY DEF Accounts
<1> QED BY <1>1, RewardsAssumption, FS_Subset DEF Accounts

LEMMA SumOfBalances ==
    ASSUME NEW b \in Balances
    PROVE  Sum(b) = SumOver(b, Accounts) /\ Sum(b) \in Nat
<1>1. Sum(b) = SumOver(b, Accounts)
  BY DEF Sum, Balances
<1> QED BY <1>1, SumNat, AccountFacts DEF Balances

LEMMA SumOfPowers ==
    ASSUME NEW v \in Powers
    PROVE  Sum(v) = SumOver(v, Signers) /\ Sum(v) \in Nat
<1>1. Sum(v) = SumOver(v, Signers)
  BY DEF Sum, Powers
<1> QED BY <1>1, SumNat, AccountFacts DEF Powers

LEMMA BonusFacts ==
    /\ TotalBalance \in Nat /\ InfoBonus \in Nat
    /\ TotalBalance \div (100 * YearBlocks) \in Nat
<1>1. TotalBalance \in Nat
  BY SumOfBalances, RewardsAssumption DEF TotalBalance, Balances
<1>2. YearBlocks \in Nat /\ YearBlocks >= 2
  BY RewardsAssumption
<1>3. YearBlocks \div 2 \in Nat /\ YearBlocks \div 2 > 0
  BY <1>2
<1>4. 100 * YearBlocks \in Nat /\ 100 * YearBlocks > 0
  BY <1>2
<1> DEFINE half == YearBlocks \div 2
<1>5. InfoBonus \in Nat
  <2>1. 100 * half \in Nat /\ 100 * half > 0
    <3> HIDE DEF half
    <3> QED BY <1>3 DEF half
  <2> QED BY <1>1, <2>1, Quotient DEF InfoBonus
<1> QED BY <1>1, <1>4, <1>5, Quotient

-----------------------------------------------------------------------------
(* Moving value. *)

\* Moving no more than there is keeps types and the sum.
LEMMA MoveConserves ==
    ASSUME NEW b \in Balances, NEW from \in Accounts, NEW to \in Accounts,
           NEW amount \in Nat, amount <= b[from]
    PROVE  LET c == Move(b, from, to, amount)
           IN  /\ c \in Balances /\ Sum(c) = Sum(b)
               /\ \A a \in Accounts : a # from /\ a # to => c[a] = b[a]
               /\ from # to => c[from] = b[from] - amount
<1> DEFINE c == Move(b, from, to, amount)
<1>1. CASE from = to
  BY <1>1 DEF Move
<1>2. CASE from # to
  <2> DEFINE mid == [b EXCEPT ![from] = b[from] - amount]
  <2>0. b \in [Accounts -> Nat] /\ b[from] \in Nat /\ b[to] \in Nat
    BY DEF Balances
  <2>1. b[from] - amount \in Nat /\ b[to] + amount \in Nat
    BY <2>0
  <2>2. mid \in [Accounts -> Nat] /\ mid[to] = b[to] /\ mid[from] = b[from] - amount
    BY <1>2, <2>0, <2>1
  <2>3. c = [mid EXCEPT ![to] = b[to] + amount]
    BY <1>2, <2>0 DEF Move
  <2>4. c \in Balances
    BY <2>1, <2>2, <2>3 DEF Balances
  <2>5. \A a \in Accounts : a # from /\ a # to => c[a] = b[a]
    BY <2>0, <2>3
  <2>6. c[from] = b[from] - amount
    BY <1>2, <2>0, <2>3
  <2>7. Sum(c) = Sum(b)
    <3>1. SumOver(mid, Accounts) = SumOver(b, Accounts) + ((b[from] - amount) - b[from])
      <4>1. b \in [Accounts -> Int] /\ b[from] - amount \in Int
        BY <2>0, <2>1
      <4> QED BY <4>1, AccountFacts, SumAfterChange
    <3>2. SumOver(c, Accounts) = SumOver(mid, Accounts) + ((b[to] + amount) - mid[to])
      <4> HIDE DEF mid, c
      <4>1. mid \in [Accounts -> Int] /\ b[to] + amount \in Int
        BY <2>1, <2>2
      <4>2. SumOver([mid EXCEPT ![to] = b[to] + amount], Accounts)
               = SumOver(mid, Accounts) + ((b[to] + amount) - mid[to])
        BY <4>1, AccountFacts, SumAfterChange
      <4> QED BY <2>3, <4>2
    <3>3. SumOver(b, Accounts) \in Nat
      BY SumOfBalances
    <3> DEFINE u == SumOver(b, Accounts)
               v == SumOver(mid, Accounts)
    <3>4. v = u + ((b[from] - amount) - b[from]) /\ SumOver(c, Accounts) = v + ((b[to] + amount) - b[to])
      BY <2>2, <3>1, <3>2
    <3> HIDE DEF u, v, c, mid
    <3>5. SumOver(c, Accounts) = u
      <4>1. u \in Nat
        BY <3>3 DEF u
      <4> QED BY <2>0, <3>4, <4>1
    <3> QED BY <2>4, <3>5, SumOfBalances DEF u
  <2> HIDE DEF c
  <2> QED BY <2>4, <2>5, <2>6, <2>7 DEF c
<1> QED BY <1>1, <1>2

-----------------------------------------------------------------------------
(* Fines, one after the other. *)

\* f holds the balances after each of the first n pieces of evidence.
IsPunishment(f, b, e, n) == f = [i \in 0..n |-> IF i = 0 THEN b ELSE Fine(f[i - 1], e[i])]

\* There is one for every length.
LEMMA PunishmentExists ==
    ASSUME NEW b, NEW e, NEW N \in Nat
    PROVE  \E f : IsPunishment(f, b, e, N)
<1> DEFINE Bad == {n \in Nat : ~\E f : IsPunishment(f, b, e, n)}
<1> SUFFICES ASSUME Bad # {} PROVE FALSE
  OBVIOUS
<1>1. PICK m \in Bad : \A n \in Nat : n < m => n \notin Bad
  <2>1. Bad \subseteq Nat
    OBVIOUS
  <2> HIDE DEF Bad
  <2> QED BY <2>1, SmallestNumber
<1>2. m \in Nat /\ ~\E f : IsPunishment(f, b, e, m)
  OBVIOUS
<1>3. CASE m = 0
  <2>1. IsPunishment([i \in 0..0 |-> b], b, e, 0)
    BY DEF IsPunishment
  <2> QED BY <1>2, <1>3, <2>1
<1>4. CASE m # 0
  <2>1. m - 1 \in Nat /\ m - 1 < m
    BY <1>2, <1>4
  <2>2. PICK f : IsPunishment(f, b, e, m - 1)
    <3>1. m - 1 \notin Bad
      BY <1>1, <2>1
    <3> QED BY <2>1, <3>1
  <2> DEFINE g == [i \in 0..m |-> IF i = 0 THEN b ELSE Fine(f[i - 1], e[i])]
  <2>3. \A i \in 0..(m - 1) : g[i] = f[i]
    <3> SUFFICES ASSUME NEW i \in 0..(m - 1) PROVE g[i] = f[i]
      OBVIOUS
    <3>1. f[i] = IF i = 0 THEN b ELSE Fine(f[i - 1], e[i])
      BY <2>2 DEF IsPunishment
    <3>2. i \in 0..m
      BY <1>2
    <3> QED BY <3>1, <3>2
  <2>4. \A i \in 0..m : i # 0 => i - 1 \in 0..(m - 1)
    BY <1>2
  <2>5. \A i \in 0..m : g[i] = IF i = 0 THEN b ELSE Fine(g[i - 1], e[i])
    BY <2>3, <2>4
  <2>6. g = [i \in 0..m |-> g[i]]
    OBVIOUS
  <2> HIDE DEF g
  <2>7. IsPunishment(g, b, e, m)
    BY <2>5, <2>6 DEF IsPunishment
  <2> QED BY <1>2, <2>7
<1> QED BY <1>3, <1>4

\* One fine takes all of a signer's balance and nothing of another's.
LEMMA FineTakesAll ==
    ASSUME NEW b \in Balances, NEW s \in Signers
    PROVE  /\ Fine(b, s) \in Balances /\ Sum(Fine(b, s)) = Sum(b) /\ Fine(b, s)[s] = 0
           /\ \A r \in Signers : r # s => Fine(b, s)[r] = b[r]
<1>1. /\ s \in Accounts /\ ZeroAddress \in Accounts /\ s # ZeroAddress
      /\ b[s] \in Nat /\ b[s] <= b[s] /\ b[s] - b[s] = 0
  BY AccountFacts DEF Balances
<1>2. \A r \in Signers : r \in Accounts /\ r # ZeroAddress
  BY AccountFacts
<1> QED BY <1>1, <1>2, MoveConserves DEF Fine

\* All evidence together: value is only moved, and everybody named has lost all.
LEMMA PunishmentSticks ==
    ASSUME NEW b \in Balances, NEW e \in Seq(Signers), NEW receiver
    PROVE  /\ DoPunish(b, e, receiver) \in Balances
           /\ Sum(DoPunish(b, e, receiver)) = Sum(b)
           /\ \A j \in 1..Len(e) : DoPunish(b, e, receiver)[e[j]] = 0
<1> DEFINE N == Len(e)
           f == CHOOSE g : IsPunishment(g, b, e, N)
<1>1. DoPunish(b, e, receiver) = f[N]
  BY DEF DoPunish, IsPunishment
<1>2. N \in Nat /\ \A i \in 1..N : e[i] \in Signers
  BY ElementOfSeq
<1>3. IsPunishment(f, b, e, N)
  BY <1>2, PunishmentExists
<1> HIDE DEF f, N
<1>4. f[0] = b /\ \A i \in 1..N : f[i] = Fine(f[i - 1], e[i])
  BY <1>2, <1>3 DEF IsPunishment
<1> DEFINE Holds(i) == /\ f[i] \in Balances /\ Sum(f[i]) = Sum(b)
                       /\ \A j \in 1..i : f[i][e[j]] = 0
           Bad == {i \in Nat : i <= N /\ ~Holds(i)}
<1>5. ASSUME Bad # {} PROVE FALSE
  <2>1. PICK m \in Bad : \A n \in Nat : n < m => n \notin Bad
    <3>1. Bad \subseteq Nat
      OBVIOUS
    <3> HIDE DEF Bad
    <3> QED BY <1>5, <3>1, SmallestNumber
  <2>2. m \in Nat /\ m <= N /\ ~Holds(m)
    OBVIOUS
  <2>3. m # 0
    BY <1>4, <2>2
  <2>4. m - 1 \in Nat /\ m - 1 < m /\ m - 1 <= N /\ m \in 1..N
    BY <1>2, <2>2, <2>3
  <2>5. Holds(m - 1)
    <3>1. m - 1 \notin Bad
      BY <2>1, <2>4
    <3> QED BY <2>4, <3>1
  <2> DEFINE old == f[m - 1]
  <2>6. f[m] = Fine(old, e[m]) /\ e[m] \in Signers
    BY <1>2, <1>4, <2>4
  <2>7. /\ f[m] \in Balances /\ Sum(f[m]) = Sum(old) /\ f[m][e[m]] = 0
        /\ \A r \in Signers : r # e[m] => f[m][r] = old[r]
    <3>1. old \in Balances
      BY <2>5
    <3> HIDE DEF old
    <3>2. /\ Fine(old, e[m]) \in Balances /\ Sum(Fine(old, e[m])) = Sum(old)
          /\ Fine(old, e[m])[e[m]] = 0
          /\ \A r \in Signers : r # e[m] => Fine(old, e[m])[r] = old[r]
      BY <2>6, <3>1, FineTakesAll
    <3> QED BY <2>6, <3>2
  <2>8. \A j \in 1..m : f[m][e[j]] = 0
    <3> SUFFICES ASSUME NEW j \in 1..m PROVE f[m][e[j]] = 0
      OBVIOUS
    <3>1. j \in 1..N /\ (j = m \/ j \in 1..(m - 1))
      BY <1>2, <2>2
    <3>2. e[j] \in Signers
      BY <1>2, <3>1
    <3> QED BY <2>5, <2>7, <3>1, <3>2
  <2> QED BY <2>2, <2>5, <2>7, <2>8
<1>6. Holds(N)
  BY <1>2, <1>5
<1> QED BY <1>1, <1>6 DEF N

LEMMA EvidenceIsSequence ==
    ASSUME NEW e \in Evidence
    PROVE  e \in Seq(Signers) /\ DOMAIN e = 1..Len(e)
<1>1. PICK n \in 0..MaxEvidence : e \in [1..n -> Signers]
  BY DEF Evidence
<1>2. n \in Nat
  BY <1>1, RewardsAssumption
<1> QED BY <1>1, <1>2

-----------------------------------------------------------------------------
(* Rewards. *)

LEMMA VoterFacts ==
    ASSUME votes \in Powers
    PROVE  /\ WeightSum \in Nat /\ WeightSum = SumOver(votes, Voters)
           /\ IsFiniteSet(Voters) /\ Voters \subseteq Signers
           /\ \A s \in Voters : votes[s] \in Nat /\ votes[s] >= 1
           /\ WeightSum > 0 <=> Voters # {}
<1>1. Voters \subseteq Signers /\ \A s \in Signers : votes[s] \in Nat
  BY DEF Voters, Powers
<1>2. IsFiniteSet(Voters)
  BY <1>1, AccountFacts, FS_Subset
<1>3. \A s \in Voters : votes[s] \in Nat /\ votes[s] >= 1
  BY <1>1 DEF Voters
<1>4. WeightSum = SumOver(votes, Signers) /\ WeightSum \in Nat
  BY SumOfPowers DEF WeightSum
<1>5. Voters = {s \in Signers : votes[s] # 0}
  BY <1>1 DEF Voters
<1>6. SumOver(votes, Signers) = SumOver(votes, {s \in Signers : votes[s] # 0})
  <2>1. \A s \in Signers : votes[s] \in Int
    BY <1>1
  <2> QED BY <2>1, AccountFacts, SumOfNonzero
<1>7. WeightSum = SumOver(votes, Voters)
  BY <1>4, <1>5, <1>6
<1>8. CASE Voters = {}
  BY <1>1, <1>2, <1>3, <1>4, <1>7, <1>8, SumOfNone
<1>9. CASE Voters # {}
  <2>1. PICK s \in Voters : TRUE
    BY <1>9
  <2>2. SumOver(votes, Voters) = votes[s] + SumOver(votes, Voters \ {s})
    <3>1. \A r \in Voters : votes[r] \in Int
      BY <1>3
    <3> QED BY <1>2, <2>1, <3>1, SumTake
  <2>3. SumOver(votes, Voters \ {s}) \in Nat
    <3>1. IsFiniteSet(Voters \ {s})
      BY <1>2, FS_RemoveElement
    <3> QED BY <1>3, <3>1, SumNat
  <2>4. WeightSum > 0
    BY <1>3, <1>7, <2>1, <2>2, <2>3
  <2> QED BY <1>1, <1>2, <1>3, <1>4, <1>7, <1>9, <2>4
<1> QED BY <1>8, <1>9

Shares == [s \in Voters |-> Share(s)]

\* What the voters get together: at most the bonus, and from version 3 on less by
\* the remainder of one division.
LEMMA ShareTotal ==
    ASSUME votes \in Powers, BlockBonus \in Nat, VersionAt[Height] \in Nat
    PROVE  /\ \A s \in Voters : Shares[s] \in Nat
           /\ SumOver(Shares, Voters) \in Nat /\ SumOver(Shares, Voters) <= BlockBonus
           /\ VersionAt[Height] >= 3 /\ WeightSum > 0 =>
                 BlockBonus - SumOver(Shares, Voters) < WeightSum
<1> DEFINE average == BlockBonus \div WeightSum
           weighted == [s \in Voters |-> votes[s] * average]
<1>1. CASE Voters = {}
  BY <1>1, SumOfNone, VoterFacts
<1>2. CASE Voters # {}
  <2>1. WeightSum \in Nat /\ WeightSum > 0
    BY <1>2, VoterFacts
  <2>2. /\ average \in Nat /\ WeightSum * average <= BlockBonus
        /\ BlockBonus - WeightSum * average < WeightSum
    BY <2>1, Quotient
  <2>3. \A s \in Voters : Shares[s] = IF VersionAt[Height] >= 3 THEN votes[s] * average ELSE average
    BY DEF Shares, Share
  <2> HIDE DEF average
  <2>4. \A v \in Nat : v >= 1 => v * average \in Nat /\ average <= v * average
    BY <2>2
  <2>5. \A s \in Voters : Shares[s] \in Nat /\ weighted[s] \in Nat /\ Shares[s] <= weighted[s]
    BY <2>2, <2>3, <2>4, VoterFacts
  <2>6. SumOver(weighted, Voters) = WeightSum * average
    <3>1. \A s \in Voters : votes[s] \in Int /\ weighted[s] = votes[s] * average
      BY VoterFacts
    <3>2. average \in Int
      BY <2>2
    <3> HIDE DEF weighted
    <3>3. IsFiniteSet(Voters) /\ WeightSum = SumOver(votes, Voters)
      BY VoterFacts
    <3>4. \A S \in SUBSET Voters : SumOver(weighted, S) = SumOver(votes, S) * average
      BY <3>1, <3>2, <3>3, SumTimes
    <3> QED BY <3>3, <3>4
  <2>7. SumOver(Shares, Voters) \in Nat
    BY <2>5, VoterFacts, SumNat
  <2> HIDE DEF weighted
  <2>8. \A s \in Voters : Shares[s] \in Int /\ weighted[s] \in Int /\ Shares[s] <= weighted[s]
    BY <2>5
  <2>9. SumOver(Shares, Voters) <= SumOver(weighted, Voters)
    BY <2>8, VoterFacts, SumAtMost
  <2>10. VersionAt[Height] >= 3 => SumOver(Shares, Voters) = SumOver(weighted, Voters)
    <3>1. VersionAt[Height] >= 3 => \A s \in Voters : Shares[s] = weighted[s]
      BY <2>3 DEF weighted
    <3> QED BY <2>8, <3>1, VoterFacts, SumSame
  <2> DEFINE total == SumOver(Shares, Voters)
             w == WeightSum * average
  <2>11. /\ total \in Nat /\ total <= w /\ w <= BlockBonus /\ BlockBonus - w < WeightSum
         /\ VersionAt[Height] >= 3 => total = w
    BY <2>2, <2>6, <2>7, <2>9, <2>10
  <2>12. w \in Nat
    BY <2>1, <2>2
  <2> HIDE DEF total, w
  <2>13. total <= BlockBonus /\ (VersionAt[Height] >= 3 => BlockBonus - total < WeightSum)
    BY <2>1, <2>11, <2>12
  <2> QED BY <2>5, <2>11, <2>13 DEF total
<1> QED BY <1>1, <1>2

\* What a block below version 4 issues.
LEMMA RewardsIssued ==
    ASSUME votes \in Powers, balance \in Balances, coinbase \in Accounts,
           BlockBonus \in Nat, ProposerBonus \in Nat,
           VersionAt[Height] \in Nat, VersionAt[Height] < 4
    PROVE  /\ AccumulateRewards \in Balances
           /\ Sum(AccumulateRewards) = Sum(balance) + (ProposerBonus + SumOver(Shares, Voters))
<1> DEFINE inner == [a \in Accounts |-> SumOver(Shares, {s \in Voters : Beneficiary[s] = a})]
           top == [a \in Accounts |-> IF a = coinbase THEN ProposerBonus ELSE 0]
           reward == [a \in Accounts |-> top[a] + inner[a]]
<1>1. \A a \in Accounts : Reward(a) = reward[a]
  BY DEF Reward, Shares
<1>2. AccumulateRewards = [a \in Accounts |-> balance[a] + reward[a]]
  <2>1. ~(VersionAt[Height] >= 4)
    OBVIOUS
  <2>2. AccumulateRewards = [a \in Accounts |-> balance[a] + Reward(a)]
    BY <2>1 DEF AccumulateRewards
  <2> HIDE DEF reward
  <2> QED BY <1>1, <2>2
<1>3. \A a \in Accounts : inner[a] \in Nat
  <2> SUFFICES ASSUME NEW a \in Accounts
               PROVE  SumOver(Shares, {s \in Voters : Beneficiary[s] = a}) \in Nat
    OBVIOUS
  <2> DEFINE C == {s \in Voters : Beneficiary[s] = a}
  <2>1. C \in SUBSET Voters /\ IsFiniteSet(C)
    BY VoterFacts, FS_Subset
  <2>2. \A s \in C : Shares[s] \in Nat
    BY <2>1, ShareTotal
  <2> HIDE DEF C
  <2>3. SumOver(Shares, C) \in Nat
    BY <2>1, <2>2, SumNat
  <2> QED BY <2>3 DEF C
<1>4. \A a \in Accounts : top[a] \in Nat /\ balance[a] \in Nat
  BY DEF Balances
<1>5. SumOver(inner, Accounts) = SumOver(Shares, Voters)
  <2>1. \A s \in Voters : Shares[s] \in Int /\ Beneficiary[s] \in Accounts
    BY ShareTotal, VoterFacts, AccountFacts
  <2>2. Voters \in SUBSET Voters
    OBVIOUS
  <2>3. IsFiniteSet(Accounts) /\ IsFiniteSet(Voters)
    BY VoterFacts, AccountFacts
  <2> QED BY <2>1, <2>2, <2>3, SumByClass
<1>6. SumOver(top, Accounts) = ProposerBonus
  <2> DEFINE zero == [a \in Accounts |-> 0]
  <2>1. zero \in [Accounts -> Int] /\ zero[coinbase] = 0 /\ SumOver(zero, Accounts) = 0
    BY AccountFacts, SumOfZeros
  <2>2. top = [zero EXCEPT ![coinbase] = ProposerBonus]
    OBVIOUS
  <2> HIDE DEF zero, top
  <2>3. SumOver([zero EXCEPT ![coinbase] = ProposerBonus], Accounts)
           = SumOver(zero, Accounts) + (ProposerBonus - zero[coinbase])
    <3>1. ProposerBonus \in Int
      OBVIOUS
    <3> QED BY <2>1, <3>1, AccountFacts, SumAfterChange
  <2> QED BY <2>1, <2>2, <2>3
<1>7. \A a \in Accounts : reward[a] \in Nat /\ reward[a] = top[a] + inner[a]
  BY <1>3, <1>4
<1> DEFINE new == [a \in Accounts |-> balance[a] + reward[a]]
<1>8. /\ \A a \in Accounts : new[a] = balance[a] + reward[a] /\ new[a] \in Nat
      /\ new \in Balances
  BY <1>4, <1>7 DEF Balances
<1> HIDE DEF inner, top, reward, new
<1>9. SumOver(reward, Accounts) = SumOver(top, Accounts) + SumOver(inner, Accounts)
  <2>1. \A a \in Accounts : top[a] \in Int /\ inner[a] \in Int /\ reward[a] = top[a] + inner[a]
    BY <1>3, <1>4, <1>7
  <2> QED BY <2>1, AccountFacts, SumPlus
<1>10. SumOver(new, Accounts) = SumOver(balance, Accounts) + SumOver(reward, Accounts)
  <2>1. \A a \in Accounts : balance[a] \in Int /\ reward[a] \in Int /\ new[a] = balance[a] + reward[a]
    BY <1>4, <1>7, <1>8
  <2> QED BY <2>1, AccountFacts, SumPlus
<1>11. AccumulateRewards = new
  BY <1>2 DEF new
<1>12. Sum(new) = SumOver(new, Accounts) /\ Sum(balance) = SumOver(balance, Accounts)
  BY <1>8, SumOfBalances
<1> QED BY <1>5, <1>6, <1>8, <1>9, <1>10, <1>11, <1>12

-----------------------------------------------------------------------------
(* The inductive invariant. *)

Accounted == TypeOK /\ Ready /\ BonusKnown /\ BlockConserves /\ FineSticks /\ SharesExact

\* A block is within its budget; SharesExact says so of every block on the chain.
Exact(h) ==
    /\ Issued(h) >= 0 /\ Issued(h) <= Budget(h)
    /\ VersionAt[h] = 3 /\ Sum(chain[h].votes) > 0 =>
          Budget(h) - Issued(h) < Sum(chain[h].votes)

LEMMA CommittedTypes ==
    ASSUME TypeOK
    PROVE  /\ Len(chain) \in Nat
           /\ \A h \in 1..Len(chain) : chain[h].balance \in Balances /\ chain[h].votes \in Powers
           /\ \A h \in 0..Len(chain) : Committed(h) \in Balances
<1>1. chain \in Seq([balance : Balances, votes : Powers])
  BY DEF TypeOK, Balances, Powers
<1>2. \A h \in 1..Len(chain) : chain[h] \in [balance : Balances, votes : Powers]
  BY <1>1, ElementOfSeq
<1>3. GenesisBalance \in Balances
  BY RewardsAssumption DEF Balances
<1> QED BY <1>1, <1>2, <1>3 DEF Committed

LEMMA InitAccounted == Init => Accounted
<1> SUFFICES ASSUME Init PROVE Accounted
  OBVIOUS
<1>1. GenesisBalance \in [Accounts -> Nat] /\ DefaultReceiver \in Accounts /\ MaxHeight \in Nat
  BY RewardsAssumption, AccountFacts DEF MaxHeight
<1>2. NoVotes \in [Signers -> Nat]
  BY DEF NoVotes
<1>3. /\ chain \in Seq([balance : [Accounts -> Nat], votes : [Signers -> Nat]])
      /\ Len(chain) = 0
  BY DEF Init
<1>4. TypeOK
  BY <1>1, <1>2, <1>3 DEF Init, TypeOK
<1> QED BY <1>3, <1>4 DEF Accounted, Init, Ready, BonusKnown, BlockConserves, FineSticks, SharesExact

\* As long as the chain is the same, so is what its blocks issued.
LEMMA SameChain ==
    ASSUME SharesExact, UNCHANGED chain
    PROVE  SharesExact'
BY DEF SharesExact, Issued, Budget, Committed

LEMMA StartAccounted ==
    ASSUME Accounted, Start
    PROVE  Accounted'
<1>1. Committed(Len(chain)) \in [Accounts -> Nat]
  BY CommittedTypes DEF Accounted, Balances
<1>2. DefaultReceiver \in Accounts /\ NoVotes \in [Signers -> Nat]
  BY AccountFacts DEF NoVotes
<1>3. TypeOK'
  BY <1>1, <1>2 DEF Accounted, TypeOK, Start
<1>4. Ready'
  BY DEF Start, Ready, Committed
<1>5. SharesExact'
  BY SameChain DEF Accounted, Start
<1> QED BY <1>3, <1>4, <1>5 DEF Accounted, Start, BonusKnown, BlockConserves, FineSticks

LEMMA InfoAccounted ==
    ASSUME Accounted, Info
    PROVE  Accounted'
<1>1. TypeOK'
  BY BonusFacts DEF Accounted, TypeOK, Info
<1>2. Ready'
  BY DEF Accounted, Info, Ready, Committed
<1>3. SharesExact'
  BY SameChain DEF Accounted, Info
<1> QED BY <1>1, <1>2, <1>3 DEF Accounted, Info, BonusKnown, BlockConserves, FineSticks

LEMMA CrashAccounted ==
    ASSUME Accounted, Crash
    PROVE  Accounted'
<1>1. TypeOK'
  BY DEF Accounted, TypeOK, Crash
<1>2. SharesExact'
  BY SameChain DEF Accounted, Crash
<1> QED BY <1>1, <1>2 DEF Accounted, Crash, Ready, BonusKnown, BlockConserves, FineSticks

\* Fines move value, and take everything from everybody they name.
LEMMA BeginBlockAccounted ==
    ASSUME Accounted, BeginBlock
    PROVE  Accounted'
<1>1. PICK receiver \in Receivers, v \in Votes, e \in Evidence :
         /\ coinbase' = receiver /\ votes' = v
         /\ punished' = {e[i] : i \in DOMAIN e}
         /\ balance' = DoPunish(balance, e, receiver)
  BY DEF BeginBlock
<1>2. receiver \in Accounts /\ v \in [Signers -> Nat]
  BY <1>1, RewardsAssumption
<1>3. e \in Seq(Signers) /\ DOMAIN e = 1..Len(e) /\ \A i \in 1..Len(e) : e[i] \in Signers
  BY <1>1, EvidenceIsSequence, ElementOfSeq
<1>4. balance \in Balances
  BY DEF Accounted, TypeOK, Balances
<1>5. /\ balance' \in Balances /\ Sum(balance') = Sum(balance)
      /\ \A i \in 1..Len(e) : balance'[e[i]] = 0
  BY <1>1, <1>3, <1>4, PunishmentSticks
<1>6. punished' \subseteq Signers
  BY <1>1, <1>3
<1>7. TypeOK'
  <2>1. balance' \in [Accounts -> Nat]
    BY <1>5 DEF Balances
  <2> QED BY <1>1, <1>2, <1>6, <2>1 DEF Accounted, TypeOK, BeginBlock
<1>8. Ready'
  BY DEF Accounted, BeginBlock, Ready, Height, Committed
<1>9. BlockConserves'
  <2>1. balance = Committed(Len(chain)) /\ chain' = chain
    BY DEF Accounted, Ready, BeginBlock
  <2> QED BY <1>5, <2>1 DEF BlockConserves, Committed
<1>10. FineSticks'
  BY <1>1, <1>3, <1>5 DEF FineSticks
<1>11. SharesExact'
  BY SameChain DEF Accounted, BeginBlock
<1>12. BonusKnown'
  BY DEF BonusKnown, BeginBlock
<1> QED BY <1>7, <1>8, <1>9, <1>10, <1>11, <1>12 DEF Accounted

LEMMA DeliverAccounted ==
    ASSUME Accounted, DeliverTransfer
    PROVE  Accounted'
<1>1. PICK from \in Signers, to \in Accounts :
         from # to /\ balance' = Move(balance, from, to, balance[from])
  BY DEF DeliverTransfer
<1>2. balance \in Balances /\ from \in Accounts
  BY AccountFacts DEF Accounted, TypeOK, Balances
<1>3. balance[from] \in Nat /\ balance[from] <= balance[from]
  BY <1>2 DEF Balances
<1>4. balance' \in Balances /\ Sum(balance') = Sum(balance)
  BY <1>1, <1>2, <1>3, MoveConserves
<1>5. TypeOK'
  <2>1. balance' \in [Accounts -> Nat]
    BY <1>4 DEF Balances
  <2> QED BY <2>1 DEF Accounted, TypeOK, DeliverTransfer
<1>6. Ready'
  BY DEF Accounted, DeliverTransfer, Ready, Height
<1>7. BlockConserves'
  BY <1>4 DEF Accounted, DeliverTransfer, BlockConserves, Committed
<1>8. FineSticks' /\ BonusKnown'
  BY DEF Accounted, DeliverTransfer, FineSticks, BonusKnown
<1>9. SharesExact'
  BY SameChain DEF Accounted, DeliverTransfer
<1> QED BY <1>5, <1>6, <1>7, <1>8, <1>9 DEF Accounted

\* What the block that Commit pays issues.
LEMMA CommitIssues ==
    ASSUME Accounted, phase = "block"
    PROVE  /\ ~NilBonus /\ AccumulateRewards \in Balances
           /\ LET issued == Sum(AccumulateRewards) - Sum(Committed(Len(chain)))
              IN  /\ issued >= 0 /\ issued <= Budget(Height)
                  /\ VersionAt[Height] = 3 /\ Sum(votes) > 0 =>
                        Budget(Height) - issued < Sum(votes)
<1>1. minorBonus = InfoBonus /\ minorBonus \in Nat /\ minorBonus # Nil
  BY BonusFacts DEF Accounted, Ready, Nil
<1>2. Height \in 1..MaxHeight /\ Height \in Nat /\ VersionAt[Height] \in Nat
  <2>1. Height \in Nat /\ Height >= 1 /\ Height <= MaxHeight
    BY CommittedTypes DEF Accounted, Ready, Height
  <2>2. MaxHeight \in Nat /\ \A h \in 1..MaxHeight : VersionAt[h] \in Nat
    BY RewardsAssumption, ElementOfSeq DEF MaxHeight
  <2> QED BY <2>1, <2>2
<1>3. votes \in Powers /\ balance \in Balances /\ coinbase \in Accounts
  BY DEF Accounted, TypeOK, Powers, Balances
<1>4. Sum(balance) = Sum(Committed(Len(chain))) /\ Sum(balance) \in Nat
  BY <1>3, SumOfBalances DEF Accounted, BlockConserves
<1>5. ~NilBonus
  BY <1>1 DEF NilBonus
<1>6. SwitchHeight \in Nat
  BY RewardsAssumption
<1>7. CASE VersionAt[Height] >= 4
  <2>1. AccumulateRewards = balance /\ Budget(Height) = 0
    BY <1>7 DEF AccumulateRewards, Budget
  <2>2. ~(VersionAt[Height] = 3)
    BY <1>2, <1>7
  <2> QED BY <1>3, <1>4, <1>5, <2>1, <2>2
<1>8. CASE ~(VersionAt[Height] >= 4)
  <2>1. VersionAt[Height] < 4
    BY <1>2, <1>8
  <2>2. /\ BlockBonus \in Nat /\ ProposerBonus \in Nat
        /\ Budget(Height) = ProposerBonus + BlockBonus
    <3>1. CASE Height <= SwitchHeight
      BY <1>8, <3>1, BonusFacts DEF BlockBonus, ProposerBonus, Budget
    <3>2. CASE ~(Height <= SwitchHeight)
      <4>1. Budget(Height) = 2 * InfoBonus /\ BlockBonus = InfoBonus /\ ProposerBonus = InfoBonus
        BY <1>1, <1>8, <3>2 DEF BlockBonus, ProposerBonus, Budget
      <4> QED BY <4>1, BonusFacts
    <3> QED BY <3>1, <3>2
  <2> DEFINE total == SumOver(Shares, Voters)
  <2>3. /\ AccumulateRewards \in Balances
        /\ Sum(AccumulateRewards) = Sum(balance) + (ProposerBonus + total)
    BY <1>2, <1>3, <2>1, <2>2, RewardsIssued
  <2>4. /\ total \in Nat /\ total <= BlockBonus
        /\ VersionAt[Height] >= 3 /\ WeightSum > 0 => BlockBonus - total < WeightSum
    BY <1>2, <1>3, <2>2, ShareTotal
  <2>5. WeightSum = Sum(votes) /\ WeightSum \in Nat
    BY <1>3, VoterFacts DEF WeightSum
  <2> HIDE DEF total
  <2> DEFINE issued == Sum(AccumulateRewards) - Sum(Committed(Len(chain)))
  <2>6. issued = ProposerBonus + total
    BY <1>4, <2>2, <2>3, <2>4
  <2> HIDE DEF issued
  <2>7. issued >= 0 /\ issued <= Budget(Height)
    BY <2>2, <2>4, <2>6
  <2>8. VersionAt[Height] = 3 /\ Sum(votes) > 0 => Budget(Height) - issued < Sum(votes)
    BY <1>2, <2>2, <2>4, <2>5, <2>6
  <2> QED BY <1>5, <2>3, <2>7, <2>8 DEF issued
<1> QED BY <1>7, <1>8

LEMMA CommitAccounted ==
    ASSUME Accounted, Commit
    PROVE  Accounted'
<1> DEFINE new == AccumulateRewards
           block == [balance |-> new, votes |-> votes]
<1>0. PICK n \in Nat : n = Len(chain) + 1
  BY CommittedTypes DEF Accounted
<1>1. phase = "block" /\ ~NilBonus /\ new \in Balances
  BY CommitIssues DEF Commit
<1>2. /\ phase' = "idle" /\ balance' = new /\ chain' = Append(chain, block)
      /\ punished' = {} /\ UNCHANGED <<minorBonus, coinbase, votes>>
  BY <1>1 DEF Commit
<1>3. /\ chain \in Seq([balance : Balances, votes : Powers]) /\ Len(chain) \in Nat
      /\ votes \in Powers
  BY DEF Accounted, TypeOK, Balances, Powers
<1>4. block \in [balance : Balances, votes : Powers]
  BY <1>1, <1>3
<1> HIDE DEF new
<1>5. /\ chain' \in Seq([balance : Balances, votes : Powers]) /\ Len(chain') = n
      /\ \A h \in 1..Len(chain) : chain'[h] = chain[h]
      /\ chain'[n].balance = new /\ chain'[n].votes = votes
  <2> HIDE DEF block
  <2>1. /\ Append(chain, block) \in Seq([balance : Balances, votes : Powers])
        /\ Len(Append(chain, block)) = Len(chain) + 1
        /\ \A h \in 1..Len(chain) : Append(chain, block)[h] = chain[h]
        /\ Append(chain, block)[Len(chain) + 1] = block
    BY <1>3, <1>4, AppendProperties
  <2>2. block.balance = new /\ block.votes = votes
    BY DEF block
  <2> QED BY <1>0, <1>2, <2>1, <2>2
<1>6. n <= MaxHeight /\ n = Height
  BY <1>0, <1>1 DEF Accounted, Ready, Height
<1>7. TypeOK'
  <2>1. /\ balance' \in [Accounts -> Nat] /\ Len(chain') <= MaxHeight
        /\ chain' \in Seq([balance : [Accounts -> Nat], votes : [Signers -> Nat]])
    BY <1>1, <1>2, <1>5, <1>6 DEF Balances, Powers
  <2> QED BY <1>2, <2>1 DEF Accounted, TypeOK
<1>8. Committed(n)' = new /\ \A h \in 0..Len(chain) : Committed(h)' = Committed(h)
  BY <1>0, <1>3, <1>5 DEF Committed
<1>9. Ready'
  <2>1. minorBonus' = InfoBonus
    BY <1>1, <1>2 DEF Accounted, Ready
  <2> QED BY <1>0, <1>2, <1>3, <1>5, <2>1 DEF Ready, Committed
<1>10. SharesExact'
  <2> SUFFICES ASSUME NEW h \in 1..n PROVE Exact(h)'
    BY <1>5 DEF SharesExact, Exact
  <2>1. CASE h = n
    <3>1. n - 1 = Len(chain) /\ n - 1 \in 0..Len(chain)
      BY <1>0, <1>3
    <3>2. Issued(n)' = Sum(new) - Sum(Committed(Len(chain)))
      BY <1>8, <3>1 DEF Issued
    <3>3. Budget(n)' = Budget(n)
      BY DEF Budget
    <3>4. /\ Issued(n)' >= 0 /\ Issued(n)' <= Budget(n)
          /\ VersionAt[n] = 3 /\ Sum(votes) > 0 => Budget(n) - Issued(n)' < Sum(votes)
      BY <1>1, <1>6, <3>2, CommitIssues DEF new
    <3> QED BY <1>5, <2>1, <3>3, <3>4 DEF Exact
  <2>2. CASE h # n
    <3>1. h \in 1..Len(chain) /\ h \in 0..Len(chain) /\ h - 1 \in 0..Len(chain)
      BY <1>0, <1>3, <2>2
    <3>2. Exact(h)
      BY <3>1 DEF Accounted, SharesExact, Exact
    <3>3. Issued(h)' = Issued(h)
      BY <1>8, <3>1 DEF Issued
    <3>4. Budget(h)' = Budget(h) /\ chain'[h] = chain[h]
      BY <1>5, <3>1 DEF Budget
    <3> QED BY <3>2, <3>3, <3>4 DEF Exact
  <2> QED BY <2>1, <2>2
<1>11. BonusKnown' /\ BlockConserves' /\ FineSticks'
  BY <1>2 DEF BonusKnown, BlockConserves, FineSticks
<1> QED BY <1>7, <1>9, <1>10, <1>11 DEF Accounted

LEMMA StepAccounted ==
    ASSUME Accounted, [Next]_vars
    PROVE  Accounted'
<1>1. CASE UNCHANGED vars
  BY <1>1 DEF vars, Accounted, TypeOK, Ready, BonusKnown, BlockConserves, FineSticks,
              SharesExact, Issued, Budget, Committed, Height
<1>2. CASE Next
  BY <1>2, StartAccounted, InfoAccounted, BeginBlockAccounted, DeliverAccounted,
     CommitAccounted, CrashAccounted DEF Next
<1> QED BY <1>1, <1>2

\* Through fines, transfers, rewards and restarts, all of it holds together.
THEOREM RewardsAccounted == Spec => []Accounted
<1>1. Init => Accounted
  BY InitAccounted
<1>2. Accounted /\ [Next]_vars => Accounted'
  BY StepAccounted
<1> QED BY <1>1, <1>2, PTL DEF Spec

\* No balance becomes negative, and the chain holds blocks of the schedule only.
THEOREM RewardsTypeCorrect == Spec => []TypeOK
<1>1. Accounted => TypeOK
  BY DEF Accounted
<1> QED BY <1>1, RewardsAccounted, PTL

\* accumulateRewards never meets a MinorBonus that Info has not set.
THEOREM BonusIsKnown == Spec => []BonusKnown
<1>1. Accounted => BonusKnown
  BY DEF Accounted
<1> QED BY <1>1, RewardsAccounted, PTL

\* Fines and transactions neither create nor destroy value.
THEOREM BlocksConserve == Spec => []BlockConserves
<1>1. Accounted => BlockConserves
  BY DEF Accounted
<1> QED BY <1>1, RewardsAccounted, PTL

\* DoPunish leaves nothing to a signer that evidence names, whoever proposes.
THEOREM FinesStick == Spec => []FineSticks
<1>1. Accounted => FineSticks
  BY DEF Accounted
<1> QED BY <1>1, RewardsAccounted, PTL

\* accumulateRewards issues the bonus of a block up to one remainder, and never more.
THEOREM SharesAreExact == Spec => []SharesExact
<1>1. Accounted => SharesExact
  BY DEF Accounted
<1> QED BY <1>1, RewardsAccounted, PTL
=============================================================================
