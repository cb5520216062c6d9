------------------------------ MODULE Rewards -------------------------------
(***************************************************************************)
(* The amounts: the fines of BeginBlock (app/punishment.go), the bonus     *)
(* that Info computes (app/app.go) and what accumulateRewards pays         *)
(* (ethereum/eth_state.go), block by block with restarts.  Who is in the   *)
(* tables, and who therefore is found, is in DtfnApp: here evidence names  *)
(* signers that the table knows.                                           *)
(***************************************************************************)
EXTENDS Integers, Sequences, Sums

CONSTANTS
    Signers,          \* validators; a fine takes the signer's own balance
    Beneficiary,      \* the account that gets a signer's reward
    ZeroAddress,      \* transferTo of the TransferStrategy in use
    DefaultReceiver,  \* the coinbase if the proposer is not found
    GenesisBalance,   \* balances at genesis; TotalBalance is their sum
    YearBlocks,       \* blocks of a year, 365*24*60*60/5
    SwitchHeight,     \* 3588000: above it the proposer gets a bonus, too
    VersionAt,        \* BlockVersion of every height
    Receivers,        \* what Strategy's Receiver may return
    Votes,            \* power of each signer that voted, 0 if it did not
    EvidenceAt,       \* bound: heights with evidence or transfers
    MaxEvidence       \* bound: evidence of a block

Accounts == Signers \cup {Beneficiary[s] : s \in Signers} \cup {ZeroAddress, DefaultReceiver}
MaxHeight == Len(VersionAt)

\* CurrEpochValData.TotalBalance: set from the genesis file, persisted, never changed.
TotalBalance == Sum(GenesisBalance)

ASSUME RewardsAssumption ==
    /\ IsFiniteSet(Accounts) /\ ZeroAddress \notin Signers
    /\ GenesisBalance \in [Accounts -> Nat]
    /\ YearBlocks \in Nat /\ YearBlocks >= 2 /\ SwitchHeight \in Nat
    /\ VersionAt \in Seq(Nat) /\ Receivers \subseteq Accounts
    /\ Votes \subseteq [Signers -> Nat] /\ MaxEvidence \in Nat

VARIABLES
    phase,       \* down, started, idle, block or halted
    chain,       \* the committed blocks: balances, and the powers that were paid
    balance,     \* the balances of the work state
    minorBonus,  \* CurrEpochValData.MinorBonus, Nil until Info sets it
    coinbase,    \* the receiver in the header
    votes,       \* LastVoteInfo
    punished     \* signers that the block's evidence named, until its first transaction

vars == <<phase, chain, balance, minorBonus, coinbase, votes, punished>>

Nil == -1
NoVotes == [s \in Signers |-> 0]

Height == Len(chain) + 1
Committed(h) == IF h = 0 THEN GenesisBalance ELSE chain[h].balance

Init ==
    /\ phase = "down" /\ chain = <<>> /\ balance = GenesisBalance
    /\ minorBonus = Nil /\ coinbase = DefaultReceiver /\ votes = NoVotes /\ punished = {}

\* NewEthermintApplication: the work state of the chain's head, a new strategy.
Start ==
    /\ phase = "down" /\ phase' = "started"
    /\ balance' = Committed(Len(chain))
    /\ minorBonus' = Nil /\ coinbase' = DefaultReceiver /\ votes' = NoVotes /\ punished' = {}
    /\ UNCHANGED chain

\* The bonus Info computes, in the handshake of every start.
InfoBonus == TotalBalance \div (100 * (YearBlocks \div 2))

\* Mutant: the bonus is computed after the early return of height 0.
InfoAfterReturn ==
    /\ phase = "started" /\ phase' = "idle"
    /\ minorBonus' = IF Len(chain) = 0 THEN minorBonus ELSE InfoBonus
    /\ UNCHANGED <<chain, balance, coinbase, votes, punished>>

Info ==
    /\ phase = "started" /\ phase' = "idle"
    /\ minorBonus' = InfoBonus
    /\ UNCHANGED <<chain, balance, coinbase, votes, punished>>

-----------------------------------------------------------------------------
\* subBalance and TransferStrategy: all of the balance, which is at least the amount.
Move(b, from, to, amount) ==
    IF from = to THEN b ELSE [b EXCEPT ![from] = @ - amount, ![to] = @ + amount]

Fine(b, s) == Move(b, s, ZeroAddress, b[s])

\* Mutants: the fine goes to the coinbase; the amount is read once, before all
\* fines; a fixed amount is not limited to the balance.
PunishToCoinbase(b, evidence, receiver) ==
    LET after[i \in 0..Len(evidence)] ==
            IF i = 0 THEN b
            ELSE Move(after[i - 1], evidence[i], receiver, after[i - 1][evidence[i]])
    IN  after[Len(evidence)]
PunishOldAmount(b, evidence, receiver) ==
    LET after[i \in 0..Len(evidence)] ==
            IF i = 0 THEN b
            ELSE [after[i - 1] EXCEPT ![evidence[i]] = 0, ![ZeroAddress] = @ + b[evidence[i]]]
    IN  after[Len(evidence)]
PunishUnlimited(b, evidence, receiver) ==
    LET after[i \in 0..Len(evidence)] ==
            IF i = 0 THEN b ELSE Move(after[i - 1], evidence[i], ZeroAddress, 3)
    IN  after[Len(evidence)]

\* DoPunish: one piece of evidence after the other.  The receiver is not used: the
\* type assertion for TransferStrategy fails on the pointer that is installed.
DoPunish(b, evidence, receiver) ==
    LET after[i \in 0..Len(evidence)] ==
            IF i = 0 THEN b ELSE Fine(after[i - 1], evidence[i])
    IN  after[Len(evidence)]

Evidence == UNION {[1..n -> Signers] : n \in 0..MaxEvidence}

BeginBlock ==
    /\ phase = "idle" /\ Height <= MaxHeight
    /\ \E receiver \in Receivers, v \in Votes, e \in Evidence :
        /\ Height \notin EvidenceAt => e = <<>>
        /\ coinbase' = receiver /\ votes' = v
        /\ punished' = {e[i] : i \in DOMAIN e}
        /\ balance' = DoPunish(balance, e, receiver)
    /\ phase' = "block"
    /\ UNCHANGED <<chain, minorBonus>>

\* A transaction; the largest there is, moving all that a signer has.
DeliverTransfer ==
    /\ phase = "block" /\ Height \in EvidenceAt
    /\ \E from \in Signers, to \in Accounts :
        /\ from # to /\ balance[from] > 0
        /\ balance' = Move(balance, from, to, balance[from])
    /\ punished' = {}
    /\ UNCHANGED <<phase, chain, minorBonus, coinbase, votes>>

-----------------------------------------------------------------------------
(***************************************************************************)
(* AccumulateRewards.                                                      *)
(***************************************************************************)
WeightSum == Sum(votes)
Voters == {s \in Signers : votes[s] > 0}

\* The bonus of a block, and what the proposer gets besides.
BlockBonus ==
    IF Height <= SwitchHeight THEN TotalBalance \div (100 * YearBlocks) ELSE minorBonus
ProposerBonus == IF Height <= SwitchHeight THEN 0 ELSE minorBonus

\* Mutant: the bonus is divided by the number of voters, not by their powers.
ShareOfVoters(s) ==
    LET average == BlockBonus \div Cardinality(Voters)
    IN  IF VersionAt[Height] >= 3 THEN votes[s] * average ELSE average

\* A voter's share: rounded first, multiplied by its power from version 3 on.
Share(s) ==
    LET average == BlockBonus \div WeightSum
    IN  IF VersionAt[Height] >= 3 THEN votes[s] * average ELSE average

Reward(a) ==
    (IF a = coinbase THEN ProposerBonus ELSE 0)
    + SumOver([s \in Voters |-> Share(s)], {s \in Voters : Beneficiary[s] = a})

AccumulateRewards ==
    IF VersionAt[Height] >= 4 THEN balance
    ELSE [a \in Accounts |-> balance[a] + Reward(a)]

NilBonus == VersionAt[Height] < 4 /\ Height > SwitchHeight /\ minorBonus = Nil

\* A nil MinorBonus stops the node; else the block is written and the next work
\* state starts from it.
Commit ==
    /\ phase = "block"
    /\ IF NilBonus
       THEN phase' = "halted" /\ UNCHANGED <<chain, balance>>
       ELSE /\ phase' = "idle"
            /\ balance' = AccumulateRewards
            /\ chain' = Append(chain, [balance |-> balance', votes |-> votes])
    /\ punished' = {}
    /\ UNCHANGED <<minorBonus, coinbase, votes>>

Crash ==
    /\ phase # "down" /\ phase' = "down"
    /\ UNCHANGED <<chain, balance, minorBonus, coinbase, votes, punished>>

Next == Start \/ Info \/ BeginBlock \/ DeliverTransfer \/ Commit \/ Crash

Spec == Init /\ [][Next]_vars

-----------------------------------------------------------------------------
TypeOK ==
    /\ phase \in {"down", "started", "idle", "block", "halted"}
    /\ balance \in [Accounts -> Nat] /\ minorBonus \in Nat \cup {Nil}
    /\ coinbase \in Accounts /\ votes \in [Signers -> Nat] /\ punished \subseteq Signers
    /\ chain \in Seq([balance : [Accounts -> Nat], votes : [Signers -> Nat]])
    /\ Len(chain) <= MaxHeight

\* The bonus that is not persisted is there when the first block above the
\* switch pays it, whenever the node was started last.
BonusKnown == phase # "halted"

\* Until Commit a block only moves value: fines, repeated evidence against one
\* signer included, neither create nor destroy any.
BlockConserves == phase = "block" => Sum(balance) = Sum(Committed(Len(chain)))

\* A signer that a block's evidence names has lost all of its balance when the
\* first transaction runs, even if it proposed the block itself.
FineSticks == phase = "block" => \A s \in punished : balance[s] = 0

\* What a block issues: never more than its bonus, also before version 3, where
\* shares are not multiplied; from version 3 on, if anybody voted, less by the
\* remainder of one division only.
Issued(h) == Sum(Committed(h)) - Sum(Committed(h - 1))
Budget(h) ==
    IF VersionAt[h] >= 4 THEN 0
    ELSE IF h <= SwitchHeight THEN TotalBalance \div (100 * YearBlocks)
    ELSE 2 * InfoBonus
SharesExact ==
    \A h \in 1..Len(chain) :
        /\ Issued(h) >= 0 /\ Issued(h) <= Budget(h)
        /\ VersionAt[h] = 3 /\ Sum(chain[h].votes) > 0 =>
              Budget(h) - Issued(h) < Sum(chain[h].votes)

\* "For 1% every year increment": the blocks of a year issue at most a hundredth
\* of the genesis balance.
YearlyIncrement ==
    \A h \in 1..Len(chain) :
        LET yearAgo == IF h > YearBlocks THEN h - YearBlocks ELSE 0
        IN  100 * (Sum(Committed(h)) - Sum(Committed(yearAgo))) <= TotalBalance

-----------------------------------------------------------------------------
\* The inductive invariant behind the others: where the bonus is known, where the
\* work state is the committed one, and that a block is one of the schedule.
Ready ==
    /\ phase \in {"idle", "block"} => minorBonus = InfoBonus
    /\ phase \in {"started", "idle"} => balance = Committed(Len(chain))
    /\ phase = "block" => Height <= MaxHeight
=============================================================================
