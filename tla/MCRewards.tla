----------------------------- MODULE MCRewards ------------------------------
(***************************************************************************)
(* A small instance of Rewards: years of two blocks, a bonus of 5 below    *)
(* the switch and of 10 above, which the powers do not divide evenly.      *)
(***************************************************************************)
EXTENDS Rewards, TLC

CONSTANTS s, t, u

MCSigners == {s, t}

\* One signer is its own beneficiary, the other is paid elsewhere.
MCBeneficiary == s :> s @@ t :> u

MCGenesisBalance == [a \in Accounts |-> IF a = s THEN 999 ELSE IF a = t THEN 2 ELSE 0]

MCReceivers == {s, u}

\* Everybody, one of two, nobody.
MCVotes == {s :> 2 @@ t :> 1, s :> 0 @@ t :> 3, s :> 0 @@ t :> 0}

\* The production order: the switch lies within version 3, and version 4 ends all.
MCVersionAt == <<2, 3, 3, 4>>
=============================================================================
