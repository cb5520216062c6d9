----------------------------- MODULE MCDtfnApp -----------------------------
(***************************************************************************)
(* Small instances of DtfnApp.  Signers are numbers, ordered as numbers.   *)
(***************************************************************************)
EXTENDS DtfnRefinement

MCAddressRank(s) == s

\* A seed's draws repeat each signer once, starting at the seed; without a
\* seed the draws walk through the table.
MCSeedValue(seed, i) == seed + (i \div 2)
MCHeightValue(index) == index

\* Three signers, the third without genesis balance.
MCInitSlots == [s \in Signers |-> IF s \in GenesisValidators THEN s ELSE 0]

\* As MCInitSlots, but the last genesis validator cannot pay for a slot.
MCPoorInitSlots == [s \in Signers |-> IF s = 1 THEN 1 ELSE 0]

\* Versions 1 and 2 only, within the heights explored.
EarlyHeights == <<3, 50, 60, 72>>

\* All versions, the two fork heights that set the administrator at epoch ends.
ForkHeights == <<1, 2, 3, 6, 7>>

\* A chain that starts at version 4, so that no block pays a reward.
LateHeights == <<1, 1, 1, 3, 5>>

MCVersions == <<2, 3, 4, 5, 6>>
FourVersions == <<2, 3, 4, 5>>
=============================================================================
