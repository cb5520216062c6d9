------------------------------ MODULE PosTable ------------------------------
(***************************************************************************)
(* The table of bonded validators, txfilter.PosTable.  Its code lives in   *)
(* the go-ethereum fork that dtfn links against, not in this repository,   *)
(* so every operator here is modelled from how app/, types/ and ethereum/  *)
(* call it.                                                                *)
(*                                                                         *)
(* A signer and the Tendermint address it registers are the same value:    *)
(* the table maps one to the other one-to-one.  A table is a record of     *)
(*   slots     the slots of a signer in PosItemMap, 0 if it is not there   *)
(*   unbondAt  the height it entered UnbondPosItemMap, 0 if it is not there*)
(*   slashed   the unbonding signers whose slots were forfeited            *)
(***************************************************************************)
EXTENDS Integers, FiniteSets

CONSTANTS
    Signers,          \* accounts that may bond
    UnbondWait,       \* blocks an unbonded item is kept for
    AddressRank(_)    \* the order of addresses, TopKSigners' tie breaker

ASSUME UnbondWaitAssumption == UnbondWait \in Nat

Table == [slots : [Signers -> Nat], unbondAt : [Signers -> Nat], slashed : SUBSET Signers]

CreatePosTable ==
    [slots |-> [s \in Signers |-> 0], unbondAt |-> [s \in Signers |-> 0], slashed |-> {}]

\* The keys of PosItemMap and of UnbondPosItemMap.
Bonded(t) == {s \in Signers : t.slots[s] > 0}
Unbonding(t) == {s \in Signers : t.unbondAt[s] > 0}

\* The keys of TmAddressToSignerMap.
Known(t) == Bonded(t) \cup Unbonding(t)

\* InsertPosItem(s, item with n slots) fails on an item without slots and on
\* an address that is registered already.
CanInsert(t, s, n) == n > 0 /\ s \notin Known(t)
InsertPosItem(t, s, n) == [t EXCEPT !.slots[s] = n]

\* RemovePosItem(s, height, slash) fails on a signer that is not bonded; it
\* moves the item to the unbonding ones, without its slots if it is a slash.
CanRemove(t, s) == s \in Bonded(t)
RemovePosItem(t, s, height, slash) ==
    [t EXCEPT !.slots[s] = 0,
              !.unbondAt[s] = height,
              !.slashed = IF slash THEN @ \cup {s} ELSE @]

\* Mutant: a slash takes two slots, however few there are.
SlashTwoSlots(t, S, height) ==
    [slots |-> [s \in Signers |-> IF s \in S THEN t.slots[s] - 2 ELSE t.slots[s]],
     unbondAt |-> [s \in Signers |-> IF s \in S THEN height ELSE t.unbondAt[s]],
     slashed |-> t.slashed \cup S]

\* RemovePosItem(s, height, TRUE) for each member of a set of bonded signers.
SlashAll(t, S, height) ==
    [slots |-> [s \in Signers |-> IF s \in S THEN 0 ELSE t.slots[s]],
     unbondAt |-> [s \in Signers |-> IF s \in S THEN height ELSE t.unbondAt[s]],
     slashed |-> t.slashed \cup S]

\* TryRemoveUnbondPosItems(height) drops the items that have waited long enough.
Released(t, height) == {s \in Unbonding(t) : height - t.unbondAt[s] >= UnbondWait}
TryRemoveUnbondPosItems(t, height) ==
    [t EXCEPT !.unbondAt = [s \in Signers |-> IF s \in Released(t, height) THEN 0 ELSE @[s]],
              !.slashed = @ \ Released(t, height)]

\* The k bonded signers with the most slots.
Outranks(t, s, u) ==
    \/ t.slots[s] > t.slots[u]
    \/ t.slots[s] = t.slots[u] /\ AddressRank(s) < AddressRank(u)
TopKSigners(t, k) ==
    {u \in Bonded(t) : Cardinality({s \in Bonded(t) : Outranks(t, s, u)}) < k}
=============================================================================
