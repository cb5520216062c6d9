----------------------------- MODULE SelectLoop -----------------------------
(***************************************************************************)
(* The loops of enterSelectValidators (types/strategy.go), one iteration   *)
(* per step: draw validators from the current table, then walk the         *)
(* Validators map and append a removal for each that was not drawn.        *)
(*                                                                         *)
(* A draw is any signer of the table: the draws come from a random         *)
(* generator seeded by the block's seed (or walk through the table if      *)
(* there is none).  DtfnApp runs the whole of it in one EndBlock step.     *)
(***************************************************************************)
EXTENDS Integers, Sequences, Sums

CONSTANTS
    Signers,
    SelectCounts,   \* values of --select_count explored
    Versions,       \* block versions explored
    MaxPower,       \* bound: a power stops growing there
    DrawWrap        \* bound: the draw counter of version >= 2 is kept modulo this

ASSUME SelectLoopAssumption ==
    /\ SelectCounts \subseteq Nat /\ Versions \subseteq Nat
    /\ MaxPower \in Nat /\ MaxPower >= 1000 /\ DrawWrap \in Nat \ {0}

VARIABLES
    pc,
    pool,          \* the keys of CurrEpochValData.PosTable.PosItemMap
    previous,      \* the keys of the Validators map at entry
    selectCount, version,
    i,             \* the loop counter
    slice,         \* validatorsSlice
    index,         \* selectedValidators: the position of a signer in slice
    validators,    \* the keys of CurrentHeightValData.Validators
    pending        \* the keys the range over Validators has yet to visit

inputs == <<pool, previous, selectCount, version>>
vars == <<pc, inputs, i, slice, index, validators, pending>>

Update == [signer : Signers, power : 0..MaxPower]
Selected == DOMAIN index
Count == IF selectCount = 0 THEN Cardinality(pool) ELSE selectCount

Init ==
    /\ pc = "draw"
    /\ pool \in SUBSET Signers /\ previous \in SUBSET Signers
    /\ selectCount \in SelectCounts /\ version \in Versions
    /\ i = 0 /\ slice = <<>> /\ index = <<>>
    /\ validators = previous /\ pending = {}

\* Mutants: one draw too many, in the loop of version 1 and in that of version 2.
DrawsOneMore == IF version >= 2 THEN Len(slice) = Count ELSE i > Count
DrawsWaitForMore == IF version >= 2 THEN Len(slice) = Count + 1 ELSE i >= Count

DrawsDone == IF version >= 2 THEN Len(slice) = Count ELSE i >= Count

NextIndex == IF version >= 2 THEN (i + 1) % DrawWrap ELSE i + 1

\* Mutants: the map of selected signers is not consulted; it counts from 0.
DrawUnseen(s) ==
    /\ index' = [u \in Selected \cup {s} |-> IF u = s THEN Len(slice) + 1 ELSE index[u]]
    /\ slice' = Append(slice, [signer |-> s, power |-> 1000])
    /\ validators' = validators \cup {s}
DrawFromZero(s) ==
    /\ s \notin Selected
    /\ index' = [u \in Selected \cup {s} |-> IF u = s THEN Len(slice) ELSE index[u]]
    /\ slice' = Append(slice, [signer |-> s, power |-> 1000])
    /\ validators' = validators \cup {s}

\* The first draw of a signer appends it with power 1000.
DrawNew(s) ==
    /\ s \notin Selected
    /\ index' = [u \in Selected \cup {s} |-> IF u = s THEN Len(slice) + 1 ELSE index[u]]
    /\ slice' = Append(slice, [signer |-> s, power |-> 1000])
    /\ validators' = validators \cup {s}

\* Another draw of it adds one to its power.
DrawAgain(s) ==
    /\ s \in Selected
    /\ slice' = [slice EXCEPT ![index[s]].power = IF @ < MaxPower THEN @ + 1 ELSE @]
    /\ UNCHANGED <<index, validators>>

Draw(s) ==
    /\ pc = "draw" /\ ~DrawsDone
    /\ s \in pool
    /\ DrawNew(s) \/ DrawAgain(s)
    /\ i' = NextIndex
    /\ UNCHANGED <<pc, inputs, pending>>

\* A draw from an empty table: rand.Intn(0) panics.
DrawPanics ==
    /\ pc = "draw" /\ ~DrawsDone /\ pool = {}
    /\ pc' = "panic"
    /\ UNCHANGED <<inputs, i, slice, index, validators, pending>>

EndDraws ==
    /\ pc = "draw" /\ DrawsDone
    /\ pc' = "remove" /\ pending' = validators
    /\ UNCHANGED <<inputs, i, slice, index, validators>>

\* Mutant: a removed validator stays in the map.
RemoveFromSliceOnly(s) ==
    /\ pc = "remove" /\ s \in pending
    /\ pending' = pending \ {s}
    /\ slice' = IF s \in Selected THEN slice
                ELSE Append(slice, [signer |-> s, power |-> 0])
    /\ UNCHANGED <<pc, inputs, i, index, validators>>

\* One entry of the range over the map, in any order; the assignment to the
\* power of a selected entry changes a copy and is lost.
Remove(s) ==
    /\ pc = "remove" /\ s \in pending
    /\ pending' = pending \ {s}
    /\ IF s \in Selected THEN UNCHANGED <<slice, validators>>
       ELSE /\ slice' = Append(slice, [signer |-> s, power |-> 0])
            /\ validators' = validators \ {s}
    /\ UNCHANGED <<pc, inputs, i, index>>

Return ==
    /\ pc = "remove" /\ pending = {}
    /\ pc' = "done"
    /\ UNCHANGED <<inputs, i, slice, index, validators, pending>>

\* The caller has its answer, or the process is gone.
Rest == pc \in {"done", "panic"} /\ UNCHANGED vars

Next ==
    \/ \E s \in Signers : Draw(s) \/ Remove(s)
    \/ DrawPanics \/ EndDraws \/ Return \/ Rest

\* The loop runs on one goroutine, and a random generator draws every signer of
\* the table again and again.
Spec ==
    /\ Init /\ [][Next]_vars
    /\ WF_vars(Next)
    /\ \A s \in Signers : SF_vars(Draw(s))

-----------------------------------------------------------------------------
TypeOK ==
    /\ pc \in {"draw", "remove", "done", "panic"}
    /\ pool \in SUBSET Signers /\ previous \in SUBSET Signers
    /\ selectCount \in SelectCounts /\ version \in Versions /\ i \in Nat
    /\ slice \in Seq(Update)
    /\ Selected \subseteq Signers /\ \A s \in Selected : index[s] \in 1..Len(slice)
    /\ validators \in SUBSET Signers /\ pending \in SUBSET Signers

\* validatorsSlice never names a validator twice: Tendermint refuses a response
\* with two updates of one key.
NoDuplicateUpdate ==
    \A m, n \in 1..Len(slice) : slice[m].signer = slice[n].signer => m = n

\* What is returned turns the previous set into the selected one: a positive
\* power for each selected signer, a removal for exactly the previous ones that
\* were not drawn, and the map holds the selected ones.
ResponseExact ==
    pc = "done" =>
        /\ {slice[n].signer : n \in {m \in 1..Len(slice) : slice[m].power > 0}} = Selected
        /\ {slice[n].signer : n \in {m \in 1..Len(slice) : slice[m].power = 0}}
              = previous \ Selected
        /\ validators = Selected
        /\ Selected \subseteq pool

\* Below version 2 there are exactly as many draws as selectCount says: the
\* repeats of the powers add up to it.
Repeats == [n \in 1..Len(slice) |-> IF slice[n].power = 0 THEN 0 ELSE slice[n].power - 999]
PowersCountDraws == pc = "done" /\ version < 2 => Sum(Repeats) = Count

\* With enough signers in the table the selection comes to an end.
Enough == IF version >= 2 THEN Cardinality(pool) >= Count ELSE pool # {} \/ Count = 0
EndsIfEnough == Enough ~> pc = "done"

\* GetUpdatedValidators returns an updated validator set, whatever the table.
Returns == pool # {} ~> pc = "done"

-----------------------------------------------------------------------------
(***************************************************************************)
(* The inductive invariant behind NoDuplicateUpdate and ResponseExact.     *)
(***************************************************************************)
\* index and slice point at each other: the entries with a power are the selected
\* signers, the others are removals of previous validators that left the map.
Indexed ==
    /\ \A s \in Selected : slice[index[s]].signer = s /\ slice[index[s]].power > 0
    /\ \A n \in 1..Len(slice) :
          IF slice[n].power > 0
          THEN slice[n].signer \in Selected /\ index[slice[n].signer] = n
          ELSE slice[n].signer \in previous \ (Selected \cup validators)

\* The map holds the selected signers and the previous ones still to be visited;
\* whoever else was in it has its removal in the slice.
Removal(s) == \E n \in 1..Len(slice) : slice[n].signer = s /\ slice[n].power = 0
MapUpToDate ==
    /\ Selected \subseteq pool /\ Selected \subseteq validators
    /\ validators \subseteq previous \cup Selected
    /\ pc = "draw" => validators = previous \cup Selected
    /\ pc = "remove" => pending \subseteq validators
    /\ pc \in {"remove", "done"} => validators \subseteq Selected \cup pending
    /\ \A s \in previous \ validators : Removal(s)
    /\ pc = "done" => pending = {}

\* Behind PowersCountDraws: below version 2 the powers add up to the draws so far.
\* Uncapped says that the bound MaxPower stops no power there.
Uncapped ==
    /\ IsFiniteSet(Signers) /\ Cardinality(Signers) + 999 <= MaxPower
    /\ \A c \in SelectCounts : c + 999 <= MaxPower
DrawsCounted ==
    version < 2 =>
        /\ Sum(Repeats) = i /\ i <= Count
        /\ pc \in {"remove", "done"} => i = Count
        /\ \A n \in 1..Len(slice) :
              slice[n].power = 0 \/ (1000 <= slice[n].power /\ slice[n].power <= 999 + i)
=============================================================================
