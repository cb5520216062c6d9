-------------------------- MODULE SelectLoopProofs --------------------------
(***************************************************************************)
(* Theorems about SelectLoop, for every table, every previous set, every   *)
(* count and version, and every order of the draws and of the map.         *)
(***************************************************************************)
EXTENDS SelectLoop, SumProofs, SequenceTheorems

Consistent == TypeOK /\ NoDuplicateUpdate /\ Indexed /\ MapUpToDate

\* Appending to the slice: what is there stays, and the new entry is the last.
LEMMA AppendEntry ==
    ASSUME NEW q \in Seq(Update), NEW e \in Update
    PROVE  /\ Append(q, e) \in Seq(Update)
           /\ Len(q) \in Nat /\ Len(Append(q, e)) = Len(q) + 1
           /\ \A n \in 1..Len(q) : Append(q, e)[n] = q[n]
           /\ Append(q, e)[Len(q) + 1] = e
           /\ \A n \in 1..Len(Append(q, e)) : n \in 1..Len(q) \/ n = Len(q) + 1
<1>1. /\ Append(q, e) \in Seq(Update)
      /\ Len(q) \in Nat /\ Len(Append(q, e)) = Len(q) + 1
      /\ Append(q, e)[Len(q) + 1] = e
  BY AppendProperties
<1>2. \A n \in 1..Len(q) : Append(q, e)[n] = q[n]
  BY AppendProperties
<1> QED BY <1>1, <1>2

LEMMA ConsistentInit == Init => Consistent
<1> SUFFICES ASSUME Init PROVE Consistent
  OBVIOUS
<1>1. Len(slice) = 0 /\ Selected = {} /\ slice \in Seq(Update)
  BY DEF Init, Selected
<1>2. TypeOK
  BY <1>1 DEF Init, TypeOK, Selected
<1> QED BY <1>1, <1>2 DEF Init, Consistent, NoDuplicateUpdate, Indexed, MapUpToDate, Removal

\* The first draw of a signer.
LEMMA ConsistentDrawNew ==
    ASSUME Consistent, NEW s \in Signers, Draw(s), DrawNew(s)
    PROVE  Consistent'
<1> DEFINE e == [signer |-> s, power |-> 1000]
           len == Len(slice)
<1>1. /\ pc = "draw" /\ s \in pool /\ s \notin Selected
      /\ index' = [u \in Selected \cup {s} |-> IF u = s THEN len + 1 ELSE index[u]]
      /\ slice' = Append(slice, e)
      /\ validators' = validators \cup {s} /\ i' = NextIndex
      /\ UNCHANGED <<pc, pool, previous, selectCount, version, pending>>
  BY DEF Draw, DrawNew, inputs
<1>2. e \in Update /\ e.signer = s /\ e.power = 1000
  BY SelectLoopAssumption DEF Update
<1> HIDE DEF e
<1>3. slice \in Seq(Update)
  BY DEF Consistent, TypeOK
<1>4. /\ slice' \in Seq(Update) /\ len \in Nat /\ Len(slice') = len + 1
      /\ \A n \in 1..len : slice'[n] = slice[n]
      /\ slice'[len + 1] = e
      /\ \A n \in 1..Len(slice') : n \in 1..len \/ n = len + 1
  BY <1>1, <1>2, <1>3, AppendEntry
<1>5. /\ Selected' = Selected \cup {s}
      /\ \A u \in Selected : index'[u] = index[u] /\ index'[s] = len + 1
  BY <1>1 DEF Selected
<1> HIDE DEF len
<1>7. validators = previous \cup Selected /\ Selected \subseteq pool
  BY <1>1 DEF Consistent, MapUpToDate
<1>8. \A n \in 1..len : slice[n].signer \in Selected /\ index[slice[n].signer] = n
  <2>1. \A n \in 1..len : IF slice[n].power > 0
          THEN slice[n].signer \in Selected /\ index[slice[n].signer] = n
          ELSE slice[n].signer \in previous \ (Selected \cup validators)
    BY DEF Consistent, Indexed, len
  <2> QED BY <1>7, <2>1
<1>9. TypeOK'
  <2>1. i' \in Nat
    BY <1>1, SelectLoopAssumption DEF NextIndex, Consistent, TypeOK
  <2>2. index'[s] = len + 1
    BY <1>1
  <2>3. \A u \in Selected : index[u] \in 1..len
    BY DEF Consistent, TypeOK, len
  <2>4. \A u \in Selected' : index'[u] \in 1..Len(slice')
    BY <1>4, <1>5, <2>2, <2>3
  <2> QED BY <1>1, <1>4, <1>5, <2>1, <2>4 DEF Consistent, TypeOK
<1>10. NoDuplicateUpdate'
  BY <1>1, <1>2, <1>4, <1>8 DEF Consistent, NoDuplicateUpdate, len
<1>11. Indexed'
  <2>1. ASSUME NEW u \in Selected' PROVE slice'[index'[u]].signer = u /\ slice'[index'[u]].power > 0
    <3>1. CASE u = s
      BY <1>1, <1>2, <1>4, <3>1
    <3>2. CASE u \in Selected
      <4>1. index[u] \in 1..len /\ slice[index[u]].signer = u /\ slice[index[u]].power > 0
        BY <3>2 DEF Consistent, TypeOK, Indexed, len
      <4> QED BY <1>4, <1>5, <3>2, <4>1
    <3> QED BY <1>5, <3>1, <3>2
  <2>2. ASSUME NEW n \in 1..Len(slice')
        PROVE  /\ slice'[n].signer \in Selected' /\ index'[slice'[n].signer] = n
               /\ slice'[n].power > 0
    <3>1. CASE n \in 1..len
      <4>1. slice[n].power > 0
        BY <1>8, <3>1 DEF Consistent, Indexed, len
      <4> QED BY <1>4, <1>5, <1>8, <3>1, <4>1
    <3>2. CASE n = len + 1
      BY <1>1, <1>2, <1>4, <1>5, <3>2
    <3> QED BY <1>4, <3>1, <3>2
  <2> QED BY <2>1, <2>2 DEF Indexed
<1>12. MapUpToDate'
  BY <1>1, <1>5, <1>7 DEF MapUpToDate, Removal
<1> QED BY <1>9, <1>10, <1>11, <1>12 DEF Consistent

\* Another draw of a selected signer.
LEMMA ConsistentDrawAgain ==
    ASSUME Consistent, NEW s \in Signers, Draw(s), DrawAgain(s)
    PROVE  Consistent'
<1> DEFINE k == index[s]
<1>1. /\ s \in Selected /\ i' = NextIndex
      /\ slice' = [slice EXCEPT ![k].power = IF @ < MaxPower THEN @ + 1 ELSE @]
      /\ UNCHANGED <<pc, pool, previous, selectCount, version, index, validators, pending>>
  BY DEF Draw, DrawAgain, inputs
<1>2. slice \in Seq(Update) /\ k \in 1..Len(slice) /\ slice[k].power > 0
  BY <1>1 DEF Consistent, TypeOK, Indexed
<1>3. slice[k] \in Update /\ slice[k].power \in 0..MaxPower /\ MaxPower \in Nat
  <2>1. slice[k] \in Update
    BY <1>2, ElementOfSeq
  <2> QED BY <2>1, SelectLoopAssumption DEF Update
<1> DEFINE x == IF slice[k].power < MaxPower THEN slice[k].power + 1 ELSE slice[k].power
           e == [slice[k] EXCEPT !.power = x]
<1>4. x \in 0..MaxPower /\ x > 0
  BY <1>2, <1>3
<1>5. slice' = [slice EXCEPT ![k] = e]
  BY <1>1
<1> HIDE DEF x
<1>6. e \in Update /\ e.signer = slice[k].signer /\ e.power = x
  BY <1>3, <1>4 DEF Update
<1> HIDE DEF e, k
<1>7. slice' \in Seq(Update) /\ Len(slice') = Len(slice)
  BY <1>2, <1>5, <1>6, ExceptSeq
<1>8. \A n \in 1..Len(slice) : slice'[n] = IF n = k THEN e ELSE slice[n]
  BY <1>2, <1>5
<1>9. ASSUME NEW n \in 1..Len(slice)
      PROVE  /\ slice'[n].signer = slice[n].signer
             /\ slice'[n].power > 0 <=> slice[n].power > 0
             /\ slice'[n].power = 0 <=> slice[n].power = 0
  BY <1>2, <1>3, <1>4, <1>6, <1>8
<1>10. i' \in Nat
  BY <1>1, SelectLoopAssumption DEF NextIndex, Consistent, TypeOK
<1>11. Selected' = Selected
  BY <1>1 DEF Selected
<1>12. TypeOK'
  BY <1>1, <1>7, <1>10, <1>11 DEF Consistent, TypeOK
<1>13. NoDuplicateUpdate'
  BY <1>7, <1>9 DEF Consistent, NoDuplicateUpdate
<1>14. Indexed'
  <2>1. ASSUME NEW u \in Selected'
        PROVE  slice'[index'[u]].signer = u /\ slice'[index'[u]].power > 0
    <3>1. index'[u] = index[u] /\ index[u] \in 1..Len(slice)
      BY <1>1, <1>11 DEF Consistent, TypeOK
    <3>2. slice[index[u]].signer = u /\ slice[index[u]].power > 0
      BY <1>11 DEF Consistent, Indexed
    <3> QED BY <1>9, <3>1, <3>2
  <2>2. ASSUME NEW n \in 1..Len(slice')
        PROVE  IF slice'[n].power > 0
               THEN slice'[n].signer \in Selected' /\ index'[slice'[n].signer] = n
               ELSE slice'[n].signer \in previous' \ (Selected' \cup validators')
    <3>1. n \in 1..Len(slice)
      BY <1>7
    <3>2. IF slice[n].power > 0
          THEN slice[n].signer \in Selected /\ index[slice[n].signer] = n
          ELSE slice[n].signer \in previous \ (Selected \cup validators)
      BY <3>1 DEF Consistent, Indexed
    <3> QED BY <1>1, <1>9, <1>11, <3>1, <3>2
  <2> QED BY <2>1, <2>2 DEF Indexed
<1>15. MapUpToDate'
  <2>1. ASSUME NEW u \in Signers, Removal(u) PROVE Removal(u)'
    BY <1>7, <1>9, <2>1 DEF Removal
  <2>2. previous' \ validators' \subseteq Signers
    BY <1>1 DEF Consistent, TypeOK
  <2> QED BY <1>1, <1>11, <2>1, <2>2 DEF Consistent, MapUpToDate
<1> QED BY <1>12, <1>13, <1>14, <1>15 DEF Consistent

\* A visit to an entry of the map.
LEMMA ConsistentRemove ==
    ASSUME Consistent, NEW s \in Signers, Remove(s)
    PROVE  Consistent'
<1>1. /\ pc = "remove" /\ s \in pending /\ pending' = pending \ {s}
      /\ UNCHANGED <<pc, pool, previous, selectCount, version, i, index>>
  BY DEF Remove, inputs
<1>2. Selected' = Selected
  BY <1>1 DEF Selected
<1>3. /\ Selected \subseteq pool /\ Selected \subseteq validators
      /\ validators \subseteq previous \cup Selected
      /\ pending \subseteq validators /\ validators \subseteq Selected \cup pending
      /\ \A u \in previous \ validators : Removal(u)
  BY <1>1 DEF Consistent, MapUpToDate
<1>4. CASE s \in Selected
  <2>1. slice' = slice /\ validators' = validators
    BY <1>4 DEF Remove
  <2>2. TypeOK'
    BY <1>1, <1>2, <2>1 DEF Consistent, TypeOK
  <2>3. NoDuplicateUpdate' /\ Indexed'
    BY <1>1, <1>2, <2>1 DEF Consistent, NoDuplicateUpdate, Indexed
  <2>4. MapUpToDate'
    BY <1>1, <1>2, <1>3, <1>4, <2>1 DEF MapUpToDate, Removal
  <2> QED BY <2>2, <2>3, <2>4 DEF Consistent
<1>5. CASE s \notin Selected
  <2> DEFINE e == [signer |-> s, power |-> 0]
             len == Len(slice)
  <2>1. slice' = Append(slice, e) /\ validators' = validators \ {s}
    BY <1>5 DEF Remove
  <2>2. e \in Update /\ e.signer = s /\ e.power = 0
    BY SelectLoopAssumption DEF Update
  <2> HIDE DEF e
  <2>3. slice \in Seq(Update)
    BY DEF Consistent, TypeOK
  <2>4. /\ slice' \in Seq(Update) /\ len \in Nat /\ Len(slice') = len + 1
        /\ \A n \in 1..len : slice'[n] = slice[n]
        /\ slice'[len + 1] = e
        /\ \A n \in 1..Len(slice') : n \in 1..len \/ n = len + 1
    BY <2>1, <2>2, <2>3, AppendEntry
  <2>5. /\ \A u \in Selected : /\ index[u] \in 1..len
                               /\ slice[index[u]].signer = u /\ slice[index[u]].power > 0
        /\ \A n \in 1..len :
              IF slice[n].power > 0
              THEN slice[n].signer \in Selected /\ index[slice[n].signer] = n
              ELSE slice[n].signer \in previous \ (Selected \cup validators)
        /\ \A m, n \in 1..len : slice[m].signer = slice[n].signer => m = n
    BY DEF Consistent, TypeOK, Indexed, NoDuplicateUpdate
  <2>6. \A u \in previous \ validators : \E n \in 1..len : slice[n].signer = u /\ slice[n].power = 0
    BY <1>3 DEF Removal
  <2> HIDE DEF len
  <2>7. s \in validators /\ s \in previous
    BY <1>1, <1>3, <1>5
  <2>8. \A n \in 1..len : slice[n].signer # s
    BY <1>5, <2>5, <2>7
  <2>9. TypeOK'
    <3>1. \A u \in Selected' : index'[u] \in 1..Len(slice')
      BY <1>1, <1>2, <2>4, <2>5
    <3> QED BY <1>1, <1>2, <2>1, <2>4, <3>1 DEF Consistent, TypeOK
  <2>10. NoDuplicateUpdate'
    BY <2>2, <2>4, <2>5, <2>8 DEF NoDuplicateUpdate
  <2>11. Indexed'
    <3>1. ASSUME NEW u \in Selected'
          PROVE  slice'[index'[u]].signer = u /\ slice'[index'[u]].power > 0
      BY <1>1, <1>2, <2>4, <2>5
    <3>2. ASSUME NEW n \in 1..Len(slice')
          PROVE  IF slice'[n].power > 0
                 THEN slice'[n].signer \in Selected' /\ index'[slice'[n].signer] = n
                 ELSE slice'[n].signer \in previous' \ (Selected' \cup validators')
      <4>1. CASE n \in 1..len
        BY <1>1, <1>2, <2>1, <2>4, <2>5, <4>1
      <4>2. CASE n = len + 1
        BY <1>1, <1>2, <1>5, <2>1, <2>2, <2>4, <2>7, <4>2
      <4> QED BY <2>4, <4>1, <4>2
    <3> QED BY <3>1, <3>2 DEF Indexed
  <2>12. MapUpToDate'
    <3>1. ASSUME NEW u \in previous' \ validators' PROVE Removal(u)'
      <4>1. CASE u = s
        <5>1. len + 1 \in 1..Len(slice') /\ slice'[len + 1].signer = u /\ slice'[len + 1].power = 0
          BY <2>2, <2>4, <4>1
        <5> QED BY <5>1 DEF Removal
      <4>2. CASE u # s
        <5>1. PICK n \in 1..len : slice[n].signer = u /\ slice[n].power = 0
          BY <1>1, <2>1, <2>6, <4>2
        <5>2. n \in 1..Len(slice') /\ slice'[n].signer = u /\ slice'[n].power = 0
          BY <2>4, <5>1
        <5> QED BY <5>2 DEF Removal
      <4> QED BY <4>1, <4>2
    <3> QED BY <1>1, <1>2, <1>3, <1>5, <2>1, <3>1 DEF MapUpToDate
  <2> QED BY <2>9, <2>10, <2>11, <2>12 DEF Consistent
<1> QED BY <1>4, <1>5

\* Steps that leave the slice, the index and the map alone.
LEMMA ConsistentControl ==
    ASSUME Consistent, DrawPanics \/ EndDraws \/ Return \/ UNCHANGED vars
    PROVE  Consistent'
<1>1. UNCHANGED <<pool, previous, selectCount, version, i, slice, index, validators>>
  BY DEF DrawPanics, EndDraws, Return, vars, inputs
<1>2. Selected' = Selected
  BY <1>1 DEF Selected
<1>3. TypeOK'
  BY <1>1, <1>2 DEF Consistent, TypeOK, DrawPanics, EndDraws, Return, vars
<1>4. NoDuplicateUpdate' /\ Indexed'
  BY <1>1, <1>2 DEF Consistent, NoDuplicateUpdate, Indexed
<1>5. \A u : Removal(u)' <=> Removal(u)
  BY <1>1 DEF Removal
<1>6. MapUpToDate'
  BY <1>1, <1>2, <1>5 DEF Consistent, MapUpToDate, DrawPanics, EndDraws, Return, vars
<1> QED BY <1>3, <1>4, <1>6 DEF Consistent

LEMMA ConsistentStep == Consistent /\ [Next]_vars => Consistent'
<1> SUFFICES ASSUME Consistent, [Next]_vars PROVE Consistent'
  OBVIOUS
<1>1. ASSUME NEW s \in Signers, Draw(s) PROVE Consistent'
  <2>1. DrawNew(s) \/ DrawAgain(s)
    BY <1>1 DEF Draw
  <2> QED BY <1>1, <2>1, ConsistentDrawNew, ConsistentDrawAgain
<1>2. ASSUME NEW s \in Signers, Remove(s) PROVE Consistent'
  BY <1>2, ConsistentRemove
<1>3. CASE DrawPanics \/ EndDraws \/ Return \/ UNCHANGED vars
  BY <1>3, ConsistentControl
<1> QED BY <1>1, <1>2, <1>3 DEF Next, Rest

\* The answer is exact once the range over the map has ended.
LEMMA ConsistentIsExact == Consistent => ResponseExact
<1> SUFFICES ASSUME Consistent, pc = "done" PROVE ResponseExact
  BY DEF ResponseExact
<1>1. /\ Selected \subseteq pool /\ validators = Selected
      /\ \A u \in previous \ validators : Removal(u)
  BY DEF Consistent, MapUpToDate
<1>2. \A u \in Selected : index[u] \in 1..Len(slice)
  BY DEF Consistent, TypeOK
<1>3. \A n \in 1..Len(slice) : slice[n] \in Update /\ slice[n].power \in 0..MaxPower
  <2>1. slice \in Seq(Update)
    BY DEF Consistent, TypeOK
  <2>2. \A n \in 1..Len(slice) : slice[n] \in Update
    BY <2>1, ElementOfSeq
  <2> QED BY <2>2, SelectLoopAssumption DEF Update
<1>4. {slice[n].signer : n \in {m \in 1..Len(slice) : slice[m].power > 0}} = Selected
  BY <1>2 DEF Consistent, Indexed
<1>5. {slice[n].signer : n \in {m \in 1..Len(slice) : slice[m].power = 0}} = previous \ Selected
  <2>1. ASSUME NEW n \in 1..Len(slice), slice[n].power = 0
        PROVE  slice[n].signer \in previous \ Selected
    BY <2>1 DEF Consistent, Indexed
  <2> QED BY <1>1, <2>1 DEF Removal
<1> QED BY <1>1, <1>4, <1>5 DEF ResponseExact

-----------------------------------------------------------------------------
\* Whatever is drawn and in whatever order the map is walked, the slice and the
\* index point at each other and the map holds what has not been removed.
THEOREM SelectionConsistent == Spec => []Consistent
BY ConsistentInit, ConsistentStep, PTL DEF Spec

\* The state of the loops of enterSelectValidators keeps its types.
THEOREM SelectTypeCorrect == Spec => []TypeOK
<1>1. Consistent => TypeOK
  BY DEF Consistent
<1> QED BY <1>1, SelectionConsistent, PTL

\* validatorsSlice never holds two updates of one validator.
THEOREM UpdatesAreDistinct == Spec => []NoDuplicateUpdate
<1>1. Consistent => NoDuplicateUpdate
  BY DEF Consistent
<1> QED BY <1>1, SelectionConsistent, PTL

\* What enterSelectValidators returns turns the previous set into the selected one.
THEOREM SelectionIsExact == Spec => []ResponseExact
BY ConsistentIsExact, SelectionConsistent, PTL

-----------------------------------------------------------------------------
(* The powers count the draws. *)

Counting == Consistent /\ DrawsCounted

\* The entries of the slice, and how often each was drawn.
LEMMA EntryTypes ==
    ASSUME TypeOK
    PROVE  /\ Len(slice) \in Nat /\ Sum(Repeats) = SumOver(Repeats, 1..Len(slice))
           /\ \A n \in 1..Len(slice) : slice[n] \in Update /\ slice[n].power \in Nat
           /\ Repeats \in [1..Len(slice) -> Int]
<1>1. slice \in Seq(Update) /\ Len(slice) \in Nat
  BY DEF TypeOK
<1>2. \A n \in 1..Len(slice) : slice[n] \in Update /\ slice[n].power \in Nat
  <2>1. \A n \in 1..Len(slice) : slice[n] \in Update
    BY <1>1, ElementOfSeq
  <2> QED BY <2>1, SelectLoopAssumption DEF Update
<1>3. Repeats \in [1..Len(slice) -> Int]
  BY <1>2 DEF Repeats
<1>4. DOMAIN Repeats = 1..Len(slice)
  BY DEF Repeats
<1> QED BY <1>1, <1>2, <1>3, <1>4 DEF Sum

\* An entry appended to the slice adds its own repeats.
LEMMA RepeatsOfAppend ==
    ASSUME TypeOK, TypeOK', NEW e \in Update, slice' = Append(slice, e)
    PROVE  Sum(Repeats)' = Sum(Repeats) + (IF e.power = 0 THEN 0 ELSE e.power - 999)
<1>0. PICK len \in Nat : len = Len(slice)
  BY EntryTypes
<1>1. /\ Len(slice') = len + 1
      /\ \A n \in 1..len : slice'[n] = slice[n] /\ slice'[len + 1] = e
  BY <1>0, AppendEntry DEF TypeOK
<1>2. Sum(Repeats) = SumOver(Repeats, 1..len) /\ Sum(Repeats)' = SumOver(Repeats', 1..(len + 1))
  <2>1. DOMAIN Repeats = 1..len /\ DOMAIN Repeats' = 1..(len + 1)
    BY <1>0, <1>1 DEF Repeats
  <2> QED BY <2>1 DEF Sum
<1>3. slice'[len + 1] = e
  BY <1>0, AppendEntry DEF TypeOK
<1>4. /\ \A n \in 1..len : Repeats[n] = Repeats'[n]
      /\ Repeats'[len + 1] = IF e.power = 0 THEN 0 ELSE e.power - 999
  <2>1. \A n \in 1..len : n \in 1..(len + 1)
    OBVIOUS
  <2>2. len + 1 \in 1..(len + 1)
    OBVIOUS
  <2> QED BY <1>0, <1>1, <1>3, <2>1, <2>2 DEF Repeats
<1>5. \A n \in 1..(len + 1) : Repeats'[n] \in Int
  <2>1. e.power \in Int
    BY SelectLoopAssumption DEF Update
  <2>2. \A n \in 1..len : Repeats[n] \in Int
    BY <1>0, EntryTypes
  <2>3. \A n \in 1..(len + 1) : n \in 1..len \/ n = len + 1
    OBVIOUS
  <2> QED BY <1>4, <2>1, <2>2, <2>3
<1>6. SumOver(Repeats', 1..(len + 1)) = SumOver(Repeats, 1..len) + Repeats'[len + 1]
  BY <1>4, <1>5, SumAppend
<1> QED BY <1>2, <1>4, <1>6

LEMMA CountFacts ==
    ASSUME Uncapped, TypeOK
    PROVE  Count \in Nat /\ Count + 999 <= MaxPower /\ MaxPower \in Nat
<1>1. IsFiniteSet(pool) /\ Cardinality(pool) <= Cardinality(Signers)
  BY FS_Subset DEF Uncapped, TypeOK
<1>2. Cardinality(pool) \in Nat /\ Cardinality(Signers) \in Nat
  BY <1>1, FS_CardinalityType DEF Uncapped
<1>3. selectCount \in Nat /\ MaxPower \in Nat
  BY SelectLoopAssumption DEF TypeOK
<1>4. selectCount + 999 <= MaxPower
  BY DEF Uncapped, TypeOK
<1> QED BY <1>1, <1>2, <1>3, <1>4 DEF Count, Uncapped

LEMMA CountingDrawNew ==
    ASSUME Uncapped, Counting, NEW s \in Signers, Draw(s), DrawNew(s)
    PROVE  DrawsCounted'
<1> SUFFICES ASSUME version' < 2 PROVE DrawsCounted'
  BY DEF DrawsCounted
<1> DEFINE e == [signer |-> s, power |-> 1000]
<1>1. /\ pc = "draw" /\ ~DrawsDone /\ slice' = Append(slice, e) /\ i' = NextIndex
      /\ UNCHANGED <<pc, pool, selectCount, version>>
  BY DEF Draw, DrawNew, inputs
<1>2. TypeOK /\ TypeOK'
  BY ConsistentDrawNew DEF Counting, Consistent
<1>3. version \in Nat /\ version < 2 /\ i \in Nat /\ Count \in Nat /\ Count' = Count
  BY <1>1, <1>2, CountFacts, SelectLoopAssumption DEF TypeOK, Count
<1>4. i' = i + 1 /\ i < Count
  BY <1>1, <1>3 DEF NextIndex, DrawsDone
<1>5. e \in Update /\ e.power = 1000
  BY SelectLoopAssumption DEF Update
<1> HIDE DEF e
<1>6. Sum(Repeats)' = Sum(Repeats) + 1
  BY <1>1, <1>2, <1>5, RepeatsOfAppend
<1>7. /\ Sum(Repeats) = i
      /\ \A n \in 1..Len(slice) :
            slice[n].power = 0 \/ (1000 <= slice[n].power /\ slice[n].power <= 999 + i)
  BY <1>3 DEF Counting, DrawsCounted
<1>8. ASSUME NEW n \in 1..Len(slice')
      PROVE  slice'[n].power = 0 \/ (1000 <= slice'[n].power /\ slice'[n].power <= 999 + i')
  <2>1. slice \in Seq(Update)
    BY <1>2 DEF TypeOK
  <2>2. CASE n \in 1..Len(slice)
    <3>1. slice'[n] = slice[n] /\ slice[n].power \in Nat
      BY <1>1, <1>2, <1>5, <2>1, <2>2, AppendEntry, EntryTypes
    <3> QED BY <1>3, <1>4, <1>7, <2>2, <3>1
  <2>3. CASE n = Len(slice) + 1
    <3>1. slice'[n] = e
      BY <1>1, <1>5, <2>1, <2>3, AppendEntry
    <3> QED BY <1>3, <1>4, <1>5, <3>1
  <2> QED BY <1>1, <1>5, <2>1, <2>2, <2>3, AppendEntry
<1>9. i' <= Count'
  BY <1>3, <1>4
<1> QED BY <1>1, <1>3, <1>4, <1>6, <1>7, <1>8, <1>9 DEF DrawsCounted

LEMMA CountingDrawAgain ==
    ASSUME Uncapped, Counting, NEW s \in Signers, Draw(s), DrawAgain(s)
    PROVE  DrawsCounted'
<1> SUFFICES ASSUME version' < 2 PROVE DrawsCounted'
  BY DEF DrawsCounted
<1>0. PICK k : k = index[s]
  OBVIOUS
<1>1. /\ pc = "draw" /\ ~DrawsDone /\ i' = NextIndex /\ s \in Selected
      /\ slice' = [slice EXCEPT ![k].power = IF @ < MaxPower THEN @ + 1 ELSE @]
      /\ UNCHANGED <<pc, pool, selectCount, version>>
  BY <1>0 DEF Draw, DrawAgain, inputs
<1>2. TypeOK /\ TypeOK'
  BY ConsistentDrawAgain DEF Counting, Consistent
<1>3. version \in Nat /\ version < 2 /\ i \in Nat /\ Count \in Nat /\ Count' = Count
  BY <1>1, <1>2, CountFacts, SelectLoopAssumption DEF TypeOK, Count
<1>4. i' = i + 1 /\ i < Count
  BY <1>1, <1>3 DEF NextIndex, DrawsDone
<1>5. /\ Sum(Repeats) = i
      /\ \A n \in 1..Len(slice) :
            slice[n].power = 0 \/ (1000 <= slice[n].power /\ slice[n].power <= 999 + i)
  BY <1>3 DEF Counting, DrawsCounted
<1>6. PICK len \in Nat : len = Len(slice)
  BY <1>2, EntryTypes
<1>7. k \in 1..len /\ slice[k].power > 0 /\ slice[k] \in Update /\ slice[k].power \in Nat
  <2>1. k \in 1..len /\ slice[k].power > 0
    BY <1>0, <1>1, <1>6 DEF Counting, Consistent, TypeOK, Indexed
  <2> QED BY <1>2, <1>6, <2>1, EntryTypes
<1>8. PICK p \in Nat : p = slice[k].power /\ 1000 <= p /\ p <= 999 + i
  BY <1>5, <1>6, <1>7
<1>9. p < MaxPower
  BY <1>2, <1>3, <1>4, <1>8, CountFacts
<1> DEFINE e == [slice[k] EXCEPT !.power = p + 1]
<1>10. slice' = [slice EXCEPT ![k] = e]
  BY <1>1, <1>8, <1>9
<1>11. e.power = p + 1
  BY <1>7 DEF Update
<1> HIDE DEF e
<1>12. /\ Len(slice') = len
       /\ \A n \in 1..len : slice'[n] = IF n = k THEN e ELSE slice[n]
  <2>1. slice \in Seq(Update)
    BY <1>2 DEF TypeOK
  <2> QED BY <1>6, <1>7, <1>10, <2>1
<1>13. Repeats' = [Repeats EXCEPT ![k] = p - 998] /\ Repeats[k] = p - 999
  <2>1. Repeats = [n \in 1..len |-> IF slice[n].power = 0 THEN 0 ELSE slice[n].power - 999]
    BY <1>6 DEF Repeats
  <2>2. Repeats' = [n \in 1..len |-> IF slice'[n].power = 0 THEN 0 ELSE slice'[n].power - 999]
    BY <1>12 DEF Repeats
  <2>3. Repeats[k] = p - 999 /\ Repeats'[k] = p - 998
    BY <1>7, <1>8, <1>11, <1>12, <2>1, <2>2
  <2>4. \A n \in 1..len : n # k => Repeats'[n] = Repeats[n]
    BY <1>12, <2>1, <2>2
  <2> QED BY <1>7, <2>1, <2>2, <2>3, <2>4
<1>14. Sum(Repeats)' = Sum(Repeats) + 1
  <2>1. Repeats \in [1..len -> Int] /\ Sum(Repeats) = SumOver(Repeats, 1..len)
    BY <1>2, <1>6, EntryTypes
  <2>2. DOMAIN Repeats' = 1..len
    BY <1>12 DEF Repeats
  <2>3. Sum(Repeats)' = SumOver(Repeats', 1..len)
    BY <2>2 DEF Sum
  <2>4. IsFiniteSet(1..len) /\ p - 998 \in Int
    BY FS_Interval
  <2>5. SumOver([Repeats EXCEPT ![k] = p - 998], 1..len)
           = SumOver(Repeats, 1..len) + ((p - 998) - Repeats[k])
    <3>0. PICK S : S = 1..len
      OBVIOUS
    <3>1. PICK f : f = Repeats
      OBVIOUS
    <3>2. PICK x \in Int : x = p - 998
      BY <2>4
    <3>3. f \in [S -> Int] /\ IsFiniteSet(S) /\ k \in S
      BY <1>7, <2>1, <2>4, <3>0, <3>1
    <3>4. SumOver([f EXCEPT ![k] = x], S) = SumOver(f, S) + (x - f[k])
      BY <3>3, SumAfterChange
    <3> QED BY <3>0, <3>1, <3>2, <3>4
  <2>6. (p - 998) - Repeats[k] = 1
    BY <1>13
  <2> QED BY <1>13, <2>1, <2>3, <2>5, <2>6
<1>15. ASSUME NEW n \in 1..Len(slice')
       PROVE  slice'[n].power = 0 \/ (1000 <= slice'[n].power /\ slice'[n].power <= 999 + i')
  <2>1. n \in 1..len /\ slice[n].power \in Nat
    BY <1>2, <1>6, <1>12, EntryTypes
  <2> QED BY <1>3, <1>4, <1>5, <1>6, <1>8, <1>11, <1>12, <2>1
<1>16. i' <= Count'
  BY <1>3, <1>4
<1> QED BY <1>1, <1>3, <1>4, <1>5, <1>14, <1>15, <1>16 DEF DrawsCounted

LEMMA CountingRemove ==
    ASSUME Uncapped, Counting, NEW s \in Signers, Remove(s)
    PROVE  DrawsCounted'
<1>1. pc = "remove" /\ UNCHANGED <<pc, pool, selectCount, version, i>>
  BY DEF Remove, inputs
<1>2. Count' = Count
  BY <1>1 DEF Count
<1>3. CASE slice' = slice
  BY <1>1, <1>2, <1>3 DEF Counting, DrawsCounted, Repeats, Sum
<1>4. CASE slice' # slice
  <2> DEFINE e == [signer |-> s, power |-> 0]
  <2>1. slice' = Append(slice, e)
    BY <1>4 DEF Remove
  <2>2. e \in Update /\ e.power = 0
    BY SelectLoopAssumption DEF Update
  <2> HIDE DEF e
  <2>3. TypeOK /\ TypeOK' /\ slice \in Seq(Update)
    BY ConsistentRemove DEF Counting, Consistent, TypeOK
  <2>4. Sum(Repeats)' = Sum(Repeats) + 0
    BY <2>1, <2>2, <2>3, RepeatsOfAppend
  <2> SUFFICES ASSUME version' < 2 PROVE DrawsCounted'
    BY DEF DrawsCounted
  <2>5. /\ Sum(Repeats) = i /\ i <= Count /\ i = Count /\ i \in Nat
        /\ \A n \in 1..Len(slice) :
              slice[n].power = 0 \/ (1000 <= slice[n].power /\ slice[n].power <= 999 + i)
    BY <1>1, <2>3 DEF Counting, DrawsCounted, TypeOK
  <2>6. ASSUME NEW n \in 1..Len(slice')
        PROVE  slice'[n].power = 0 \/ (1000 <= slice'[n].power /\ slice'[n].power <= 999 + i')
    <3>1. n \in 1..Len(slice) \/ n = Len(slice) + 1
      BY <2>1, <2>2, <2>3, AppendEntry
    <3>2. CASE n \in 1..Len(slice)
      BY <1>1, <2>1, <2>2, <2>3, <2>5, <3>2, AppendEntry
    <3>3. CASE n = Len(slice) + 1
      BY <2>1, <2>2, <2>3, <3>3, AppendEntry
    <3> QED BY <3>1, <3>2, <3>3
  <2>7. Sum(Repeats)' = i'
    BY <1>1, <2>4, <2>5
  <2> QED BY <1>1, <1>2, <2>5, <2>6, <2>7 DEF DrawsCounted
<1> QED BY <1>3, <1>4

LEMMA CountingControl ==
    ASSUME Uncapped, Counting, DrawPanics \/ EndDraws \/ Return \/ UNCHANGED vars
    PROVE  DrawsCounted'
<1>1. UNCHANGED <<pool, selectCount, version, i, slice>>
  BY DEF DrawPanics, EndDraws, Return, vars, inputs
<1>2. Count' = Count /\ Sum(Repeats)' = Sum(Repeats)
  BY <1>1 DEF Count, Repeats
<1>3. version < 2 /\ pc' \in {"remove", "done"} => i = Count
  <2>1. version \in Nat /\ i \in Nat /\ Count \in Nat
    BY CountFacts, SelectLoopAssumption DEF Counting, Consistent, TypeOK
  <2>2. version < 2 => i <= Count /\ (pc \in {"remove", "done"} => i = Count)
    BY DEF Counting, DrawsCounted
  <2>3. CASE EndDraws
    BY <2>1, <2>2, <2>3 DEF EndDraws, DrawsDone
  <2>4. CASE DrawPanics \/ Return \/ UNCHANGED vars
    BY <2>2, <2>4 DEF DrawPanics, Return, vars
  <2> QED BY <2>3, <2>4
<1> QED BY <1>1, <1>2, <1>3 DEF Counting, DrawsCounted

LEMMA CountingInit ==
    ASSUME Uncapped, Init
    PROVE  DrawsCounted
<1>1. TypeOK
  BY ConsistentInit DEF Consistent
<1>2. Count \in Nat
  BY <1>1, CountFacts
<1>3. Len(slice) = 0 /\ 1..0 = {}
  BY DEF Init
<1>4. Sum(Repeats) = 0
  <2>1. Sum(Repeats) = SumOver(Repeats, {})
    BY <1>1, <1>3, EntryTypes
  <2> QED BY <2>1, SumOfNone
<1> QED BY <1>2, <1>3, <1>4 DEF Init, DrawsCounted

LEMMA CountingStep ==
    ASSUME Uncapped, Counting, [Next]_vars
    PROVE  Counting'
<1>1. Consistent'
  BY ConsistentStep DEF Counting
<1>2. ASSUME NEW s \in Signers, Draw(s) PROVE DrawsCounted'
  <2>1. DrawNew(s) \/ DrawAgain(s)
    BY <1>2 DEF Draw
  <2> QED BY <1>2, <2>1, CountingDrawNew, CountingDrawAgain
<1>3. ASSUME NEW s \in Signers, Remove(s) PROVE DrawsCounted'
  BY <1>3, CountingRemove
<1>4. ASSUME DrawPanics \/ EndDraws \/ Return \/ UNCHANGED vars PROVE DrawsCounted'
  BY <1>4, CountingControl
<1>5. DrawsCounted'
  BY <1>2, <1>3, <1>4 DEF Next, Rest
<1> QED BY <1>1, <1>5 DEF Counting

\* Below version 2 enterSelectValidators draws exactly selectCount times, and the
\* powers it returns add up to that; Uncapped keeps the model's bound out of it.
THEOREM PowersAreDraws ==
    ASSUME Uncapped
    PROVE  Spec => []PowersCountDraws
<1>1. Init => Counting
  BY ConsistentInit, CountingInit DEF Counting
<1>2. Counting /\ [Next]_vars => Counting'
  BY CountingStep
<1>3. Counting => PowersCountDraws
  BY DEF Counting, DrawsCounted, PowersCountDraws
<1> QED BY <1>1, <1>2, <1>3, PTL DEF Spec
=============================================================================
