--------------------------- MODULE RollbackProofs ---------------------------
(***************************************************************************)
(* Theorems about Rollback, for all payloads and heights, any number of    *)
(* rollbacks, crashes and lost blocks.                                     *)
(***************************************************************************)
EXTENDS Rollback, TLAPS, SequenceTheorems

\* One sequence is the beginning of the other, element by element.
Agrees(s, t) == Len(s) <= Len(t) /\ \A n \in 1..Len(s) : s[n] = t[n]

\* ChainOfStore in this form.
Elementwise ==
    /\ Agrees(chain, store)
    /\ \A h \in 1..Len(hashes) :
          hashes[h] = EmptyHash \/ (Len(hashes[h]) = h /\ Agrees(hashes[h], store))

Sound == TypeOK /\ halt # "ahead" /\ Elementwise /\ Distances /\ WorkOfChain

-----------------------------------------------------------------------------
(* Sequences. *)

LEMMA HistoryIsSeq ==
    ASSUME NEW s
    PROVE  s \in Histories <=> s \in Seq(Payloads) /\ Len(s) \in Nat /\ Len(s) <= MaxHeight
<1>1. ASSUME s \in Histories PROVE s \in Seq(Payloads) /\ Len(s) \in Nat /\ Len(s) <= MaxHeight
  <2>1. PICK n \in 0..MaxHeight : s \in [1..n -> Payloads]
    BY <1>1 DEF Histories
  <2>2. n \in Nat /\ n <= MaxHeight
    BY RollbackAssumption
  <2> QED BY <2>1, <2>2
<1>2. ASSUME s \in Seq(Payloads), Len(s) <= MaxHeight PROVE s \in Histories
  <2>1. Len(s) \in Nat /\ s \in [1..Len(s) -> Payloads]
    BY <1>2, LenProperties
  <2>2. Len(s) \in 0..MaxHeight
    BY <1>2, <2>1, RollbackAssumption
  <2> QED BY <2>1, <2>2 DEF Histories
<1> QED BY <1>1, <1>2

LEMMA EmptyIsHistory == <<>> \in Histories /\ <<>> \in Seq(Payloads) /\ Len(<<>>) = 0
<1>1. <<>> \in Seq(Payloads) /\ Len(<<>>) = 0
  BY EmptySeq
<1>2. Len(<<>>) \in Nat /\ Len(<<>>) <= MaxHeight
  BY <1>1, RollbackAssumption
<1> QED BY <1>1, <1>2, HistoryIsSeq

LEMMA PrefixElements ==
    ASSUME NEW S, NEW s \in Seq(S), NEW t \in Seq(S)
    PROVE  IsPrefix(s, t) <=> Agrees(s, t)
<1>1. Len(s) \in Nat /\ Len(t) \in Nat /\ SubSeq(s, 1, Len(s)) = s
  BY SubSeqFull, LenProperties
<1>2. ASSUME Len(s) <= Len(t)
      PROVE  /\ SubSeq(t, 1, Len(s)) \in Seq(S) /\ Len(SubSeq(t, 1, Len(s))) = Len(s)
             /\ \A n \in 1..Len(s) : SubSeq(t, 1, Len(s))[n] = t[n]
  BY <1>1, <1>2
<1>3. ASSUME Agrees(s, t) PROVE s = SubSeq(t, 1, Len(s))
  <2>1. Len(s) <= Len(t) /\ \A n \in 1..Len(s) : s[n] = t[n]
    BY <1>3 DEF Agrees
  <2> QED BY <1>2, <2>1, SeqEqual
<1> QED BY <1>1, <1>2, <1>3 DEF IsPrefix, Agrees

LEMMA SubSeqElements ==
    ASSUME NEW S, NEW s \in Seq(S), NEW t \in Seq(S), NEW h \in 1..Len(t)
    PROVE  s = SubSeq(t, 1, h) <=> Len(s) = h /\ Agrees(s, t)
<1>1. Len(s) \in Nat /\ Len(t) \in Nat /\ h \in Nat /\ h <= Len(t)
  BY LenProperties
<1>2. /\ SubSeq(t, 1, h) \in Seq(S) /\ Len(SubSeq(t, 1, h)) = h
      /\ \A n \in 1..h : SubSeq(t, 1, h)[n] = t[n]
  BY <1>1
<1>3. ASSUME Len(s) = h, Agrees(s, t) PROVE s = SubSeq(t, 1, h)
  BY <1>2, <1>3, SeqEqual DEF Agrees
<1> QED BY <1>1, <1>2, <1>3 DEF Agrees

LEMMA CutElements ==
    ASSUME NEW S, NEW s \in Seq(S), NEW r \in Int, r >= -1
    PROVE  /\ Cut(s, r) \in Seq(S) /\ Len(Cut(s, r)) \in Nat
           /\ r = NoRollback => Cut(s, r) = s
           /\ r # NoRollback /\ r <= Len(s) => Len(Cut(s, r)) = r
           /\ r # NoRollback /\ r >= Len(s) => Cut(s, r) = s
           /\ Agrees(Cut(s, r), s)
<1>1. Len(s) \in Nat
  BY LenProperties
<1>2. CASE r = NoRollback \/ r >= Len(s)
  BY <1>1, <1>2 DEF Cut, Agrees, NoRollback
<1>3. CASE r # NoRollback /\ r < Len(s)
  <2>1. r \in Nat
    BY <1>3 DEF NoRollback
  <2>2. Cut(s, r) = SubSeq(s, 1, r)
    BY <1>1, <1>3, <2>1 DEF Cut
  <2>3. /\ SubSeq(s, 1, r) \in Seq(S) /\ Len(SubSeq(s, 1, r)) = r
        /\ \A n \in 1..r : SubSeq(s, 1, r)[n] = s[n]
    BY <1>1, <1>3, <2>1
  <2> QED BY <1>1, <1>3, <2>1, <2>2, <2>3 DEF Agrees
<1> QED BY <1>1, <1>2, <1>3

\* A shorter beginning of the store stays one when the store is cut or grows.
LEMMA AgreesTransitive ==
    ASSUME NEW S, NEW s \in Seq(S), NEW t \in Seq(S), NEW u \in Seq(S),
           Agrees(s, t), Agrees(t, u)
    PROVE  Agrees(s, u)
<1>1. Len(s) \in Nat /\ Len(t) \in Nat /\ Len(u) \in Nat
  BY LenProperties
<1> QED BY <1>1 DEF Agrees

LEMMA AgreesShorter ==
    ASSUME NEW S, NEW s \in Seq(S), NEW t \in Seq(S), NEW u \in Seq(S),
           Agrees(s, u), Agrees(t, u), Len(s) <= Len(t)
    PROVE  Agrees(s, t)
<1>1. Len(s) \in Nat /\ Len(t) \in Nat /\ Len(u) \in Nat
  BY LenProperties
<1> QED BY <1>1 DEF Agrees

LEMMA AgreesAppend ==
    ASSUME NEW S, NEW s \in Seq(S), NEW e \in S
    PROVE  Agrees(s, Append(s, e))
<1>1. Len(s) \in Nat
  BY LenProperties
<1> QED BY <1>1, AppendProperties DEF Agrees

-----------------------------------------------------------------------------
\* What Sound says about the sequences, for the steps below.
LEMMA Shapes ==
    ASSUME Sound
    PROVE  /\ chain \in Seq(Payloads) /\ Len(chain) \in Nat /\ Len(chain) <= MaxHeight
           /\ store \in Seq(Payloads) /\ Len(store) \in Nat /\ Len(store) <= MaxHeight
           /\ hashes \in Seq(Histories) /\ Len(hashes) \in Nat
           /\ \A h \in 1..Len(hashes) : hashes[h] \in Histories /\ hashes[h] \in Seq(Payloads)
           /\ work.parent \in Seq(Payloads) /\ work.done \in Seq(Payloads)
           /\ Len(work.done) \in Nat
           /\ work \in [parent : Histories, done : Seq(Payloads)]
           /\ strategy \in Seq(Payloads)
           /\ next \in Nat /\ next >= 1 /\ flag \in Int /\ flag >= -1
           /\ MaxHeight \in Nat
<1>1. chain \in Histories /\ store \in Histories /\ work.parent \in Histories
  BY DEF Sound, TypeOK
<1>2. hashes \in Seq(Histories) /\ work \in [parent : Histories, done : Seq(Payloads)]
      /\ strategy \in Seq(Payloads)
  BY DEF Sound, Distances, WorkOfChain
<1>3. \A h \in 1..Len(hashes) : hashes[h] \in Histories
  BY <1>2, ElementOfSeq
<1>4. next \in 1..(MaxHeight + 1) /\ flag \in {NoRollback} \cup 0..MaxHeight /\ MaxHeight \in Nat
  BY RollbackAssumption DEF Sound, TypeOK
<1>5. Len(hashes) \in Nat
  BY <1>2, LenProperties
<1>6. work.done \in Seq(Payloads)
  BY <1>2
<1>7. Len(work.done) \in Nat
  BY <1>6, LenProperties
<1>8. next \in Nat /\ next >= 1 /\ flag \in Int /\ flag >= -1
  BY <1>4 DEF NoRollback
<1> QED BY <1>1, <1>2, <1>3, <1>4, <1>5, <1>6, <1>7, <1>8, HistoryIsSeq

LEMMA SoundInit == Init => Sound
<1> SUFFICES ASSUME Init PROVE Sound
  OBVIOUS
<1>1. <<>> \in Histories /\ <<>> \in Seq(Payloads) /\ Len(<<>>) = 0
  BY EmptyIsHistory
<1>2. work.parent = <<>> /\ work.done = <<>> /\ work \in [parent : Histories, done : Seq(Payloads)]
  BY <1>1 DEF Init
<1>3. TypeOK
  BY <1>1, <1>2, RollbackAssumption DEF Init, TypeOK, Pcs, Halts, EmptyHash
<1>4. Elementwise
  BY <1>1 DEF Init, Elementwise, Agrees
<1>5. Distances
  BY <1>1 DEF Init, Distances
<1>6. WorkOfChain
  BY <1>1, <1>2 DEF Init, WorkOfChain
<1> QED BY <1>3, <1>4, <1>5, <1>6 DEF Sound, Init

\* The command builds the application.
LEMMA SoundBuild == ASSUME Sound, NewEthermintApplication PROVE Sound'
<1>1. /\ pc' = "built" /\ flag' \in {NoRollback} \cup 0..MaxHeight
      /\ work' = [parent |-> chain, done |-> <<>>] /\ strategy' = <<>>
      /\ UNCHANGED <<halt, chain, next, store, hashes, response>>
  BY DEF NewEthermintApplication
<1>2. chain \in Histories /\ <<>> \in Seq(Payloads) /\ Len(<<>>) = 0
  BY EmptySeq DEF Sound, TypeOK
<1>3. work'.parent = chain /\ work'.done = <<>> /\ work' \in [parent : Histories, done : Seq(Payloads)]
  BY <1>1, <1>2
<1>4. TypeOK'
  BY <1>1, <1>2, <1>3, RollbackAssumption DEF Sound, TypeOK, Pcs
<1>5. Elementwise'
  BY <1>1 DEF Sound, Elementwise
<1>6. Distances'
  BY <1>1 DEF Sound, Distances
<1>7. WorkOfChain'
  BY <1>1, <1>2, <1>3 DEF WorkOfChain
<1> QED BY <1>1, <1>4, <1>5, <1>6, <1>7 DEF Sound

\* The chain gets shorter and Tendermint's side stays: the cut and the crash.
LEMMA ShorterChain ==
    ASSUME Sound, NEW r \in Int, r >= -1, chain' = Cut(chain, r),
           UNCHANGED <<next, store, hashes, response>>
    PROVE  /\ chain' \in Histories /\ Elementwise'
           /\ Len(chain') \in Nat /\ Len(chain') <= Len(chain)
           /\ r # NoRollback => Len(chain') <= r
<1>1. chain' \in Seq(Payloads) /\ Len(chain') \in Nat /\ Agrees(chain', chain)
  BY Shapes, CutElements
<1>2. Len(chain') <= Len(chain)
  BY <1>1 DEF Agrees
<1>3. chain' \in Histories
  BY <1>1, <1>2, Shapes, HistoryIsSeq
<1>4. ASSUME r # NoRollback PROVE Len(chain') <= r
  <2>1. /\ r <= Len(chain) => Len(chain') = r
        /\ r >= Len(chain) => chain' = chain
    BY <1>4, Shapes, CutElements
  <2> QED BY <2>1, Shapes
<1>5. Agrees(chain, store)
  BY DEF Sound, Elementwise
<1>6. Agrees(chain', store)
  BY <1>1, <1>5, Shapes, AgreesTransitive
<1>7. Elementwise'
  BY <1>6 DEF Sound, Elementwise
<1> QED BY <1>1, <1>2, <1>3, <1>4, <1>7

LEMMA SoundCut == ASSUME Sound, WhetherRollbackEthApp PROVE Sound'
<1>1. /\ pc = "built" /\ pc' = "cut" /\ chain' = Cut(chain, flag)
      /\ UNCHANGED <<halt, flag, work, strategy, next, store, hashes, response>>
  BY DEF WhetherRollbackEthApp
<1>2. /\ chain' \in Histories /\ Elementwise'
      /\ Len(chain') \in Nat /\ Len(chain') <= Len(chain)
      /\ flag # NoRollback => Len(chain') <= flag
  BY <1>1, Shapes, ShorterChain
<1>3. TypeOK'
  BY <1>1, <1>2 DEF Sound, TypeOK, Pcs
<1>4. Distances'
  BY <1>1, <1>2, Shapes DEF Sound, Distances
<1>5. WorkOfChain'
  BY <1>1 DEF Sound, WorkOfChain
<1> QED BY <1>1, <1>2, <1>3, <1>4, <1>5 DEF Sound

LEMMA SoundCrash == ASSUME Sound, Crash PROVE Sound'
<1>1. /\ pc' = "down" /\ halt' = "none"
      /\ UNCHANGED <<flag, work, strategy, next, store, hashes, response>>
  BY DEF Crash
<1>2. PICK lost \in 0..MaxLost : lost <= Len(chain) /\ chain' = Cut(chain, Len(chain) - lost)
  BY DEF Crash
<1>3. Len(chain) - lost \in Int /\ Len(chain) - lost >= -1
  BY <1>2, Shapes, RollbackAssumption
<1>4. /\ chain' \in Histories /\ Elementwise'
      /\ Len(chain') \in Nat /\ Len(chain') <= Len(chain)
  BY <1>1, <1>2, <1>3, ShorterChain
<1>5. TypeOK'
  BY <1>1, <1>4 DEF Sound, TypeOK, Pcs, Halts
<1>6. Distances'
  BY <1>1, <1>4, Shapes DEF Sound, Distances
<1>7. WorkOfChain'
  BY <1>1 DEF Sound, WorkOfChain
<1> QED BY <1>1, <1>4, <1>5, <1>6, <1>7 DEF Sound

LEMMA SoundLoad == ASSUME Sound, InitPersistData PROVE Sound'
<1>1. /\ pc = "cut" /\ pc' = "loaded" /\ strategy' = work.parent
      /\ UNCHANGED <<halt, flag, chain, work, next, store, hashes, response>>
  BY DEF InitPersistData
<1>2. TypeOK'
  BY <1>1 DEF Sound, TypeOK, Pcs
<1>3. Elementwise'
  BY <1>1 DEF Sound, Elementwise
<1>4. Distances'
  BY <1>1 DEF Sound, Distances
<1>5. WorkOfChain'
  BY <1>1, Shapes DEF Sound, WorkOfChain
<1> QED BY <1>1, <1>2, <1>3, <1>4, <1>5 DEF Sound

\* Tendermint's store is cut to a height that the chain does not exceed.
LEMMA SoundTmRollback == ASSUME Sound, TmRollback PROVE Sound'
<1>1. /\ pc = "loaded" /\ pc' = "handshake"
      /\ store' = Cut(store, flag) /\ hashes' = Cut(hashes, flag)
      /\ UNCHANGED <<halt, flag, chain, work, strategy, next, response>>
  BY DEF TmRollback
<1>2. flag # NoRollback => Len(chain) <= flag
  BY <1>1 DEF Sound, Distances
<1>3. /\ store' \in Seq(Payloads) /\ Len(store') \in Nat /\ Agrees(store', store)
      /\ hashes' \in Seq(Histories) /\ Len(hashes') \in Nat /\ Agrees(hashes', hashes)
  BY <1>1, Shapes, CutElements
<1>4. /\ Len(store') <= Len(store) /\ Len(hashes') <= Len(hashes)
      /\ \A h \in 1..Len(hashes') : hashes'[h] = hashes[h]
  BY <1>3 DEF Agrees
<1>5. /\ flag = NoRollback => store' = store /\ hashes' = hashes
      /\ flag # NoRollback /\ flag <= Len(store) => Len(store') = flag
      /\ flag # NoRollback /\ flag >= Len(store) => store' = store
      /\ flag # NoRollback /\ flag <= Len(hashes) => Len(hashes') = flag
      /\ flag # NoRollback /\ flag >= Len(hashes) => hashes' = hashes
  BY <1>1, Shapes, CutElements
<1>6. Len(chain) <= Len(hashes) + 1 /\ Len(hashes) <= Len(store) /\ Agrees(chain, store)
  BY DEF Sound, Distances, Elementwise
<1>7. Len(chain) <= Len(store)
  BY <1>6 DEF Agrees
<1>8. /\ Len(chain) <= Len(store') /\ Len(chain) <= Len(hashes') + 1
      /\ Len(hashes') <= Len(store')
  BY <1>2, <1>3, <1>4, <1>5, <1>6, <1>7, Shapes
<1>9. Elementwise'
  <2>1. Agrees(chain', store')
    BY <1>1, <1>3, <1>6, <1>8, Shapes, AgreesShorter
  <2>2. ASSUME NEW h \in 1..Len(hashes')
        PROVE  hashes'[h] = EmptyHash \/ (Len(hashes'[h]) = h /\ Agrees(hashes'[h], store'))
    <3>1. h \in 1..Len(hashes) /\ hashes'[h] = hashes[h] /\ h <= Len(store')
      BY <1>3, <1>4, <1>8, Shapes
    <3>2. hashes[h] = EmptyHash \/ (Len(hashes[h]) = h /\ Agrees(hashes[h], store))
      BY <3>1 DEF Sound, Elementwise
    <3>3. hashes[h] \in Seq(Payloads)
      BY <3>1, Shapes
    <3>4. CASE Len(hashes[h]) = h /\ Agrees(hashes[h], store)
      BY <1>3, <3>1, <3>3, <3>4, Shapes, AgreesShorter
    <3> QED BY <3>1, <3>2, <3>4
  <2> QED BY <2>1, <2>2 DEF Elementwise
<1>10. TypeOK'
  <2>1. store' \in Histories
    BY <1>3, <1>4, Shapes, HistoryIsSeq
  <2>2. Len(hashes') <= MaxHeight /\ \A h \in 1..Len(hashes') : hashes'[h] \in Histories
    BY <1>3, <1>4, <1>6, Shapes
  <2> QED BY <1>1, <2>1, <2>2 DEF Sound, TypeOK, Pcs
<1>11. Distances'
  BY <1>1, <1>2, <1>3, <1>8 DEF Distances
<1>12. WorkOfChain'
  BY <1>1 DEF Sound, WorkOfChain
<1> QED BY <1>1, <1>9, <1>10, <1>11, <1>12 DEF Sound

\* One more hash: of the chain, or empty.
LEMMA MoreHashes ==
    ASSUME Sound, NEW e \in Histories, Len(hashes) < Len(store),
           e = EmptyHash \/ (Len(e) = Len(hashes) + 1 /\ Agrees(e, store)),
           hashes' = Append(hashes, e), UNCHANGED <<chain, store>>
    PROVE  /\ Elementwise' /\ hashes' \in Seq(Histories)
           /\ Len(hashes') = Len(hashes) + 1 /\ Len(hashes') <= MaxHeight
           /\ \A h \in 1..Len(hashes') : hashes'[h] \in Histories
<1>1. /\ hashes' \in Seq(Histories) /\ Len(hashes') = Len(hashes) + 1
      /\ \A h \in 1..Len(hashes) : hashes'[h] = hashes[h]
      /\ hashes'[Len(hashes) + 1] = e
  BY Shapes, AppendProperties
<1>2. \A h \in 1..Len(hashes') : h \in 1..Len(hashes) \/ h = Len(hashes) + 1
  BY <1>1, Shapes
<1>3. \A h \in 1..Len(hashes') : hashes'[h] \in Histories
  BY <1>1, <1>2, Shapes
<1>4. Elementwise'
  <2>1. Agrees(chain', store')
    BY DEF Sound, Elementwise
  <2>2. ASSUME NEW h \in 1..Len(hashes')
        PROVE  hashes'[h] = EmptyHash \/ (Len(hashes'[h]) = h /\ Agrees(hashes'[h], store'))
    <3>1. CASE h \in 1..Len(hashes)
      BY <1>1, <3>1 DEF Sound, Elementwise
    <3>2. CASE h = Len(hashes) + 1
      BY <1>1, <3>2
    <3> QED BY <1>2, <3>1, <3>2
  <2> QED BY <2>1, <2>2 DEF Elementwise
<1> QED BY <1>1, <1>3, <1>4, Shapes

LEMMA SoundHandshake == ASSUME Sound, Handshake PROVE Sound'
<1> DEFINE saved == IF Len(chain) = Len(hashes) + 1 THEN Append(hashes, chain) ELSE hashes
<1>1. /\ pc = "handshake"
      /\ UNCHANGED <<flag, chain, work, strategy, store, response>>
  BY DEF Handshake
<1>2. \/ /\ pc' = "halted" /\ halt' \in {"initChain", "appHash"}
         /\ UNCHANGED <<next, hashes>>
      \/ pc' = "halted" /\ halt' = "ahead" /\ Len(chain) > Len(store)
      \/ /\ pc' = "idle" /\ next' = Len(chain) + 1 /\ hashes' = saved
         /\ UNCHANGED halt
  BY DEF Handshake
<1> HIDE DEF saved
<1>3. Agrees(chain, store) /\ Len(chain) <= Len(hashes) + 1 /\ Len(hashes) <= Len(store)
  BY DEF Sound, Elementwise, Distances
<1>4. Len(chain) <= Len(store)
  BY <1>3 DEF Agrees
<1>5. ~(Len(chain) > Len(store))
  BY <1>4, Shapes
<1>6. CASE pc' = "halted" /\ halt' \in {"initChain", "appHash"} /\ UNCHANGED <<next, hashes>>
  <2>1. TypeOK'
    BY <1>1, <1>6 DEF Sound, TypeOK, Pcs, Halts
  <2>2. Elementwise' /\ Distances' /\ WorkOfChain'
    BY <1>1, <1>6 DEF Sound, Elementwise, Distances, WorkOfChain
  <2> QED BY <1>6, <2>1, <2>2 DEF Sound
<1>7. CASE /\ pc' = "idle" /\ next' = Len(chain) + 1 /\ hashes' = saved
           /\ UNCHANGED halt
  <2>1. chain \in Histories
    BY DEF Sound, TypeOK
  <2>2. /\ Elementwise' /\ hashes' \in Seq(Histories) /\ Len(hashes') \in Nat
        /\ Len(hashes') <= MaxHeight /\ Len(hashes') <= Len(store)
        /\ Len(chain) <= Len(hashes')
        /\ \A h \in 1..Len(hashes') : hashes'[h] \in Histories
    <3>1. CASE Len(chain) = Len(hashes) + 1
      <4>1. hashes' = Append(hashes, chain)
        BY <1>7, <3>1 DEF saved
      <4>2. Len(hashes) < Len(store)
        BY <1>4, <3>1, Shapes
      <4>3. /\ Elementwise' /\ hashes' \in Seq(Histories)
            /\ Len(hashes') = Len(hashes) + 1 /\ Len(hashes') <= MaxHeight
            /\ \A h \in 1..Len(hashes') : hashes'[h] \in Histories
        BY <1>1, <1>3, <2>1, <3>1, <4>1, <4>2, MoreHashes
      <4> QED BY <3>1, <4>2, <4>3, Shapes
    <3>2. CASE Len(chain) # Len(hashes) + 1
      <4>1. hashes' = hashes
        BY <1>7, <3>2 DEF saved
      <4>2. Elementwise'
        BY <1>1, <4>1 DEF Sound, Elementwise
      <4>3. Len(hashes) <= MaxHeight
        BY <1>3, Shapes
      <4> QED BY <1>3, <3>2, <4>1, <4>2, <4>3, Shapes
    <3> QED BY <3>1, <3>2
  <2>3. TypeOK'
    BY <1>1, <1>7, <2>2, Shapes DEF Sound, TypeOK, Pcs
  <2>4. Distances'
    BY <1>1, <1>7, <2>2, Shapes DEF Distances
  <2>5. WorkOfChain'
    <3>1. work.done = <<>> /\ strategy = work.parent /\ Len(work.done) = 0
      BY <1>1 DEF Sound, WorkOfChain
    <3> QED BY <1>1, <1>7, <3>1, Shapes DEF WorkOfChain
  <2> QED BY <1>7, <2>2, <2>3, <2>4, <2>5 DEF Sound
<1> QED BY <1>2, <1>5, <1>6, <1>7

\* A new block at the end of the store.
LEMMA SoundDecide == ASSUME Sound, Decide PROVE Sound'
<1>1. /\ pc = "idle" /\ next = Len(store) + 1 /\ next <= MaxHeight
      /\ UNCHANGED <<pc, halt, flag, chain, work, strategy, next, hashes, response>>
  BY DEF Decide
<1>2. PICK p \in Payloads : store' = Append(store, p)
  BY DEF Decide
<1>3. store' \in Seq(Payloads) /\ Len(store') = Len(store) + 1 /\ Agrees(store, store')
  BY <1>2, Shapes, AppendProperties, AgreesAppend
<1>4. store' \in Histories
  BY <1>1, <1>3, Shapes, HistoryIsSeq
<1>5. TypeOK'
  BY <1>1, <1>4 DEF Sound, TypeOK
<1>6. Elementwise'
  <2>1. Agrees(chain', store')
    <3>1. Agrees(chain, store)
      BY DEF Sound, Elementwise
    <3> QED BY <1>1, <1>3, <3>1, Shapes, AgreesTransitive
  <2>2. ASSUME NEW h \in 1..Len(hashes)
        PROVE  hashes[h] = EmptyHash \/ (Len(hashes[h]) = h /\ Agrees(hashes[h], store'))
    <3>1. hashes[h] = EmptyHash \/ (Len(hashes[h]) = h /\ Agrees(hashes[h], store))
      BY DEF Sound, Elementwise
    <3>2. hashes[h] \in Seq(Payloads)
      BY Shapes
    <3>3. CASE Len(hashes[h]) = h /\ Agrees(hashes[h], store)
      BY <1>3, <3>2, <3>3, Shapes, AgreesTransitive
    <3> QED BY <3>1, <3>3
  <2> QED BY <1>1, <2>1, <2>2 DEF Elementwise
<1>7. Distances'
  BY <1>1, <1>3, Shapes DEF Sound, Distances
<1>8. WorkOfChain'
  BY <1>1 DEF Sound, WorkOfChain
<1> QED BY <1>1, <1>5, <1>6, <1>7, <1>8 DEF Sound

LEMMA SoundExecute == ASSUME Sound, ExecuteBlock PROVE Sound'
<1> DEFINE e == store[next]
<1>1. /\ pc = "idle" /\ next <= Len(store) /\ pc' = "executed"
      /\ work' = [work EXCEPT !.done = Append(@, e)]
      /\ strategy' = Append(strategy, e)
      /\ UNCHANGED <<halt, flag, chain, next, store, hashes, response>>
  BY DEF ExecuteBlock
<1>2. e \in Payloads
  <2>1. next \in 1..Len(store)
    BY <1>1, Shapes
  <2> QED BY <2>1, Shapes, ElementOfSeq
<1> HIDE DEF e
<1>3. /\ Append(work.done, e) \in Seq(Payloads) /\ strategy' \in Seq(Payloads)
      /\ Len(Append(work.done, e)) = Len(work.done) + 1
  BY <1>1, <1>2, Shapes, AppendProperties
<1>4. /\ work'.parent = work.parent /\ work'.done = Append(work.done, e)
      /\ work' \in [parent : Histories, done : Seq(Payloads)]
  BY <1>1, <1>3, Shapes
<1>5. Len(work.done) < next
  BY <1>1 DEF Sound, WorkOfChain
<1>6. Len(work'.done) <= next /\ Len(work'.done) <= MaxHeight
  BY <1>1, <1>3, <1>4, <1>5, Shapes
<1>7. TypeOK'
  BY <1>1, <1>4, <1>6 DEF Sound, TypeOK, Pcs
<1>8. Elementwise'
  BY <1>1 DEF Sound, Elementwise
<1>9. Distances'
  BY <1>1 DEF Sound, Distances
<1>10. WorkOfChain'
  <2>1. ASSUME work'.parent = chain'
        PROVE  work'.done = <<e>> /\ next' = Len(chain') + 1 /\ strategy' = Append(chain', e)
    <3>1. work.done = <<>> /\ next = Len(chain) + 1 /\ strategy = chain
      BY <1>1, <1>4, <2>1 DEF Sound, WorkOfChain
    <3>2. Append(<<>>, e) = <<e>>
      OBVIOUS
    <3> QED BY <1>1, <1>4, <3>1, <3>2
  <2>2. store'[next'] = e
    BY <1>1 DEF e
  <2> QED BY <1>1, <1>3, <1>4, <1>6, <2>1, <2>2 DEF WorkOfChain
<1> QED BY <1>1, <1>7, <1>8, <1>9, <1>10 DEF Sound

\* The block is written on the head of the chain, or refused.
LEMMA SoundCommit == ASSUME Sound, Commit PROVE Sound'
<1>1. /\ pc = "executed" /\ pc' = "committed"
      /\ UNCHANGED <<halt, flag, strategy, next, store, hashes>>
  BY DEF Commit
<1>2. next <= Len(store) /\ next <= Len(hashes) + 1 /\ Len(work.done) <= next
  BY <1>1 DEF Sound, Distances, WorkOfChain
<1>3. CASE work.parent = chain
  <2> DEFINE e == store[next]
  <2>1. /\ chain' = work.parent \o work.done /\ response' = chain'
        /\ work' = [parent |-> chain', done |-> <<>>]
    BY <1>3 DEF Commit, WriteBlockWithState
  <2>2. /\ work.done = <<e>> /\ next = Len(chain) + 1 /\ strategy = Append(chain, e)
    BY <1>1, <1>3 DEF Sound, WorkOfChain
  <2>3. e \in Payloads
    <3>1. next \in 1..Len(store)
      BY <1>2, Shapes
    <3> QED BY <3>1, Shapes, ElementOfSeq
  <2>4. store[Len(chain) + 1] = e
    BY <2>2
  <2> HIDE DEF e
  <2>5. chain' = Append(chain, e)
    BY <1>3, <2>1, <2>2, <2>3, Shapes, AppendIsConcat
  <2>6. /\ chain' \in Seq(Payloads) /\ Len(chain') = Len(chain) + 1
        /\ \A n \in 1..Len(chain) : chain'[n] = chain[n]
        /\ chain'[Len(chain) + 1] = e
    BY <2>3, <2>5, Shapes, AppendProperties
  <2>7. chain' \in Histories /\ Len(chain') = next
    BY <1>2, <2>2, <2>6, Shapes, HistoryIsSeq
  <2>8. Agrees(chain', store)
    <3>1. \A n \in 1..Len(chain) : chain[n] = store[n]
      BY DEF Sound, Elementwise, Agrees
    <3>2. ASSUME NEW n \in 1..Len(chain') PROVE chain'[n] = store[n]
      <4>1. n \in 1..Len(chain) \/ n = Len(chain) + 1
        BY <2>6, Shapes
      <4> QED BY <2>4, <2>6, <3>1, <4>1
    <3> QED BY <1>2, <2>7, <3>2 DEF Agrees
  <2>9. /\ work'.parent = chain' /\ work'.done = <<>> /\ Len(work'.done) = 0
        /\ work' \in [parent : Histories, done : Seq(Payloads)]
    BY <2>1, <2>7, EmptySeq
  <2>10. TypeOK'
    BY <1>1, <2>1, <2>7, <2>9, Shapes DEF Sound, TypeOK, Pcs
  <2>11. Elementwise'
    BY <1>1, <2>8 DEF Sound, Elementwise
  <2>12. Distances'
    BY <1>1, <1>2, <2>7 DEF Sound, Distances
  <2>13. WorkOfChain'
    <3>1. strategy' = chain' /\ response' = chain' /\ next' = Len(chain')
      BY <1>1, <2>1, <2>2, <2>5, <2>7
    <3>2. Len(work'.done) <= next' /\ strategy' \in Seq(Payloads)
      BY <1>1, <2>9, Shapes
    <3> QED BY <1>1, <2>9, <3>1, <3>2 DEF WorkOfChain
  <2> QED BY <1>1, <2>10, <2>11, <2>12, <2>13 DEF Sound
<1>4. CASE work.parent # chain
  <2>1. response' = EmptyHash /\ chain' = chain /\ work' = work
    BY <1>4 DEF Commit, WriteBlockWithState
  <2>2. EmptyHash \in Histories
    BY EmptyIsHistory DEF EmptyHash
  <2>3. TypeOK'
    BY <1>1, <2>1, <2>2 DEF Sound, TypeOK, Pcs
  <2>4. Elementwise' /\ Distances'
    BY <1>1, <2>1 DEF Sound, Elementwise, Distances
  <2>5. WorkOfChain'
    BY <1>1, <1>2, <1>4, <2>1 DEF Sound, WorkOfChain
  <2> QED BY <1>1, <2>3, <2>4, <2>5 DEF Sound
<1> QED BY <1>3, <1>4

\* Tendermint saves the hash, or stops.
LEMMA SoundSave == ASSUME Sound, SaveState PROVE Sound'
<1>1. /\ pc = "committed"
      /\ UNCHANGED <<flag, chain, work, strategy, store, response>>
  BY DEF SaveState
<1>2. \/ pc' = "halted" /\ halt' = "appHash" /\ UNCHANGED <<next, hashes>>
      \/ /\ pc' = "idle" /\ next' = next + 1 /\ UNCHANGED halt
         /\ hashes' = IF next <= Len(hashes) THEN hashes ELSE Append(hashes, response)
  BY DEF SaveState
<1>3. /\ next <= Len(store) /\ next <= Len(hashes) + 1 /\ Len(work.done) <= next
      /\ Len(chain) <= Len(hashes) + 1 /\ Len(hashes) <= Len(store)
      /\ IF work.parent = chain
         THEN work.done = <<>> /\ next = Len(chain) /\ strategy = chain /\ response = chain
         ELSE response = EmptyHash
  BY <1>1 DEF Sound, Distances, WorkOfChain
<1>4. CASE pc' = "halted" /\ halt' = "appHash" /\ UNCHANGED <<next, hashes>>
  <2>1. TypeOK'
    BY <1>1, <1>4 DEF Sound, TypeOK, Pcs, Halts
  <2>2. Elementwise' /\ Distances' /\ WorkOfChain'
    BY <1>1, <1>4 DEF Sound, Elementwise, Distances, WorkOfChain
  <2> QED BY <1>4, <2>1, <2>2 DEF Sound
<1>5. CASE /\ pc' = "idle" /\ next' = next + 1 /\ UNCHANGED halt
           /\ hashes' = IF next <= Len(hashes) THEN hashes ELSE Append(hashes, response)
  <2>1. /\ Elementwise' /\ hashes' \in Seq(Histories) /\ Len(hashes') \in Nat
        /\ Len(hashes') <= MaxHeight /\ Len(hashes') <= Len(store)
        /\ next <= Len(hashes') /\ Len(hashes) <= Len(hashes')
        /\ \A h \in 1..Len(hashes') : hashes'[h] \in Histories
    <3>1. CASE next <= Len(hashes)
      <4>1. hashes' = hashes
        BY <1>5, <3>1
      <4>2. Elementwise'
        BY <1>1, <4>1 DEF Sound, Elementwise
      <4> QED BY <1>3, <3>1, <4>1, <4>2, Shapes
    <3>2. CASE ~(next <= Len(hashes))
      <4>1. hashes' = Append(hashes, response)
        BY <1>5, <3>2
      <4>2. next = Len(hashes) + 1 /\ Len(hashes) < Len(store)
        BY <1>3, <3>2, Shapes
      <4>3. response \in Histories
        BY DEF Sound, TypeOK
      <4>4. Agrees(chain, store)
        BY DEF Sound, Elementwise
      <4>5. response = EmptyHash \/ (Len(response) = Len(hashes) + 1 /\ Agrees(response, store))
        BY <1>3, <4>2, <4>4
      <4>6. /\ Elementwise' /\ hashes' \in Seq(Histories)
            /\ Len(hashes') = Len(hashes) + 1 /\ Len(hashes') <= MaxHeight
            /\ \A h \in 1..Len(hashes') : hashes'[h] \in Histories
        BY <1>1, <4>1, <4>2, <4>3, <4>5, MoreHashes
      <4> QED BY <4>2, <4>6, Shapes
    <3> QED BY <3>1, <3>2
  <2>2. TypeOK'
    BY <1>1, <1>3, <1>5, <2>1, Shapes DEF Sound, TypeOK, Pcs
  <2>3. Distances'
    BY <1>1, <1>3, <1>5, <2>1, Shapes DEF Distances
  <2>4. WorkOfChain'
    BY <1>1, <1>3, <1>5, Shapes DEF WorkOfChain
  <2> QED BY <1>5, <2>1, <2>2, <2>3, <2>4 DEF Sound
<1> QED BY <1>2, <1>4, <1>5

LEMMA SoundRefused == ASSUME Sound, Refused PROVE Sound'
<1>1. /\ pc' = "halted" /\ halt' = "appHash"
      /\ UNCHANGED <<flag, chain, work, strategy, next, store, hashes, response>>
  BY DEF Refused
<1>2. TypeOK'
  BY <1>1 DEF Sound, TypeOK, Pcs, Halts
<1>3. Elementwise' /\ Distances' /\ WorkOfChain'
  BY <1>1 DEF Sound, Elementwise, Distances, WorkOfChain
<1> QED BY <1>1, <1>2, <1>3 DEF Sound

LEMMA SoundStep == Sound /\ [Next]_vars => Sound'
<1> SUFFICES ASSUME Sound, [Next]_vars PROVE Sound'
  OBVIOUS
<1>1. CASE UNCHANGED vars
  BY <1>1 DEF vars, Sound, TypeOK, Elementwise, Distances, WorkOfChain
<1> QED
  BY <1>1, SoundBuild, SoundCut, SoundLoad, SoundTmRollback, SoundHandshake, SoundDecide,
     SoundExecute, SoundCommit, SoundSave, SoundRefused, SoundCrash DEF Next

-----------------------------------------------------------------------------
\* Through rollbacks, crashes between the two cuts and replays, chain, hashes,
\* store and work state stay as close as Distances and WorkOfChain say.
THEOREM RollbackSound == Spec => []Sound
BY SoundInit, SoundStep, PTL DEF Spec

\* The state of the start-up and of the block cycle keeps its types.
THEOREM RollbackTypeCorrect == Spec => []TypeOK
<1>1. Sound => TypeOK
  BY DEF Sound
<1> QED BY <1>1, RollbackSound, PTL

\* The chain is cut before Tendermint's store: the application is never ahead.
THEOREM AppIsNotAhead == Spec => []AppNotAhead
<1>1. Sound => AppNotAhead
  BY DEF Sound, Elementwise, Agrees, AppNotAhead
<1> QED BY <1>1, RollbackSound, PTL

\* The chain and the saved hashes are the outcome of Tendermint's own blocks.
THEOREM ChainIsOfStore == Spec => []ChainOfStore
<1>1. ASSUME Sound PROVE ChainOfStore
  <2>1. IsPrefix(chain, store)
    BY <1>1, Shapes, PrefixElements DEF Sound, Elementwise
  <2>2. ASSUME NEW h \in 1..Len(hashes) PROVE hashes[h] \in {EmptyHash, SubSeq(store, 1, h)}
    <3>1. hashes[h] = EmptyHash \/ (Len(hashes[h]) = h /\ Agrees(hashes[h], store))
      BY <1>1 DEF Sound, Elementwise
    <3>2. hashes[h] \in Seq(Payloads) /\ h \in 1..Len(store)
      BY <1>1, Shapes DEF Sound, Distances
    <3> QED BY <1>1, <3>1, <3>2, Shapes, SubSeqElements
  <2> QED BY <2>1, <2>2 DEF ChainOfStore
<1> QED BY <1>1, RollbackSound, PTL

\* A node whose commits can succeed has the strategy of the chain it extends.
THEOREM StrategyIsOfChain == Spec => []StrategyOfChain
<1>1. ASSUME Sound PROVE StrategyOfChain
  <2> SUFFICES ASSUME pc \in {"loaded", "handshake", "idle", "executed"}, work.parent = chain
               PROVE  strategy = chain \o work.done
    BY DEF StrategyOfChain
  <2>1. CASE pc \in {"loaded", "handshake", "idle"}
    <3>1. work.done = <<>> /\ strategy = chain
      BY <1>1, <2>1 DEF Sound, WorkOfChain
    <3> QED BY <1>1, <3>1, Shapes, ConcatEmptySeq
  <2>2. CASE pc = "executed"
    <3>1. work.done = <<store[next]>> /\ strategy = Append(chain, store[next])
      BY <1>1, <2>2 DEF Sound, WorkOfChain
    <3>2. store[next] \in Payloads
      <4>1. next \in 1..Len(store)
        BY <1>1, <2>2, Shapes DEF Sound, Distances
      <4> QED BY <1>1, <4>1, Shapes, ElementOfSeq
    <3> QED BY <1>1, <3>1, <3>2, Shapes, AppendIsConcat
  <2> QED BY <2>1, <2>2
<1> QED BY <1>1, RollbackSound, PTL
=============================================================================
