---------------------------- MODULE CheckTxProofs ----------------------------
(***************************************************************************)
(* Theorems about CheckTx, for all accounts, transactions, balances and    *)
(* block sizes, and every interleaving of checks, blocks and rechecks.     *)
(***************************************************************************)
EXTENDS CheckTx, SumProofs, SequenceTheorems

\* The inductive invariant.
Admission == TypeOK /\ SenderStaysCached /\ MempoolRunnable /\ NoncesCounted /\ NoneTwice /\ Known

-----------------------------------------------------------------------------
(* Transactions, states and sequences. *)

LEMMA TxFields ==
    ASSUME NEW tx \in Txs
    PROVE  /\ tx.from \in Accounts /\ tx.payer \in Accounts /\ tx.to \in Accounts
           /\ tx.nonce \in Nat /\ tx.cost \in Nat /\ tx.value \in Nat
BY CheckTxAssumption DEF Tx

\* A check and an execution make a state of a state, and count one nonce up.
LEMMA CheckedState ==
    ASSUME NEW tx \in Txs, NEW st \in State
    PROVE  /\ Checked(tx, st) \in State
           /\ Checked(tx, st).nonce = [st.nonce EXCEPT ![tx.from] = tx.nonce + 1]
<1>1. Debit(tx) \in Int /\ Credit(tx) \in Int
  BY TxFields DEF Debit, Credit
<1>2. [st.nonce EXCEPT ![tx.from] = tx.nonce + 1] \in [Accounts -> Nat]
  BY TxFields DEF State
<1>3. [a \in Accounts |-> st.balance[a] - (IF a = tx.payer THEN Debit(tx) ELSE 0)
                                  + (IF a = tx.to THEN Credit(tx) ELSE 0)] \in [Accounts -> Int]
  BY <1>1 DEF State
<1> QED BY <1>2, <1>3 DEF Checked, State

LEMMA ExecutedState ==
    ASSUME NEW tx \in Txs, NEW st \in State
    PROVE  Executed(tx, st) \in State
<1>1. Credit(tx) \in Int /\ tx.cost \in Int
  BY TxFields DEF Credit
<1>2. [st.nonce EXCEPT ![tx.from] = @ + 1] \in [Accounts -> Nat]
  BY TxFields DEF State
<1>3. [a \in Accounts |-> st.balance[a] - (IF a = tx.payer THEN tx.cost ELSE 0)
                                  + (IF a = tx.to THEN Credit(tx) ELSE 0)] \in [Accounts -> Int]
  BY <1>1 DEF State
<1> QED BY <1>2, <1>3 DEF Executed, State

\* A selection keeps what is at its positions and brings nothing twice.
LEMMA SelectionElements ==
    ASSUME NEW S, NEW seq \in Seq(S), NEW P \in SUBSET (1..Len(seq)),
           NEW rest \in Selection(seq, P)
    PROVE  /\ rest \in Seq(S)
           /\ \A n \in 1..Len(rest) : \E k \in P : rest[n] = seq[k]
           /\ Distinct(seq) => Distinct(rest)
<1>1. PICK f \in [1..Cardinality(P) -> P] :
          /\ \A m, n \in DOMAIN f : m < n => f[m] < f[n]
          /\ rest = [n \in DOMAIN f |-> seq[f[n]]]
  BY DEF Selection
<1>2. Cardinality(P) \in Nat
  <2>1. Len(seq) \in Nat
    BY LenProperties
  <2>2. IsFiniteSet(1..Len(seq))
    BY <2>1, FS_Interval
  <2> QED BY <2>2, FS_Subset, FS_CardinalityType
<1> DEFINE N == Cardinality(P)
<1>3. rest = [n \in 1..N |-> seq[f[n]]]
  BY <1>1
<1> HIDE DEF N
<1>4. \A n \in 1..N : f[n] \in P /\ f[n] \in 1..Len(seq) /\ seq[f[n]] \in S
  <2>1. \A n \in 1..N : f[n] \in P /\ f[n] \in 1..Len(seq)
    BY <1>1 DEF N
  <2> QED BY <2>1, ElementOfSeq
<1>5. rest \in Seq(S) /\ Len(rest) = N /\ \A n \in 1..N : rest[n] = seq[f[n]]
  BY <1>2, <1>3, <1>4 DEF N
<1>6. ASSUME Distinct(seq), NEW m \in 1..N, NEW n \in 1..N, rest[m] = rest[n] PROVE m = n
  <2>1. f[m] = f[n]
    BY <1>4, <1>5, <1>6 DEF Distinct
  <2>2. \A i, j \in 1..N : i < j => f[i] < f[j]
    BY <1>1 DEF N
  <2>3. f[m] \in Int /\ f[n] \in Int /\ m \in Int /\ n \in Int
    BY <1>4
  <2> QED BY <2>1, <2>2, <2>3
<1> QED BY <1>4, <1>5, <1>6 DEF Distinct

LEMMA AppendElements ==
    ASSUME NEW S, NEW seq \in Seq(S), NEW e \in S
    PROVE  /\ Append(seq, e) \in Seq(S) /\ Len(seq) \in Nat
           /\ Len(Append(seq, e)) = Len(seq) + 1
           /\ \A n \in 1..Len(seq) : Append(seq, e)[n] = seq[n]
           /\ Append(seq, e)[Len(seq) + 1] = e
           /\ \A n \in 1..Len(Append(seq, e)) : n \in 1..Len(seq) \/ n = Len(seq) + 1
           /\ Elements(Append(seq, e)) = Elements(seq) \cup {e}
<1>1. Len(seq) \in Nat
  BY LenProperties
<1>2. /\ Append(seq, e) \in Seq(S) /\ Len(Append(seq, e)) = Len(seq) + 1
      /\ \A n \in 1..Len(seq) : Append(seq, e)[n] = seq[n]
      /\ Append(seq, e)[Len(seq) + 1] = e
  BY AppendProperties
<1>3. \A n \in 1..Len(Append(seq, e)) : n \in 1..Len(seq) \/ n = Len(seq) + 1
  BY <1>1, <1>2
<1>4. \A n \in 1..(Len(seq) + 1) : n \in 1..Len(seq) \/ n = Len(seq) + 1
  BY <1>1
<1>5. Elements(Append(seq, e)) = Elements(seq) \cup {e}
  <2>1. Len(seq) + 1 \in 1..(Len(seq) + 1) /\ 1..Len(seq) \subseteq 1..(Len(seq) + 1)
    BY <1>1
  <2> QED BY <1>2, <1>4, <2>1 DEF Elements
<1> QED BY <1>1, <1>2, <1>3, <1>5

LEMMA TailElements ==
    ASSUME NEW S, NEW seq \in Seq(S), seq # <<>>
    PROVE  /\ Head(seq) \in S /\ Head(seq) \in Elements(seq) /\ Tail(seq) \in Seq(S)
           /\ Elements(Tail(seq)) \subseteq Elements(seq)
           /\ Distinct(seq) => Distinct(Tail(seq)) /\ Head(seq) \notin Elements(Tail(seq))
<1>1. Len(seq) \in Nat /\ Len(seq) > 0
  BY LenProperties, EmptySeq
<1>2. /\ Head(seq) \in S /\ Head(seq) = seq[1]
      /\ Tail(seq) \in Seq(S) /\ Len(Tail(seq)) = Len(seq) - 1
      /\ \A n \in 1..Len(Tail(seq)) : Tail(seq)[n] = seq[n + 1]
  BY <1>1, HeadTailProperties
<1>3. /\ 1 \in 1..Len(seq)
      /\ \A n \in 1..Len(Tail(seq)) : n \in Int /\ n >= 1 /\ n + 1 \in 1..Len(seq)
  BY <1>1, <1>2
<1>4. Head(seq) \in Elements(seq) /\ Elements(Tail(seq)) \subseteq Elements(seq)
  BY <1>2, <1>3 DEF Elements
<1>5. ASSUME Distinct(seq), NEW m \in 1..Len(Tail(seq)), NEW n \in 1..Len(Tail(seq)),
             Tail(seq)[m] = Tail(seq)[n]
      PROVE  m = n
  <2>1. m + 1 = n + 1
    BY <1>2, <1>3, <1>5 DEF Distinct
  <2> QED BY <1>3, <2>1
<1>6. ASSUME Distinct(seq), NEW n \in 1..Len(Tail(seq)) PROVE Head(seq) # Tail(seq)[n]
  <2>1. seq[1] = seq[n + 1] => 1 = n + 1
    BY <1>3, <1>6 DEF Distinct
  <2> QED BY <1>2, <1>3, <2>1
<1> QED BY <1>2, <1>4, <1>5, <1>6 DEF Distinct, Elements

-----------------------------------------------------------------------------
(* One more transaction in the mempool, by a check or by a recheck. *)

\* The transaction of a sender's next nonce, appended, keeps the nonces in order.
LEMMA AppendRunnable ==
    ASSUME Admission, NEW tx \in Txs, Valid(tx, check), check' = Checked(tx, check),
           mempool' = Append(mempool, tx), committed' = committed
    PROVE  /\ check' \in State /\ mempool' \in Seq(Txs)
           /\ MempoolRunnable' /\ NoncesCounted' /\ Distinct(mempool)'
           /\ tx \notin Elements(mempool) /\ Elements(mempool') = Elements(mempool) \cup {tx}
<1> DEFINE len == Len(mempool)
           c == Checked(tx, check)
<1>1. mempool \in Seq(Txs) /\ check \in State /\ committed \in State
  BY DEF Admission, TypeOK
<1>2. /\ mempool' \in Seq(Txs) /\ len \in Nat /\ Len(mempool') = len + 1
      /\ \A n \in 1..len : mempool'[n] = mempool[n]
      /\ mempool'[len + 1] = tx
      /\ \A n \in 1..Len(mempool') : n \in 1..len \/ n = len + 1
      /\ Elements(mempool') = Elements(mempool) \cup {tx}
  BY <1>1, AppendElements
<1>3. /\ check' \in State
      /\ check'.nonce = [check.nonce EXCEPT ![tx.from] = tx.nonce + 1]
  BY <1>1, CheckedState
<1>4. /\ tx.from \in Accounts /\ tx.nonce \in Nat /\ check.nonce[tx.from] = tx.nonce
      /\ check.nonce \in [Accounts -> Nat] /\ committed.nonce \in [Accounts -> Nat]
  BY <1>1, TxFields DEF Valid, State
<1>5. /\ check'.nonce[tx.from] = tx.nonce + 1
      /\ \A a \in Accounts \ {tx.from} : check'.nonce[a] = check.nonce[a]
  BY <1>3, <1>4
<1>6. /\ \A a \in Accounts : check.nonce[a] = committed.nonce[a] + Cardinality(Pending(a))
      /\ \A n \in 1..len : mempool[n].nonce < check.nonce[mempool[n].from]
      /\ \A n \in 1..len : mempool[n].nonce = committed.nonce[mempool[n].from]
                                 + Cardinality(Before(n, mempool[n].from))
      /\ \A m, n \in 1..len : mempool[m] = mempool[n] => m = n
  BY DEF Admission, NoncesCounted, NoneTwice, Distinct, MempoolRunnable, SenderStaysCached
<1>7. \A n \in 1..len : mempool[n] \in Txs /\ mempool[n].from \in Accounts /\ mempool[n].nonce \in Nat
  <2>1. \A n \in 1..len : mempool[n] \in Txs
    BY <1>1, ElementOfSeq
  <2> QED BY <2>1, TxFields
<1>8. ASSUME NEW n \in 1..len PROVE mempool[n] # tx
  <2>1. mempool[n].nonce < check.nonce[mempool[n].from]
    BY <1>6
  <2> QED BY <1>4, <2>1
<1> DEFINE pending(a) == {n \in 1..len : mempool[n].from = a}
           pendingNow(a) == {n \in 1..Len(mempool') : mempool'[n].from = a}
           before(n, a) == {m \in 1..(n - 1) : mempool[m].from = a}
           beforeNow(n, a) == {m \in 1..(n - 1) : mempool'[m].from = a}
<1>9. \A a : pendingNow(a) = IF a = tx.from THEN pending(a) \cup {len + 1} ELSE pending(a)
  <2>1. \A a : pendingNow(a) = {n \in 1..(len + 1) : mempool'[n].from = a}
    BY <1>2
  <2>2. \A n \in 1..len : n \in 1..(len + 1) /\ n # len + 1
    BY <1>2
  <2>3. len + 1 \in 1..(len + 1) /\ \A n \in 1..(len + 1) : n \in 1..len \/ n = len + 1
    BY <1>2
  <2> QED BY <1>2, <2>1, <2>2, <2>3
<1>10. \A a : IsFiniteSet(pending(a)) /\ Cardinality(pending(a)) \in Nat /\ len + 1 \notin pending(a)
  <2>1. IsFiniteSet(1..len)
    BY <1>2, FS_Interval
  <2>2. \A a : pending(a) \subseteq 1..len
    OBVIOUS
  <2>3. len + 1 \notin 1..len
    BY <1>2
  <2> HIDE DEF pending
  <2> QED BY <2>1, <2>2, <2>3, FS_Subset, FS_CardinalityType
<1>11. /\ Cardinality(pendingNow(tx.from)) = Cardinality(pending(tx.from)) + 1
       /\ \A a : a # tx.from => Cardinality(pendingNow(a)) = Cardinality(pending(a))
  <2>1. pendingNow(tx.from) = pending(tx.from) \cup {len + 1}
    BY <1>9
  <2>2. Cardinality(pending(tx.from) \cup {len + 1}) = Cardinality(pending(tx.from)) + 1
    <3> HIDE DEF pending
    <3> QED BY <1>10, FS_AddElement
  <2>3. \A a : a # tx.from => pendingNow(a) = pending(a)
    BY <1>9
  <2> HIDE DEF pending, pendingNow
  <2> QED BY <2>1, <2>2, <2>3
<1>12. NoncesCounted'
  <2>1. ASSUME NEW a \in Accounts
        PROVE  check'.nonce[a] = committed.nonce[a] + Cardinality(pendingNow(a))
    <3>1. check.nonce[a] = committed.nonce[a] + Cardinality(pending(a))
      BY <1>6 DEF Pending
    <3> HIDE DEF pending, pendingNow
    <3>2. committed.nonce[a] \in Nat /\ Cardinality(pending(a)) \in Nat
      BY <1>4, <1>10
    <3>3. CASE a = tx.from
      <4>1. check'.nonce[a] = tx.nonce + 1 /\ tx.nonce = check.nonce[a]
        BY <1>4, <1>5, <3>3
      <4>2. Cardinality(pendingNow(a)) = Cardinality(pending(a)) + 1
        BY <1>11, <3>3
      <4> QED BY <3>1, <3>2, <4>1, <4>2
    <3>4. CASE a # tx.from
      <4>1. check'.nonce[a] = check.nonce[a]
        BY <1>5, <3>4
      <4>2. Cardinality(pendingNow(a)) = Cardinality(pending(a))
        BY <1>11, <3>4
      <4> QED BY <3>1, <4>1, <4>2
    <3> QED BY <3>3, <3>4
  <2>2. ASSUME NEW n \in 1..Len(mempool')
        PROVE  mempool'[n].nonce < check'.nonce[mempool'[n].from]
    <3>1. CASE n \in 1..len
      BY <1>2, <1>4, <1>5, <1>6, <1>7, <3>1
    <3>2. CASE n = len + 1
      BY <1>2, <1>4, <1>5, <3>2
    <3> QED BY <1>2, <3>1, <3>2
  <2> QED BY <2>1, <2>2 DEF NoncesCounted, Pending
<1>13. MempoolRunnable'
  <2>1. ASSUME NEW n \in 1..Len(mempool'), NEW a PROVE beforeNow(n, a) = before(n, a)
    <3>1. \A m \in 1..(n - 1) : m \in 1..len
      BY <1>2
    <3> QED BY <1>2, <3>1
  <2>2. ASSUME NEW n \in 1..Len(mempool')
        PROVE  mempool'[n].nonce = committed.nonce[mempool'[n].from]
                                     + Cardinality(beforeNow(n, mempool'[n].from))
    <3>1. CASE n \in 1..len
      <4>1. mempool[n].nonce = committed.nonce[mempool[n].from]
                                 + Cardinality(before(n, mempool[n].from))
        BY <1>6, <3>1 DEF Before
      <4>2. beforeNow(n, mempool[n].from) = before(n, mempool[n].from)
        BY <2>1
      <4>3. mempool'[n] = mempool[n]
        BY <1>2, <3>1
      <4> HIDE DEF before, beforeNow
      <4> QED BY <4>1, <4>2, <4>3
    <3>2. CASE n = len + 1
      <4>1. n - 1 = len
        BY <1>2, <3>2
      <4>2. beforeNow(n, tx.from) = before(n, tx.from)
        BY <2>1
      <4>3. before(n, tx.from) = pending(tx.from)
        BY <4>1
      <4>4. check.nonce[tx.from] = committed.nonce[tx.from] + Cardinality(pending(tx.from))
        BY <1>4, <1>6 DEF Pending
      <4>5. mempool'[n] = tx
        BY <1>2, <3>2
      <4> HIDE DEF before, beforeNow, pending
      <4> QED BY <1>4, <4>2, <4>3, <4>4, <4>5
    <3> QED BY <1>2, <3>1, <3>2
  <2> QED BY <2>2 DEF MempoolRunnable, Before
<1>14. Distinct(mempool)'
  BY <1>2, <1>6, <1>8 DEF Distinct
<1>15. tx \notin Elements(mempool)
  BY <1>8 DEF Elements
<1> QED BY <1>2, <1>3, <1>12, <1>13, <1>14, <1>15

-----------------------------------------------------------------------------
LEMMA AdmissionInit == Init => Admission
<1> SUFFICES ASSUME Init PROVE Admission
  OBVIOUS
<1>1. <<>> \in Seq(Txs) /\ Len(<<>>) = 0
  BY EmptySeq
<1>2. Genesis \in State
  <2>1. InitBalance \in [Accounts -> Int]
    BY CheckTxAssumption
  <2> QED BY <2>1 DEF Genesis, State
<1>3. TypeOK
  BY <1>1, <1>2, CheckTxAssumption DEF Init, TypeOK
<1>4. Len(mempool) = 0 /\ mempool = <<>> /\ rechecking = <<>>
  BY <1>1 DEF Init
<1>5. \A a : Cardinality(Pending(a)) = 0
  <2>1. \A a : Pending(a) = {}
    BY <1>4 DEF Pending
  <2> QED BY <2>1, FS_EmptySet
<1>6. NoncesCounted
  BY <1>4, <1>5 DEF Init, NoncesCounted, Genesis
<1>7. MempoolRunnable /\ SenderStaysCached
  BY <1>4 DEF Init, MempoolRunnable, SenderStaysCached
<1>8. NoneTwice /\ Known
  BY <1>1, <1>4 DEF Init, NoneTwice, Known, Distinct, Elements
<1> QED BY <1>3, <1>6, <1>7, <1>8 DEF Admission

LEMMA AdmissionCheck ==
    ASSUME Admission, NEW tx \in Txs, CheckTxNew(tx)
    PROVE  Admission'
<1>1. /\ phase \in {"idle", "deliver"} /\ Valid(tx, check) /\ check' = Checked(tx, check)
      /\ cached' = cached \cup {tx} /\ mempool' = Append(mempool, tx)
      /\ UNCHANGED <<phase, committed, work, gasLeft, block, delivered, rechecking>>
  BY DEF CheckTxNew
<1>2. /\ check' \in State /\ mempool' \in Seq(Txs)
      /\ MempoolRunnable' /\ NoncesCounted' /\ Distinct(mempool)'
      /\ tx \notin Elements(mempool) /\ Elements(mempool') = Elements(mempool) \cup {tx}
  BY <1>1, AppendRunnable
<1>3. TypeOK'
  BY <1>1, <1>2 DEF Admission, TypeOK
<1>4. rechecking = <<>> /\ Elements(rechecking) = {} /\ Distinct(rechecking)
  BY <1>1 DEF Admission, Known, Elements, Distinct
<1>5. NoneTwice'
  BY <1>1, <1>2, <1>4 DEF NoneTwice, Distinct, Elements
<1>6. Elements(mempool') \cup Elements(rechecking')
         = Elements(mempool) \cup Elements(rechecking) \cup {tx}
  BY <1>1, <1>2
<1>7. Known'
  <2>1. Elements(mempool) \cup Elements(rechecking)
          \subseteq cached \cup (IF phase = "deliver" THEN {block[n] : n \in 1..delivered} ELSE {})
    BY DEF Admission, Known
  <2>2. Elements(mempool') \cup Elements(rechecking')
          \subseteq cached' \cup (IF phase' = "deliver" THEN {block'[n] : n \in 1..delivered'} ELSE {})
    BY <1>1, <1>6, <2>1
  <2>3. delivered' <= Len(block') /\ (phase' # "recheck" => rechecking' = <<>>)
    BY <1>1 DEF Admission, Known
  <2> QED BY <2>2, <2>3 DEF Known, Elements
<1>8. SenderStaysCached'
  BY <1>1 DEF SenderStaysCached
<1> QED BY <1>2, <1>3, <1>5, <1>7, <1>8 DEF Admission

\* Steps that leave the mempool and the two states alone.
LEMMA SameMempool ==
    ASSUME Admission, UNCHANGED <<mempool, check, committed>>, phase' # "panic"
    PROVE  MempoolRunnable' /\ NoncesCounted' /\ SenderStaysCached'
<1>1. MempoolRunnable'
  BY DEF Admission, MempoolRunnable, SenderStaysCached, Before
<1>2. NoncesCounted'
  BY DEF Admission, NoncesCounted, Pending
<1> QED BY <1>1, <1>2 DEF SenderStaysCached

LEMMA AdmissionBegin == ASSUME Admission, BeginBlock PROVE Admission'
<1>1. /\ phase = "idle" /\ phase' = "deliver" /\ delivered' = 0
      /\ UNCHANGED <<committed, work, gasLeft, check, cached, mempool, rechecking>>
  BY DEF BeginBlock
<1>2. PICK n \in 0..BlockGas : \E b \in [1..n -> Txs] : block' = b
  BY DEF BeginBlock
<1>3. block' \in Seq(Txs) /\ Len(block') \in Nat
  BY <1>2, CheckTxAssumption
<1>4. TypeOK'
  BY <1>1, <1>3 DEF Admission, TypeOK
<1>5. MempoolRunnable' /\ NoncesCounted' /\ SenderStaysCached'
  BY <1>1, SameMempool
<1>6. NoneTwice'
  BY <1>1 DEF Admission, NoneTwice, Distinct, Elements
<1>7. Known'
  BY <1>1, <1>3 DEF Admission, Known, Elements
<1> QED BY <1>4, <1>5, <1>6, <1>7 DEF Admission

LEMMA AdmissionDeliver == ASSUME Admission, DeliverTx PROVE Admission'
<1> DEFINE tx == block[delivered + 1]
<1>1. /\ phase = "deliver" /\ delivered < Len(block) /\ cached' = cached \ {tx}
      /\ \/ work' = Executed(tx, work) /\ gasLeft' = gasLeft - 1
         \/ UNCHANGED <<work, gasLeft>>
      /\ delivered' = delivered + 1
      /\ UNCHANGED <<phase, committed, check, mempool, block, rechecking>>
  BY DEF DeliverTx
<1>2. /\ block \in Seq(Txs) /\ delivered \in Nat /\ work \in State /\ gasLeft \in Int
      /\ Len(block) \in Nat
  BY LenProperties DEF Admission, TypeOK
<1>3. tx \in Txs
  <2>1. delivered + 1 \in 1..Len(block)
    BY <1>1, <1>2
  <2> QED BY <1>2, <2>1, ElementOfSeq
<1>4. tx \in {block[n] : n \in 1..delivered'} /\ {block[n] : n \in 1..delivered} \subseteq {block[n] : n \in 1..delivered'}
  <2>1. delivered + 1 \in 1..(delivered + 1) /\ 1..delivered \subseteq 1..(delivered + 1)
    BY <1>2
  <2> QED BY <1>1, <2>1
<1> HIDE DEF tx
<1>5. TypeOK'
  <2>1. work' \in State /\ gasLeft' \in Int
    BY <1>1, <1>2, <1>3, ExecutedState
  <2> QED BY <1>1, <1>2, <2>1 DEF Admission, TypeOK
<1>6. MempoolRunnable' /\ NoncesCounted' /\ SenderStaysCached'
  BY <1>1, SameMempool
<1>7. NoneTwice'
  <2>1. NoneTwice /\ mempool' = mempool /\ rechecking' = rechecking
    BY <1>1 DEF Admission
  <2> QED BY <2>1 DEF NoneTwice, Distinct, Elements
<1>8. Known'
  <2>1. Elements(mempool) \cup Elements(rechecking)
          \subseteq cached \cup {block[n] : n \in 1..delivered}
    BY <1>1 DEF Admission, Known
  <2>2. Elements(mempool) \cup Elements(rechecking)
          \subseteq cached' \cup {block[n] : n \in 1..delivered'}
    BY <1>1, <1>4, <2>1
  <2>3. delivered' <= Len(block) /\ rechecking = <<>>
    BY <1>1, <1>2 DEF Admission, Known
  <2> QED BY <1>1, <2>2, <2>3 DEF Known, Elements
<1> QED BY <1>5, <1>6, <1>7, <1>8 DEF Admission

\* The check state and the mempool start again from the executed block.
LEMMA AdmissionCommit == ASSUME Admission, Commit PROVE Admission'
<1> DEFINE P == {n \in 1..Len(mempool) : mempool[n] \notin Elements(block)}
<1>1. /\ phase = "deliver" /\ delivered = Len(block) /\ phase' = "recheck"
      /\ check' = work /\ committed' = work /\ gasLeft' = BlockGas
      /\ rechecking' \in Selection(mempool, P) /\ mempool' = <<>>
      /\ UNCHANGED <<work, cached, block, delivered>>
  BY DEF Commit
<1>2. mempool \in Seq(Txs) /\ work \in State /\ Distinct(mempool)
  BY DEF Admission, TypeOK, NoneTwice
<1>3. /\ rechecking' \in Seq(Txs)
      /\ \A n \in 1..Len(rechecking') : \E k \in P : rechecking'[n] = mempool[k]
      /\ Distinct(rechecking')
  <2>1. P \in SUBSET (1..Len(mempool))
    OBVIOUS
  <2> HIDE DEF P
  <2> QED BY <1>1, <1>2, <2>1, SelectionElements
<1>4. mempool' \in Seq(Txs) /\ Len(mempool') = 0
  BY <1>1, EmptySeq
<1>5. TypeOK'
  BY <1>1, <1>2, <1>3, <1>4, CheckTxAssumption DEF Admission, TypeOK
<1>6. MempoolRunnable' /\ SenderStaysCached'
  BY <1>1, <1>4 DEF MempoolRunnable, SenderStaysCached
<1>7. NoncesCounted'
  <2>1. \A a : {n \in 1..Len(mempool') : mempool'[n].from = a} = {}
    BY <1>4
  <2>2. \A a \in Accounts : work.nonce[a] \in Nat
    BY <1>2 DEF State
  <2>3. \A a \in Accounts : check'.nonce[a] = committed'.nonce[a] + Cardinality({})
    BY <1>1, <2>2, FS_EmptySet
  <2>4. \A a \in Accounts : check'.nonce[a] = committed'.nonce[a]
                + Cardinality({n \in 1..Len(mempool') : mempool'[n].from = a})
    BY <2>1, <2>3
  <2> QED BY <1>4, <2>4 DEF NoncesCounted, Pending
<1>8. NoneTwice'
  BY <1>3, <1>4 DEF NoneTwice, Distinct, Elements
<1>9. Known'
  <2>1. Elements(mempool) \subseteq cached \cup Elements(block)
    BY <1>1 DEF Admission, Known, Elements
  <2>2. ASSUME NEW n \in 1..Len(rechecking') PROVE rechecking'[n] \in cached
    <3>1. PICK k \in P : rechecking'[n] = mempool[k]
      BY <1>3
    <3>2. mempool[k] \in Elements(mempool) /\ mempool[k] \notin Elements(block)
      BY DEF Elements
    <3> QED BY <2>1, <3>1, <3>2
  <2>3. delivered <= Len(block)
    BY DEF Admission, Known
  <2> QED BY <1>1, <1>4, <2>2, <2>3 DEF Known, Elements
<1> QED BY <1>5, <1>6, <1>7, <1>8, <1>9 DEF Admission

\* The sender is cached; the transaction stays, or leaves mempool and cache.
LEMMA AdmissionRecheck == ASSUME Admission, Recheck PROVE Admission'
<1> DEFINE tx == Head(rechecking)
<1>1. /\ phase = "recheck" /\ rechecking # <<>> /\ rechecking' = Tail(rechecking)
      /\ UNCHANGED <<committed, work, gasLeft, block, delivered>>
      /\ IF tx \in cached THEN (Keep(tx) \/ Drop(tx)) /\ UNCHANGED phase
         ELSE phase' = "panic" /\ UNCHANGED <<check, cached, mempool>>
  BY DEF Recheck
<1>2. rechecking \in Seq(Txs) /\ Distinct(rechecking)
  BY DEF Admission, TypeOK, NoneTwice
<1>3. /\ tx \in Txs /\ tx \in Elements(rechecking) /\ rechecking' \in Seq(Txs)
      /\ Elements(rechecking') \subseteq Elements(rechecking)
      /\ Distinct(rechecking') /\ tx \notin Elements(rechecking')
  BY <1>1, <1>2, TailElements
<1> HIDE DEF tx
<1>4. /\ Elements(mempool) \cup Elements(rechecking) \subseteq cached
      /\ Elements(mempool) \cap Elements(rechecking) = {}
      /\ delivered <= Len(block)
  BY <1>1 DEF Admission, Known, NoneTwice
<1>5. tx \in cached /\ (Keep(tx) \/ Drop(tx)) /\ phase' = phase
  BY <1>1, <1>3, <1>4
<1>6. CASE Keep(tx)
  <2>1. /\ Valid(tx, check) /\ check' = Checked(tx, check)
        /\ mempool' = Append(mempool, tx) /\ cached' = cached
    BY <1>6 DEF Keep
  <2>2. /\ check' \in State /\ mempool' \in Seq(Txs)
        /\ MempoolRunnable' /\ NoncesCounted' /\ Distinct(mempool)'
        /\ Elements(mempool') = Elements(mempool) \cup {tx}
    BY <1>1, <1>3, <2>1, AppendRunnable
  <2>3. TypeOK'
    BY <1>1, <1>3, <1>5, <2>1, <2>2 DEF Admission, TypeOK
  <2>4. NoneTwice'
    <3>1. Elements(mempool') \cap Elements(rechecking') = {}
      BY <1>3, <1>4, <2>2
    <3> QED BY <1>3, <2>2, <3>1 DEF NoneTwice, Distinct, Elements
  <2>5. Known'
    <3>1. Elements(mempool') \cup Elements(rechecking') \subseteq cached'
      BY <1>3, <1>4, <2>1, <2>2
    <3> QED BY <1>1, <1>4, <1>5, <3>1 DEF Known, Elements
  <2>6. SenderStaysCached'
    BY <1>1, <1>5 DEF SenderStaysCached
  <2> QED BY <2>2, <2>3, <2>4, <2>5, <2>6 DEF Admission
<1>7. CASE Drop(tx)
  <2>1. cached' = cached \ {tx} /\ check' = check /\ mempool' = mempool
    BY <1>7 DEF Drop
  <2>2. TypeOK'
    BY <1>1, <1>3, <1>5, <2>1 DEF Admission, TypeOK
  <2>3. MempoolRunnable' /\ NoncesCounted' /\ SenderStaysCached'
    BY <1>1, <1>5, <2>1, SameMempool
  <2>4. NoneTwice'
    <3>1. Elements(mempool') \cap Elements(rechecking') = {} /\ Distinct(mempool)
      BY <1>3, <1>4, <2>1 DEF Admission, NoneTwice
    <3> QED BY <1>3, <2>1, <3>1 DEF NoneTwice, Distinct, Elements
  <2>5. Known'
    <3>1. Elements(mempool') \cup Elements(rechecking') \subseteq cached'
      BY <1>3, <1>4, <2>1
    <3> QED BY <1>1, <1>4, <1>5, <3>1 DEF Known, Elements
  <2> QED BY <2>2, <2>3, <2>4, <2>5 DEF Admission
<1> QED BY <1>5, <1>6, <1>7

LEMMA AdmissionRecheckDone == ASSUME Admission, RecheckDone PROVE Admission'
<1>1. /\ phase = "recheck" /\ rechecking = <<>> /\ phase' = "idle" /\ block' = <<>>
      /\ delivered' = 0
      /\ UNCHANGED <<committed, work, gasLeft, check, cached, mempool, rechecking>>
  BY DEF RecheckDone
<1>2. block' \in Seq(Txs) /\ Len(block') = 0
  BY <1>1, EmptySeq
<1>3. TypeOK'
  BY <1>1, <1>2 DEF Admission, TypeOK
<1>4. MempoolRunnable' /\ NoncesCounted' /\ SenderStaysCached'
  BY <1>1, SameMempool
<1>5. NoneTwice'
  BY <1>1 DEF Admission, NoneTwice, Distinct, Elements
<1>6. Known'
  BY <1>1, <1>2 DEF Admission, Known, Elements
<1> QED BY <1>3, <1>4, <1>5, <1>6 DEF Admission

LEMMA AdmissionStep == Admission /\ [Next]_vars => Admission'
<1> SUFFICES ASSUME Admission, [Next]_vars PROVE Admission'
  OBVIOUS
<1>1. CASE UNCHANGED vars
  <2>1. UNCHANGED <<mempool, check, committed, rechecking, phase>> /\ phase' # "panic"
    BY <1>1 DEF vars, Admission, SenderStaysCached
  <2>2. MempoolRunnable' /\ NoncesCounted' /\ SenderStaysCached'
    BY <2>1, SameMempool
  <2>3. TypeOK' /\ Known'
    BY <1>1 DEF vars, Admission, TypeOK, Known, Elements
  <2>4. NoneTwice'
    <3>1. NoneTwice
      BY DEF Admission
    <3> QED BY <2>1, <3>1 DEF NoneTwice, Distinct, Elements
  <2> QED BY <2>2, <2>3, <2>4 DEF Admission
<1> QED
  BY <1>1, AdmissionCheck, AdmissionBegin, AdmissionDeliver, AdmissionCommit,
     AdmissionRecheck, AdmissionRecheckDone DEF Next

-----------------------------------------------------------------------------
\* However checks, blocks and rechecks interleave, the check state is ahead of the
\* committed one by exactly the mempool, and what is not cached was delivered.
THEOREM AdmissionHolds == Spec => []Admission
BY AdmissionInit, AdmissionStep, PTL DEF Spec

\* The states, the cache and the mempool keep their types.
THEOREM CheckTxTypeCorrect == Spec => []TypeOK
<1>1. Admission => TypeOK
  BY DEF Admission
<1> QED BY <1>1, AdmissionHolds, PTL

\* No recheck misses its sender: the panic of validateTx is out of reach.
THEOREM SenderIsCached == Spec => []SenderStaysCached
<1>1. Admission => SenderStaysCached
  BY DEF Admission
<1> QED BY <1>1, AdmissionHolds, PTL

\* The transactions of a sender are in the mempool in the order of their nonces,
\* from its committed nonce on.
THEOREM MempoolIsRunnable == Spec => []MempoolRunnable
<1>1. Admission => MempoolRunnable
  BY DEF Admission
<1> QED BY <1>1, AdmissionHolds, PTL
-----------------------------------------------------------------------------
(* The balances: the check state has paid what the mempool owes. *)

\* What a transaction takes from its payer is covered by what it was checked
\* against, and what it brings its receiver is not negative.
LEMMA Charges ==
    ASSUME NEW tx \in Txs
    PROVE  Debit(tx) \in 0..tx.cost /\ Credit(tx) \in Nat
BY TxFields DEF Debit, Credit

LEMMA CheckedBalance ==
    ASSUME NEW tx \in Txs, NEW st \in State, NEW a \in Accounts
    PROVE  /\ st.balance[a] \in Int
           /\ Checked(tx, st).balance[a] = (st.balance[a] - (IF a = tx.payer THEN Debit(tx) ELSE 0))
                                              + (IF a = tx.to THEN Credit(tx) ELSE 0)
           /\ Executed(tx, st).balance[a] = (st.balance[a] - (IF a = tx.payer THEN tx.cost ELSE 0))
                                              + (IF a = tx.to THEN Credit(tx) ELSE 0)
BY DEF Checked, Executed, State

\* The entries the two sums run over.
LEMMA DebtsAndGains ==
    ASSUME TypeOK, NEW a \in Accounts
    PROVE  /\ Len(mempool) \in Nat
           /\ Owed(a) = SumOver(Debts(a), 1..Len(mempool))
           /\ Due(a) = SumOver(Gains(a), 1..Len(mempool))
           /\ \A n \in 1..Len(mempool) : Debts(a)[n] \in Int /\ Gains(a)[n] \in Int
<1>1. Len(mempool) \in Nat /\ \A n \in 1..Len(mempool) : mempool[n] \in Txs
  BY LenProperties, ElementOfSeq DEF TypeOK
<1>2. DOMAIN Debts(a) = 1..Len(mempool) /\ DOMAIN Gains(a) = 1..Len(mempool)
  BY DEF Debts, Gains
<1>3. Owed(a) = SumOver(Debts(a), 1..Len(mempool)) /\ Due(a) = SumOver(Gains(a), 1..Len(mempool))
  BY <1>2 DEF Owed, Due, Sum
<1>4. ASSUME NEW n \in 1..Len(mempool) PROVE Debts(a)[n] \in Int /\ Gains(a)[n] \in Int
  <2>1. mempool[n].cost \in Int /\ Credit(mempool[n]) \in Int
    BY <1>1, TxFields, Charges
  <2> QED BY <2>1 DEF Debts, Gains
<1> QED BY <1>1, <1>3, <1>4

\* One more transaction in the mempool adds its own charge and its own gift.
LEMMA OwedAfterAppend ==
    ASSUME TypeOK, TypeOK', NEW tx \in Txs, mempool' = Append(mempool, tx), NEW a \in Accounts
    PROVE  /\ Owed(a) \in Int /\ Due(a) \in Int
           /\ Owed(a)' = Owed(a) + (IF a = tx.payer THEN Debit(tx) ELSE 0)
           /\ Due(a)' = Due(a) + (IF a = tx.to THEN Credit(tx) ELSE 0)
<1>0. PICK len \in Nat : len = Len(mempool)
  BY DebtsAndGains
<1>1. /\ Len(mempool') = len + 1 /\ \A n \in 1..len : mempool'[n] = mempool[n]
      /\ mempool'[len + 1] = tx
  BY <1>0, AppendElements DEF TypeOK
<1>2. PICK d, g : d = Debts(a) /\ g = Gains(a)
  OBVIOUS
<1>3. PICK dn, gn : dn = Debts(a)' /\ gn = Gains(a)'
  OBVIOUS
<1>4. Owed(a) = SumOver(d, 1..len) /\ Due(a) = SumOver(g, 1..len)
  BY <1>0, <1>2, DebtsAndGains
<1>5. Owed(a)' = SumOver(dn, 1..(len + 1)) /\ Due(a)' = SumOver(gn, 1..(len + 1))
  <2>1. DOMAIN Debts(a)' = 1..(len + 1) /\ DOMAIN Gains(a)' = 1..(len + 1)
    BY <1>1 DEF Debts, Gains
  <2> QED BY <1>3, <2>1 DEF Owed, Due, Sum
<1>6. \A n \in 1..len : n \in 1..(len + 1)
  OBVIOUS
<1>7. \A n \in 1..len : d[n] = dn[n] /\ g[n] = gn[n] /\ d[n] \in Int /\ g[n] \in Int
  <2>1. \A n \in 1..len : d[n] = dn[n] /\ g[n] = gn[n]
    BY <1>0, <1>1, <1>2, <1>3, <1>6 DEF Debts, Gains
  <2> QED BY <1>0, <1>2, <2>1, DebtsAndGains
<1>8. /\ dn[len + 1] = IF a = tx.payer THEN Debit(tx) ELSE 0
      /\ gn[len + 1] = IF a = tx.to THEN Credit(tx) ELSE 0
  <2>1. len + 1 \in 1..(len + 1)
    OBVIOUS
  <2> QED BY <1>1, <1>3, <2>1 DEF Debts, Gains, Debit
<1>9. dn[len + 1] \in Int /\ gn[len + 1] \in Int
  BY <1>8, TxFields, Charges
<1>10. \A n \in 1..(len + 1) : dn[n] \in Int /\ gn[n] \in Int
  <2>1. \A n \in 1..(len + 1) : n \in 1..len \/ n = len + 1
    OBVIOUS
  <2> QED BY <1>7, <1>9, <2>1
<1>11. /\ SumOver(d, 1..len) \in Int
       /\ SumOver(dn, 1..(len + 1)) = SumOver(d, 1..len) + dn[len + 1]
  BY <1>7, <1>10, SumAppend
<1>12. /\ SumOver(g, 1..len) \in Int
       /\ SumOver(gn, 1..(len + 1)) = SumOver(g, 1..len) + gn[len + 1]
  BY <1>7, <1>10, SumAppend
<1> QED BY <1>4, <1>5, <1>8, <1>11, <1>12

LEMMA AppendSolvent ==
    ASSUME TypeOK, TypeOK', Solvent, NEW tx \in Txs, Valid(tx, check),
           check' = Checked(tx, check), mempool' = Append(mempool, tx),
           UNCHANGED <<committed, work>>
    PROVE  Solvent'
<1> SUFFICES ASSUME NEW a \in Accounts
             PROVE  /\ committed'.balance[a] >= 0 /\ work'.balance[a] >= 0
                    /\ check'.balance[a] >= 0
                    /\ check'.balance[a] + Owed(a)' = committed'.balance[a] + Due(a)'
  BY DEF Solvent
<1>1. check \in State /\ committed \in State
  BY DEF TypeOK
<1>2. PICK out, in : /\ out = IF a = tx.payer THEN Debit(tx) ELSE 0
                     /\ in = IF a = tx.to THEN Credit(tx) ELSE 0
  OBVIOUS
<1>3. /\ Owed(a) \in Int /\ Due(a) \in Int
      /\ Owed(a)' = Owed(a) + out /\ Due(a)' = Due(a) + in
  BY <1>2, OwedAfterAppend
<1>4. /\ check.balance[a] \in Int /\ committed.balance[a] \in Int
      /\ check'.balance[a] = (check.balance[a] - out) + in
  BY <1>1, <1>2, CheckedBalance
<1>5. /\ committed.balance[a] >= 0 /\ work.balance[a] >= 0 /\ check.balance[a] >= 0
      /\ check.balance[a] + Owed(a) = committed.balance[a] + Due(a)
  BY DEF Solvent
<1>6. out \in Nat /\ in \in Nat /\ check.balance[a] - out >= 0
  <2>1. Debit(tx) \in 0..tx.cost /\ Credit(tx) \in Nat /\ tx.cost \in Nat
    BY Charges, TxFields
  <2>2. check.balance[tx.payer] >= tx.cost
    BY DEF Valid
  <2> QED BY <1>2, <1>4, <1>5, <2>1, <2>2
<1>7. PICK c, m, o, d \in Int : /\ c = check.balance[a] /\ m = committed.balance[a]
                                /\ o = Owed(a) /\ d = Due(a)
  BY <1>3, <1>4
<1>8. c + o = m + d /\ (c - out) + in >= 0 /\ ((c - out) + in) + (o + out) = m + (d + in)
  <2>1. c + o = m + d
    BY <1>5, <1>7
  <2>2. out \in Nat /\ in \in Nat /\ c - out >= 0
    BY <1>6, <1>7
  <2> QED BY <2>1, <2>2
<1>9. committed'.balance[a] = m /\ committed'.balance[a] >= 0 /\ work'.balance[a] >= 0
  BY <1>5, <1>7
<1>10. check'.balance[a] = (c - out) + in /\ Owed(a)' = o + out /\ Due(a)' = d + in
  BY <1>3, <1>4, <1>7
<1> QED BY <1>8, <1>9, <1>10

\* Steps that leave the mempool and the two states alone.
LEMMA SameSolvent ==
    ASSUME Solvent, UNCHANGED <<mempool, check, committed>>,
           \A a \in Accounts : work'.balance[a] >= 0
    PROVE  Solvent'
<1>1. \A a \in Accounts : Owed(a)' = Owed(a) /\ Due(a)' = Due(a)
  BY DEF Owed, Due, Debts, Gains
<1> QED BY <1>1 DEF Solvent

LEMMA SolventInit == Init => Solvent
<1> SUFFICES ASSUME Init, NEW a \in Accounts
             PROVE  /\ committed.balance[a] >= 0 /\ work.balance[a] >= 0
                    /\ check.balance[a] >= 0
                    /\ check.balance[a] + Owed(a) = committed.balance[a] + Due(a)
  BY DEF Solvent
<1>1. TypeOK /\ Len(mempool) = 0 /\ 1..0 = {}
  BY AdmissionInit DEF Admission, Init
<1>2. Owed(a) = SumOver(Debts(a), {}) /\ Due(a) = SumOver(Gains(a), {})
  BY <1>1, DebtsAndGains
<1>3. Owed(a) = 0 /\ Due(a) = 0
  BY <1>2, SumOfNone
<1>4. InitBalance[a] \in Nat
  BY CheckTxAssumption
<1> QED BY <1>3, <1>4 DEF Init, Genesis

\* What DeliverTx executes, the balance of its payer covers.
LEMMA SolventDeliver == ASSUME Admission, Solvent, DeliverTx PROVE Solvent'
<1>0. PICK tx : tx = block[delivered + 1]
  OBVIOUS
<1>1. /\ UNCHANGED <<committed, check, mempool>> /\ delivered < Len(block)
      /\ \/ Executable(tx, work) /\ work' = Executed(tx, work)
         \/ UNCHANGED work
  BY <1>0 DEF DeliverTx
<1>2. tx \in Txs /\ work \in State
  <2>1. block \in Seq(Txs) /\ delivered \in Nat /\ Len(block) \in Nat /\ work \in State
    BY LenProperties DEF Admission, TypeOK
  <2>2. delivered + 1 \in 1..Len(block)
    BY <1>1, <2>1
  <2> QED BY <1>0, <2>1, <2>2, ElementOfSeq
<1>3. ASSUME NEW a \in Accounts PROVE work'.balance[a] >= 0
  <2>1. work.balance[a] >= 0 /\ work.balance[a] \in Int
    BY <1>2, CheckedBalance DEF Solvent
  <2>2. CASE Executable(tx, work) /\ work' = Executed(tx, work)
    <3>1. work'.balance[a] = (work.balance[a] - (IF a = tx.payer THEN tx.cost ELSE 0))
                                + (IF a = tx.to THEN Credit(tx) ELSE 0)
      BY <1>2, <2>2, CheckedBalance
    <3>2. work.balance[tx.payer] >= tx.cost /\ tx.cost \in Nat /\ Credit(tx) \in Nat
      BY <1>2, <2>2, TxFields, Charges DEF Executable
    <3> QED BY <2>1, <3>1, <3>2
  <2>3. CASE UNCHANGED work
    BY <2>1, <2>3
  <2> QED BY <1>1, <2>2, <2>3
<1> QED BY <1>1, <1>3, SameSolvent

LEMMA SolventCommit == ASSUME Admission, Solvent, Commit PROVE Solvent'
<1> SUFFICES ASSUME NEW a \in Accounts
             PROVE  /\ committed'.balance[a] >= 0 /\ work'.balance[a] >= 0
                    /\ check'.balance[a] >= 0
                    /\ check'.balance[a] + Owed(a)' = committed'.balance[a] + Due(a)'
  BY DEF Solvent
<1>1. check' = work /\ committed' = work /\ work' = work /\ mempool' = <<>>
  BY DEF Commit
<1>2. DOMAIN Debts(a)' = {} /\ DOMAIN Gains(a)' = {}
  <2>1. Len(mempool') = 0 /\ 1..0 = {}
    BY <1>1
  <2> QED BY <2>1 DEF Debts, Gains
<1>3. Owed(a)' = 0 /\ Due(a)' = 0
  BY <1>2, SumOfNone DEF Owed, Due, Sum
<1>4. work.balance[a] \in Int /\ work.balance[a] >= 0
  BY DEF Admission, TypeOK, State, Solvent
<1> QED BY <1>1, <1>3, <1>4

LEMMA SolventRecheck == ASSUME Admission, Solvent, Recheck PROVE Solvent'
<1>0. PICK tx : tx = Head(rechecking)
  OBVIOUS
<1>1. /\ rechecking # <<>> /\ UNCHANGED <<committed, work>>
      /\ Keep(tx) \/ UNCHANGED <<check, mempool>>
  BY <1>0 DEF Recheck, Drop
<1>2. TypeOK /\ TypeOK'
  BY AdmissionRecheck DEF Admission
<1>3. tx \in Txs
  BY <1>0, <1>1, <1>2, TailElements DEF TypeOK
<1>4. CASE Keep(tx)
  <2>1. Valid(tx, check) /\ check' = Checked(tx, check) /\ mempool' = Append(mempool, tx)
    BY <1>4 DEF Keep
  <2> QED BY <1>1, <1>2, <1>3, <2>1, AppendSolvent
<1>5. CASE UNCHANGED <<check, mempool>>
  <2>1. \A a \in Accounts : work'.balance[a] >= 0
    BY <1>1 DEF Solvent
  <2> QED BY <1>1, <1>5, <2>1, SameSolvent
<1> QED BY <1>1, <1>4, <1>5

LEMMA SolventStep ==
    ASSUME Admission, Solvent, [Next]_vars
    PROVE  Solvent'
<1>1. ASSUME NEW tx \in Txs, CheckTxNew(tx) PROVE Solvent'
  <2>1. /\ Valid(tx, check) /\ check' = Checked(tx, check) /\ mempool' = Append(mempool, tx)
        /\ UNCHANGED <<committed, work>>
    BY <1>1 DEF CheckTxNew
  <2>2. TypeOK /\ TypeOK'
    BY <1>1, AdmissionCheck DEF Admission
  <2> QED BY <2>1, <2>2, AppendSolvent
<1>2. CASE BeginBlock \/ RecheckDone \/ UNCHANGED vars
  <2>1. UNCHANGED <<mempool, check, committed, work>>
    BY <1>2 DEF BeginBlock, RecheckDone, vars
  <2>2. \A a \in Accounts : work'.balance[a] >= 0
    BY <2>1 DEF Solvent
  <2> QED BY <2>1, <2>2, SameSolvent
<1> QED BY <1>1, <1>2, SolventDeliver, SolventCommit, SolventRecheck DEF Next

\* No balance is overdrawn, in the committed, the executed or the check state, and the
\* check state has paid and received exactly what the mempool says.
THEOREM AccountsAreSolvent == Spec => [](Admission /\ Solvent)
<1>1. Init => Admission /\ Solvent
  BY AdmissionInit, SolventInit
<1>2. Admission /\ Solvent /\ [Next]_vars => (Admission /\ Solvent)'
  BY AdmissionStep, SolventStep
<1> QED BY <1>1, <1>2, PTL DEF Spec

-----------------------------------------------------------------------------
(* Each pending transaction on its own. *)

\* An appended transaction leaves the sums before it as they were.
LEMMA SumsBefore ==
    ASSUME TypeOK, NEW tx \in Txs, mempool' = Append(mempool, tx), NEW a \in Accounts,
           NEW m \in Nat, m <= Len(mempool)
    PROVE  /\ SumOver(Debts(a), 1..m) \in Int /\ SumOver(Gains(a), 1..m) \in Int
           /\ SumOver(Debts(a)', 1..m) = SumOver(Debts(a), 1..m)
           /\ SumOver(Gains(a)', 1..m) = SumOver(Gains(a), 1..m)
<1>0. PICK len \in Nat : len = Len(mempool)
  BY DebtsAndGains
<1>1. Len(mempool') = len + 1 /\ \A n \in 1..len : mempool'[n] = mempool[n]
  BY <1>0, AppendElements DEF TypeOK
<1>2. PICK d, g : d = Debts(a) /\ g = Gains(a)
  OBVIOUS
<1>3. PICK dn, gn : dn = Debts(a)' /\ gn = Gains(a)'
  OBVIOUS
<1>4. \A n \in 1..m : n \in 1..len /\ n \in 1..(len + 1)
  BY <1>0
<1>5. \A n \in 1..m : d[n] = dn[n] /\ g[n] = gn[n]
  BY <1>0, <1>1, <1>2, <1>3, <1>4 DEF Debts, Gains
<1>6. \A n \in 1..m : d[n] \in Int /\ g[n] \in Int
  BY <1>0, <1>2, <1>4, DebtsAndGains
<1>7. IsFiniteSet(1..m)
  BY FS_Interval
<1>8. SumOver(d, 1..m) = SumOver(dn, 1..m) /\ SumOver(g, 1..m) = SumOver(gn, 1..m)
  BY <1>5, <1>6, <1>7, SumSame
<1>9. SumOver(d, 1..m) \in Int /\ SumOver(g, 1..m) \in Int
  BY <1>6, <1>7, SumType
<1> QED BY <1>2, <1>3, <1>8, <1>9

\* The new transaction was checked against what all the others have left.
LEMMA AppendCovered ==
    ASSUME TypeOK, Solvent, FundsCovered, NEW tx \in Txs, Valid(tx, check),
           mempool' = Append(mempool, tx), committed' = committed
    PROVE  FundsCovered'
<1>0. PICK len \in Nat : len = Len(mempool)
  BY CheckTxAssumption, LenProperties DEF TypeOK
<1>1. /\ Len(mempool') = len + 1 /\ mempool'[len + 1] = tx
      /\ \A n \in 1..len : mempool'[n] = mempool[n] /\ mempool[n] \in Txs
  BY <1>0, AppendElements, ElementOfSeq DEF TypeOK
<1>2. ASSUME NEW n \in 1..(len + 1), NEW a, a = mempool'[n].payer
      PROVE  mempool'[n].cost + SumOver(Debts(a)', 1..(n - 1))
                <= committed'.balance[a] + SumOver(Gains(a)', 1..(n - 1))
  <2>1. n - 1 \in Nat /\ n - 1 <= Len(mempool) /\ (n \in 1..len \/ n = len + 1)
    BY <1>0
  <2>2. a \in Accounts
    BY <1>1, <1>2, <2>1, TxFields
  <2>3. PICK m \in Nat : m = n - 1
    BY <2>1
  <2>4. /\ SumOver(Debts(a), 1..m) \in Int /\ SumOver(Gains(a), 1..m) \in Int
        /\ SumOver(Debts(a)', 1..m) = SumOver(Debts(a), 1..m)
        /\ SumOver(Gains(a)', 1..m) = SumOver(Gains(a), 1..m)
    BY <2>1, <2>2, <2>3, SumsBefore
  <2>5. mempool'[n].cost + SumOver(Debts(a), 1..m)
           <= committed.balance[a] + SumOver(Gains(a), 1..m)
    <3>1. CASE n \in 1..len
      <4>1. mempool'[n] = mempool[n]
        BY <1>1, <3>1
      <4>2. mempool[n].cost + SumOver(Debts(a), 1..(n - 1))
               <= committed.balance[a] + SumOver(Gains(a), 1..(n - 1))
        BY <1>0, <1>2, <3>1, <4>1 DEF FundsCovered
      <4> QED BY <2>3, <4>1, <4>2
    <3>2. CASE n = len + 1
      <4>1. m = len /\ mempool'[n] = tx /\ a = tx.payer
        BY <1>1, <1>2, <2>3, <3>2
      <4>2. SumOver(Debts(a), 1..m) = Owed(a) /\ SumOver(Gains(a), 1..m) = Due(a)
        BY <1>0, <2>2, <4>1, DebtsAndGains
      <4>3. check.balance[a] + Owed(a) = committed.balance[a] + Due(a)
        BY <2>2 DEF Solvent
      <4>4. check.balance[a] >= tx.cost /\ tx.cost \in Nat
        BY <4>1, TxFields DEF Valid
      <4>5. check.balance[a] \in Int /\ committed.balance[a] \in Int
        BY <2>2 DEF TypeOK, State
      <4>6. PICK c, b, o, d \in Int : /\ c = check.balance[a] /\ b = committed.balance[a]
                                      /\ o = Owed(a) /\ d = Due(a)
        BY <2>4, <4>2, <4>5
      <4>7. c + o = b + d /\ c >= tx.cost
        BY <4>3, <4>4, <4>6
      <4>8. tx.cost + o <= b + d
        BY <4>4, <4>7
      <4> QED BY <4>1, <4>2, <4>6, <4>8
    <3> QED BY <2>1, <3>1, <3>2
  <2> QED BY <2>3, <2>4, <2>5
<1> QED BY <1>1, <1>2 DEF FundsCovered

LEMMA CoveredStep ==
    ASSUME Admission, Solvent, FundsCovered, [Next]_vars
    PROVE  FundsCovered'
<1>0. TypeOK
  BY DEF Admission
<1>1. ASSUME UNCHANGED <<mempool, committed>> PROVE FundsCovered'
  BY <1>1 DEF FundsCovered, Debts, Gains
<1>2. ASSUME NEW tx \in Txs, CheckTxNew(tx) PROVE FundsCovered'
  BY <1>0, <1>2, AppendCovered DEF CheckTxNew
<1>3. ASSUME Commit PROVE FundsCovered'
  <2>1. Len(mempool') = 0 /\ 1..0 = {}
    BY <1>3 DEF Commit
  <2> QED BY <2>1 DEF FundsCovered
<1>4. ASSUME Recheck PROVE FundsCovered'
  <2>0. PICK tx : tx = Head(rechecking)
    OBVIOUS
  <2>1. committed' = committed /\ rechecking # <<>> /\ (Keep(tx) \/ UNCHANGED mempool)
    BY <1>4, <2>0 DEF Recheck, Drop
  <2>2. tx \in Txs
    BY <1>0, <2>0, <2>1, TailElements DEF TypeOK
  <2>3. ASSUME Keep(tx) PROVE FundsCovered'
    BY <1>0, <2>1, <2>2, <2>3, AppendCovered DEF Keep
  <2> QED BY <1>1, <2>1, <2>3
<1>5. ASSUME BeginBlock \/ DeliverTx \/ RecheckDone \/ UNCHANGED vars PROVE FundsCovered'
  <2>1. UNCHANGED <<mempool, committed>>
    BY <1>5 DEF BeginBlock, DeliverTx, RecheckDone, vars
  <2> QED BY <1>1, <2>1
<1> QED BY <1>2, <1>3, <1>4, <1>5 DEF Next

\* Every pending transaction, plain transfers too, is covered by what its payer has
\* after the charges and gifts of those before it, whatever is checked, delivered
\* and rechecked.
THEOREM FundsAreCovered == Spec => []FundsCovered
<1>1. Init => FundsCovered
  <2>1. Init => Len(mempool) = 0 /\ 1..0 = {}
    BY DEF Init
  <2> QED BY <2>1 DEF FundsCovered
<1>2. Admission /\ Solvent /\ FundsCovered /\ [Next]_vars => FundsCovered'
  BY CoveredStep
<1> QED BY <1>1, <1>2, AccountsAreSolvent, PTL DEF Spec
=============================================================================
