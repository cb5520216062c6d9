-------------------------- MODULE TxBroadcastProofs --------------------------
(***************************************************************************)
(* Theorems about TxBroadcast, for all transactions, journals, capacities, *)
(* locking designs and interleavings of pool, loop and consensus.          *)
(***************************************************************************)
EXTENDS TxBroadcast, TLAPS, SequenceTheorems, FiniteSetTheorems

\* The inductive invariant.
Orderly == TypeOK /\ MempoolCached /\ OneEach /\ InLine

\* What is proved of the mempool for a value k of tickets.
Below(s, k) == \A n \in 1..Len(s) : s[n].ticket <= k

-----------------------------------------------------------------------------
(* Sequences of events. *)

LEMMA AppendEvent ==
    ASSUME NEW s \in Seq(Event), NEW e \in Event
    PROVE  /\ Append(s, e) \in Seq(Event)
           /\ Len(s) \in Nat /\ Len(Append(s, e)) = Len(s) + 1
           /\ \A n \in 1..Len(s) : Append(s, e)[n] = s[n]
           /\ Append(s, e)[Len(s) + 1] = e
           /\ \A n \in 1..(Len(s) + 1) : n \in 1..Len(s) \/ n = Len(s) + 1
           /\ TxsOf(Append(s, e)) = TxsOf(s) \cup {e.tx}
<1>1. Len(s) \in Nat
  BY LenProperties
<1>2. /\ Append(s, e) \in Seq(Event) /\ Len(Append(s, e)) = Len(s) + 1
      /\ \A n \in 1..Len(s) : Append(s, e)[n] = s[n]
      /\ Append(s, e)[Len(s) + 1] = e
  BY AppendProperties
<1>3. \A n \in 1..(Len(s) + 1) : n \in 1..Len(s) \/ n = Len(s) + 1
  BY <1>1
<1>4. Len(s) + 1 \in 1..(Len(s) + 1) /\ 1..Len(s) \subseteq 1..(Len(s) + 1)
  BY <1>1
<1>5. TxsOf(Append(s, e)) = TxsOf(s) \cup {e.tx}
  BY <1>2, <1>3, <1>4 DEF TxsOf
<1> QED BY <1>1, <1>2, <1>3, <1>5

\* An event that follows all others, at the end.
LEMMA AppendInLine ==
    ASSUME NEW s \in Seq(Event), NEW e \in Event
    PROVE  /\ Distinct(s) /\ e.tx \notin TxsOf(s) => Distinct(Append(s, e))
           /\ Ordered(s) /\ AllPrecede(s, <<e>>) => Ordered(Append(s, e))
           /\ \A k : Below(s, k) /\ e.ticket <= k => Below(Append(s, e), k)
<1> DEFINE q == Append(s, e)
<1>1. /\ Len(s) \in Nat /\ Len(q) = Len(s) + 1
      /\ \A n \in 1..Len(s) : q[n] = s[n]
      /\ q[Len(s) + 1] = e
      /\ \A n \in 1..(Len(s) + 1) : n \in 1..Len(s) \/ n = Len(s) + 1
  BY AppendEvent
<1> HIDE DEF q
<1>2. ASSUME Distinct(s), e.tx \notin TxsOf(s) PROVE Distinct(q)
  <2>1. \A n \in 1..Len(s) : s[n].tx # e.tx
    BY <1>2 DEF TxsOf
  <2> QED BY <1>1, <1>2, <2>1 DEF Distinct
<1>3. ASSUME Ordered(s), AllPrecede(s, <<e>>) PROVE Ordered(q)
  <2>1. \A n \in 1..Len(s) : Precedes(s[n], e)
    BY <1>3 DEF AllPrecede
  <2>2. ASSUME NEW m \in 1..Len(q), NEW n \in 1..Len(q), m < n PROVE Precedes(q[m], q[n])
    <3>1. m \in 1..Len(s)
      BY <1>1, <2>2
    <3>2. CASE n \in 1..Len(s)
      BY <1>1, <1>3, <2>2, <3>1, <3>2 DEF Ordered
    <3>3. CASE n = Len(s) + 1
      BY <1>1, <2>1, <3>1, <3>3
    <3> QED BY <1>1, <3>2, <3>3
  <2> QED BY <2>2 DEF Ordered
<1>4. ASSUME NEW k, Below(s, k), e.ticket <= k PROVE Below(q, k)
  BY <1>1, <1>4 DEF Below
<1> QED BY <1>2, <1>3, <1>4 DEF q

LEMMA AppendBetween ==
    ASSUME NEW s \in Seq(Event), NEW t \in Seq(Event), NEW e \in Event
    PROVE  /\ AllPrecede(s, t) /\ AllPrecede(<<e>>, t) => AllPrecede(Append(s, e), t)
           /\ AllPrecede(t, s) /\ AllPrecede(t, <<e>>) => AllPrecede(t, Append(s, e))
<1> DEFINE q == Append(s, e)
<1>1. /\ Len(s) \in Nat /\ Len(q) = Len(s) + 1
      /\ \A n \in 1..Len(s) : q[n] = s[n]
      /\ q[Len(s) + 1] = e
      /\ \A n \in 1..(Len(s) + 1) : n \in 1..Len(s) \/ n = Len(s) + 1
  BY AppendEvent
<1> HIDE DEF q
<1>2. ASSUME AllPrecede(s, t), AllPrecede(<<e>>, t) PROVE AllPrecede(q, t)
  <2>1. \A n \in 1..Len(t) : Precedes(e, t[n])
    BY <1>2 DEF AllPrecede
  <2> QED BY <1>1, <1>2, <2>1 DEF AllPrecede
<1>3. ASSUME AllPrecede(t, s), AllPrecede(t, <<e>>) PROVE AllPrecede(t, q)
  <2>1. \A n \in 1..Len(t) : Precedes(t[n], e)
    BY <1>3 DEF AllPrecede
  <2> QED BY <1>1, <1>3, <2>1 DEF AllPrecede
<1> QED BY <1>2, <1>3 DEF q

LEMMA TailEvents ==
    ASSUME NEW s \in Seq(Event), s # <<>>
    PROVE  /\ Head(s) \in Event /\ Tail(s) \in Seq(Event)
           /\ Len(s) \in Nat /\ Len(s) > 0 /\ Head(s) = s[1]
           /\ Len(Tail(s)) = Len(s) - 1
           /\ \A n \in 1..Len(Tail(s)) : /\ n \in Int /\ n >= 1 /\ n + 1 \in 1..Len(s)
                                         /\ Tail(s)[n] = s[n + 1]
           /\ Head(s).tx \in TxsOf(s) /\ TxsOf(Tail(s)) \subseteq TxsOf(s)
<1>1. Len(s) \in Nat /\ Len(s) > 0
  BY LenProperties, EmptySeq
<1>2. /\ Head(s) \in Event /\ Head(s) = s[1]
      /\ Tail(s) \in Seq(Event) /\ Len(Tail(s)) = Len(s) - 1
      /\ \A n \in 1..Len(Tail(s)) : Tail(s)[n] = s[n + 1]
  BY <1>1, HeadTailProperties
<1>3. /\ 1 \in 1..Len(s)
      /\ \A n \in 1..Len(Tail(s)) : n \in Int /\ n >= 1 /\ n + 1 \in 1..Len(s)
  BY <1>1, <1>2
<1>4. Head(s).tx \in TxsOf(s) /\ TxsOf(Tail(s)) \subseteq TxsOf(s)
  BY <1>2, <1>3 DEF TxsOf
<1> QED BY <1>1, <1>2, <1>3, <1>4

LEMMA TailInLine ==
    ASSUME NEW s \in Seq(Event), s # <<>>
    PROVE  /\ Distinct(s) => Distinct(Tail(s)) /\ Head(s).tx \notin TxsOf(Tail(s))
           /\ Ordered(s) => Ordered(Tail(s)) /\ AllPrecede(<<Head(s)>>, Tail(s))
           /\ \A k : Below(s, k) => Below(Tail(s), k) /\ Head(s).ticket <= k
           /\ \A t : AllPrecede(s, t) => AllPrecede(Tail(s), t) /\ AllPrecede(<<Head(s)>>, t)
           /\ \A t : AllPrecede(t, s) => AllPrecede(t, Tail(s)) /\ AllPrecede(t, <<Head(s)>>)
<1> DEFINE q == Tail(s)
           h == Head(s)
<1>1. /\ Len(s) \in Nat /\ Len(s) > 0 /\ h = s[1] /\ Len(q) = Len(s) - 1
      /\ \A n \in 1..Len(q) : /\ n \in Int /\ n >= 1 /\ n + 1 \in 1..Len(s)
                              /\ q[n] = s[n + 1]
  BY TailEvents
<1> HIDE DEF q, h
<1>2. 1 \in 1..Len(s)
  BY <1>1
<1>3. Len(<<h>>) = 1 /\ <<h>>[1] = h
  OBVIOUS
<1>4. ASSUME Distinct(s) PROVE Distinct(q) /\ h.tx \notin TxsOf(q)
  <2>1. ASSUME NEW m \in 1..Len(q), NEW n \in 1..Len(q), q[m].tx = q[n].tx PROVE m = n
    <3>1. m + 1 = n + 1
      BY <1>1, <1>4, <2>1 DEF Distinct
    <3> QED BY <1>1, <3>1
  <2>2. ASSUME NEW n \in 1..Len(q) PROVE q[n].tx # h.tx
    <3>1. s[1].tx = s[n + 1].tx => 1 = n + 1
      BY <1>1, <1>2, <1>4 DEF Distinct
    <3> QED BY <1>1, <3>1
  <2> QED BY <2>1, <2>2 DEF Distinct, TxsOf
<1>5. ASSUME Ordered(s) PROVE Ordered(q) /\ AllPrecede(<<h>>, q)
  <2>1. ASSUME NEW m \in 1..Len(q), NEW n \in 1..Len(q), m < n PROVE Precedes(q[m], q[n])
    <3>1. m + 1 < n + 1
      BY <1>1, <2>1
    <3>2. Precedes(s[m + 1], s[n + 1])
      BY <1>1, <1>5, <3>1 DEF Ordered
    <3> QED BY <1>1, <3>2
  <2>2. ASSUME NEW n \in 1..Len(q) PROVE Precedes(h, q[n])
    <3>1. 1 < n + 1
      BY <1>1
    <3>2. Precedes(s[1], s[n + 1])
      BY <1>1, <1>2, <1>5, <3>1 DEF Ordered
    <3> QED BY <1>1, <3>2
  <2> QED BY <1>3, <2>1, <2>2 DEF Ordered, AllPrecede
<1>6. ASSUME NEW k, Below(s, k) PROVE Below(q, k) /\ h.ticket <= k
  BY <1>1, <1>2, <1>6 DEF Below
<1>7. ASSUME NEW t, AllPrecede(s, t) PROVE AllPrecede(q, t) /\ AllPrecede(<<h>>, t)
  BY <1>1, <1>2, <1>3, <1>7 DEF AllPrecede
<1>8. ASSUME NEW t, AllPrecede(t, s) PROVE AllPrecede(t, q) /\ AllPrecede(t, <<h>>)
  BY <1>1, <1>2, <1>3, <1>8 DEF AllPrecede
<1> QED BY <1>4, <1>5, <1>6, <1>7, <1>8 DEF q, h

\* What a block leaves of the mempool stands in the same order.
LEMMA SelectionInLine ==
    ASSUME NEW s \in Seq(Event), NEW P \in SUBSET (1..Len(s)), NEW rest \in Selection(s, P)
    PROVE  /\ rest \in Seq(Event) /\ Len(rest) \in Nat /\ Len(rest) <= Len(s)
           /\ \A n \in 1..Len(rest) : \E k \in P : rest[n] = s[k]
           /\ Distinct(s) => Distinct(rest)
           /\ Ordered(s) => Ordered(rest)
<1>1. PICK f \in [1..Cardinality(P) -> P] :
          /\ \A m, n \in DOMAIN f : m < n => f[m] < f[n]
          /\ rest = [n \in DOMAIN f |-> s[f[n]]]
  BY DEF Selection
<1>2. Cardinality(P) \in Nat /\ Cardinality(P) <= Len(s) /\ Len(s) \in Nat
  <2>1. Len(s) \in Nat
    BY LenProperties
  <2>2. IsFiniteSet(1..Len(s)) /\ Cardinality(1..Len(s)) = Len(s)
    BY <2>1, FS_Interval
  <2>3. IsFiniteSet(P) /\ Cardinality(P) <= Cardinality(1..Len(s))
    BY <2>2, FS_Subset
  <2> QED BY <2>1, <2>2, <2>3, FS_CardinalityType
<1> DEFINE N == Cardinality(P)
<1>3. rest = [n \in 1..N |-> s[f[n]]] /\ \A m, n \in 1..N : m < n => f[m] < f[n]
  BY <1>1
<1>4. \A n \in 1..N : f[n] \in P /\ f[n] \in 1..Len(s)
  BY <1>1
<1>5. \A n \in 1..N : s[f[n]] \in Event
  BY <1>4, ElementOfSeq
<1>6. N \in Nat /\ N <= Len(s)
  BY <1>2
<1> HIDE DEF N
<1>7. rest \in Seq(Event) /\ Len(rest) = N /\ \A n \in 1..N : rest[n] = s[f[n]]
  BY <1>3, <1>5, <1>6
<1>8. ASSUME Distinct(s), NEW m \in 1..N, NEW n \in 1..N, rest[m].tx = rest[n].tx PROVE m = n
  <2>1. f[m] = f[n]
    BY <1>4, <1>7, <1>8 DEF Distinct
  <2>2. f[m] \in Int /\ f[n] \in Int /\ m \in Int /\ n \in Int
    BY <1>4
  <2> QED BY <1>3, <2>1, <2>2
<1>9. ASSUME Ordered(s), NEW m \in 1..N, NEW n \in 1..N, m < n PROVE Precedes(rest[m], rest[n])
  <2>1. f[m] < f[n]
    BY <1>3, <1>9
  <2>2. Precedes(s[f[m]], s[f[n]])
    BY <1>4, <1>9, <2>1 DEF Ordered
  <2> QED BY <1>7, <2>2
<1> QED BY <1>4, <1>6, <1>7, <1>8, <1>9 DEF Distinct, Ordered

\* Facts about the empty sequence and about sequences of one event.
LEMMA EmptyInLine ==
    /\ <<>> \in Seq(Event) /\ Len(<<>>) = 0 /\ TxsOf(<<>>) = {}
    /\ Distinct(<<>>) /\ Ordered(<<>>) /\ \A k : Below(<<>>, k)
    /\ \A t : AllPrecede(<<>>, t) /\ AllPrecede(t, <<>>)
<1>1. <<>> \in Seq(Event) /\ Len(<<>>) = 0
  BY EmptySeq
<1>2. 1..Len(<<>>) = {}
  BY <1>1
<1> QED BY <1>1, <1>2 DEF TxsOf, Distinct, Ordered, Below, AllPrecede

LEMMA SingleEvent ==
    ASSUME NEW s \in Seq(Event), Len(s) = 1
    PROVE  s[1] \in Event /\ s = <<s[1]>>
<1>1. s[1] \in Event
  BY ElementOfSeq
<1>2. <<s[1]>> \in Seq(Event) /\ Len(<<s[1]>>) = 1 /\ <<s[1]>>[1] = s[1]
  BY <1>1
<1> HIDE DEF Event
<1>3. s = <<s[1]>>
  BY <1>2, SeqEqual
<1> QED BY <1>1, <1>3

\* The next ticket follows all that were issued.
LEMMA NextTicket ==
    ASSUME NEW s \in Seq(Event), NEW k \in Nat, Below(s, k), NEW t \in Txs
    PROVE  /\ [tx |-> t, ticket |-> k + 1] \in Event
           /\ AllPrecede(s, <<[tx |-> t, ticket |-> k + 1]>>)
           /\ Below(s, k + 1)
<1> DEFINE e == [tx |-> t, ticket |-> k + 1]
<1>1. e \in Event /\ e.ticket = k + 1
  BY DEF Event
<1>2. \A n \in 1..Len(s) : s[n] \in Event /\ s[n].ticket \in Nat
  <2>1. \A n \in 1..Len(s) : s[n] \in Event
    BY ElementOfSeq
  <2> QED BY <2>1 DEF Event
<1> HIDE DEF e
<1>3. Len(<<e>>) = 1 /\ <<e>>[1] = e
  OBVIOUS
<1>4. \A n \in 1..Len(s) : s[n].ticket <= k
  BY DEF Below
<1>5. \A n \in 1..Len(s) : s[n].ticket < k + 1 /\ s[n].ticket <= k + 1
  BY <1>2, <1>4
<1> QED BY <1>1, <1>3, <1>5 DEF AllPrecede, Precedes, Below, e

-----------------------------------------------------------------------------
(* The steps. *)

\* Orderly, its parts written out.
LEMMA Parts ==
    ASSUME Orderly
    PROVE  /\ mempool \in Seq(Event) /\ rechecking \in Seq(Event)
           /\ ch \in Seq(Event) /\ obj \in Seq(Event)
           /\ Len(mempool) \in Nat /\ Len(rechecking) \in Nat /\ tickets \in Nat
           /\ Below(mempool, tickets) /\ Below(rechecking, tickets)
           /\ Below(obj, tickets) /\ Below(ch, tickets)
           /\ Ordered(mempool) /\ Ordered(rechecking) /\ Ordered(ch)
           /\ AllPrecede(mempool, rechecking) /\ AllPrecede(mempool, ch)
           /\ AllPrecede(rechecking, ch) /\ AllPrecede(obj, ch)
           /\ loop = "broadcast" => AllPrecede(mempool, obj) /\ AllPrecede(rechecking, obj)
           /\ Distinct(mempool) /\ Distinct(rechecking)
           /\ TxsOf(mempool) \cap TxsOf(rechecking) = {}
           /\ TxsOf(mempool) \subseteq cachedTxInfo /\ TxsOf(rechecking) \subseteq cachedTxInfo
           /\ ~locked => rechecking = <<>>
           /\ Len(mempool) + Len(rechecking) <= MempoolSize /\ MempoolSize \in Nat
<1>1. /\ mempool \in Seq(Event) /\ rechecking \in Seq(Event)
      /\ ch \in Seq(Event) /\ obj \in Seq(Event) /\ tickets \in Nat
  BY DEF Orderly, TypeOK
<1>2. Len(mempool) \in Nat /\ Len(rechecking) \in Nat
  BY <1>1, LenProperties
<1>3. /\ Below(mempool, tickets) /\ Below(rechecking, tickets)
      /\ Below(obj, tickets) /\ Below(ch, tickets)
  BY DEF Orderly, InLine, Issued, Below
<1> QED BY <1>1, <1>2, <1>3, BroadcastAssumption DEF Orderly, InLine, OneEach, MempoolCached

\* InLine after a step, in terms of Below.
LEMMA LineUp ==
    ASSUME Ordered(mempool'), Ordered(rechecking'), Ordered(ch'),
           AllPrecede(mempool', rechecking'), AllPrecede(mempool', ch'),
           AllPrecede(rechecking', ch'), AllPrecede(obj', ch'),
           loop' = "broadcast" => AllPrecede(mempool', obj') /\ AllPrecede(rechecking', obj'),
           Below(mempool', tickets'), Below(rechecking', tickets'),
           Below(obj', tickets'), Below(ch', tickets')
    PROVE  InLine'
<1>1. Issued(mempool)' /\ Issued(rechecking)' /\ Issued(obj)' /\ Issued(ch)'
  BY DEF Below, Issued
<1> QED BY <1>1 DEF InLine

LEMMA OrderlyInit == Init => Orderly
<1> SUFFICES ASSUME Init PROVE Orderly
  OBVIOUS
<1>1. mempool = <<>> /\ rechecking = <<>> /\ ch = <<>> /\ obj = <<>> /\ tickets = 0
  BY DEF Init
<1>2. pool \in SUBSET Txs
  <2>1. \A n \in 1..Len(Journal) : Journal[n] \in Txs
    BY BroadcastAssumption, ElementOfSeq
  <2>2. DOMAIN Journal = 1..Len(Journal)
    BY BroadcastAssumption, LenProperties
  <2> QED BY <2>1, <2>2 DEF Init, ToSet
<1>3. TypeOK
  <2>1. <<>> \in Seq(Event) /\ Len(mempool) = 0 /\ 0 <= MempoolSize /\ tickets \in Nat
    BY <1>1, EmptyInLine, BroadcastAssumption
  <2>2. locked \in BOOLEAN
    BY DEF Init
  <2> QED BY <1>1, <1>2, <2>1, <2>2 DEF Init, TypeOK
<1>4. OneEach /\ MempoolCached
  BY <1>1, EmptyInLine, BroadcastAssumption DEF Init, OneEach, MempoolCached
<1>5. Issued(<<>>)
  BY EmptyInLine DEF Issued, Below
<1>6. InLine
  BY <1>1, <1>5, EmptyInLine DEF InLine
<1> QED BY <1>3, <1>4, <1>6 DEF Orderly

\* Steps that touch neither the mempool nor the line of events.
LEMMA OrderlyAside ==
    ASSUME Orderly, TypeOK',
           UNCHANGED <<mempool, rechecking, ch, obj, loop, currentTxInfo, tickets, cachedTxInfo>>,
           ~locked' => rechecking = <<>>
    PROVE  Orderly'
<1>1. MempoolCached' /\ OneEach'
  BY DEF Orderly, MempoolCached, OneEach
<1>2. InLine'
  BY DEF Orderly, InLine, Issued
<1> QED BY <1>1, <1>2 DEF Orderly

LEMMA OrderlyOther ==
    ASSUME Orderly,
           \/ \E r \in removers : RemoveTx(r)
           \/ PoolReset \/ EndUpdate \/ NodeFails \/ Stop \/ UNCHANGED vars
    PROVE  Orderly'
<1>1. CASE \E r \in removers : RemoveTx(r)
  <2>1. PICK r \in removers : RemoveTx(r)
    BY <1>1
  <2>2. /\ pool' = pool \ {r.tx} /\ removers' = removers \ {r}
        /\ UNCHANGED <<design, poolMu, waiting, tickets, loop, ch, obj, currentTxInfo,
                       cachedTxInfo, txSub, stop, mempool, rechecking, locked, failed, used>>
    BY <2>1 DEF RemoveTx, loopVars, tmVars
  <2>3. TypeOK'
    BY <2>2 DEF Orderly, TypeOK
  <2> QED BY <2>2, <2>3, Parts, OrderlyAside
<1>2. CASE PoolReset
  <2>1. /\ pool' = pool \ used
        /\ UNCHANGED <<design, poolMu, waiting, tickets, loop, ch, obj, currentTxInfo, removers,
                       cachedTxInfo, txSub, stop, mempool, rechecking, locked, failed, used>>
    BY <1>2 DEF PoolReset, loopVars, tmVars
  <2>2. TypeOK'
    BY <2>1 DEF Orderly, TypeOK
  <2> QED BY <2>1, <2>2, Parts, OrderlyAside
<1>3. CASE EndUpdate
  <2>1. /\ rechecking = <<>> /\ locked' = FALSE /\ failed' = {}
        /\ UNCHANGED <<design, poolMu, waiting, tickets, loop, ch, obj, currentTxInfo,
                       cachedTxInfo, txSub, stop, mempool, rechecking, used>>
    BY <1>3 DEF EndUpdate, loopVars
  <2>2. pool' \in SUBSET Txs /\ removers' \in SUBSET Event
    BY <1>3 DEF EndUpdate, RemoveFailedLocked, RemoveFailedLater, Orderly, TypeOK
  <2>3. TypeOK'
    BY <2>1, <2>2 DEF Orderly, TypeOK
  <2> QED BY <2>1, <2>3, OrderlyAside
<1>4. CASE NodeFails \/ Stop \/ UNCHANGED vars
  <2>1. /\ stop' \in {"no", "called", "panic", "stopped"}
        /\ UNCHANGED <<design, pool, poolMu, waiting, tickets, loop, ch, obj, currentTxInfo,
                       removers, cachedTxInfo, txSub, mempool, rechecking, locked, failed, used>>
    BY <1>4 DEF NodeFails, Stop, vars, poolVars, loopVars, tmVars, Orderly, TypeOK
  <2>2. TypeOK'
    BY <2>1 DEF Orderly, TypeOK
  <2> QED BY <2>1, <2>2, Parts, OrderlyAside
<1> QED BY <1>1, <1>2, <1>3, <1>4

\* A new event at the end of the channel.
LEMMA OrderlySend ==
    ASSUME Orderly, TypeOK', NEW t \in Txs,
           ch' = Append(ch, [tx |-> t, ticket |-> tickets + 1]), tickets' = tickets + 1,
           UNCHANGED <<mempool, rechecking, obj, loop, currentTxInfo, cachedTxInfo, locked>>
    PROVE  Orderly'
<1> DEFINE e == [tx |-> t, ticket |-> tickets + 1]
<1>1. /\ e \in Event /\ AllPrecede(mempool, <<e>>) /\ AllPrecede(rechecking, <<e>>)
      /\ AllPrecede(obj, <<e>>) /\ AllPrecede(ch, <<e>>)
      /\ Below(mempool, tickets') /\ Below(rechecking, tickets')
      /\ Below(obj, tickets') /\ Below(ch, tickets')
  BY Parts, NextTicket
<1>2. e.ticket <= tickets'
  BY Parts
<1>3. ch' = Append(ch, e)
  OBVIOUS
<1> HIDE DEF e
<1>4. Ordered(ch') /\ Below(ch', tickets')
  BY <1>1, <1>2, <1>3, Parts, AppendInLine
<1>5. AllPrecede(mempool, ch') /\ AllPrecede(rechecking, ch') /\ AllPrecede(obj, ch')
  BY <1>1, <1>3, Parts, AppendBetween
<1>6. InLine'
  BY <1>1, <1>4, <1>5, Parts, LineUp
<1>7. MempoolCached' /\ OneEach'
  BY DEF Orderly, MempoolCached, OneEach
<1> QED BY <1>6, <1>7 DEF Orderly

LEMMA OrderlySubmit == ASSUME Orderly, NEW t \in Txs, Submit(t) PROVE Orderly'
<1>1. /\ pool' = pool \cup {t} /\ tickets' = tickets + 1
      /\ ch' = Append(ch, [tx |-> t, ticket |-> tickets + 1])
      /\ waiting' = waiting \cup {t} /\ poolMu' \in SUBSET Txs
      /\ UNCHANGED <<design, loop, obj, currentTxInfo, removers, cachedTxInfo, txSub, stop,
                     mempool, rechecking, locked, failed, used>>
  BY DEF Submit, tmVars
<1>2. [tx |-> t, ticket |-> tickets + 1] \in Event
  BY Parts, NextTicket
<1>3. ch' \in Seq(Event)
  BY <1>1, <1>2, Parts, AppendEvent
<1>4. TypeOK'
  BY <1>1, <1>3 DEF Orderly, TypeOK
<1> QED BY <1>1, <1>4, OrderlySend

\* The journal has an event for every position the loop comes to.
LEMMA JournalHasNext ==
    ASSUME \E n \in 1..Len(Journal) : Journal[n] \notin TxsOf(ch)
    PROVE  Journal[Cardinality(Journalled) + 1] \in Txs
<1>1. Journal \in Seq(Txs) /\ Len(Journal) \in Nat /\ DOMAIN Journal = 1..Len(Journal)
  BY BroadcastAssumption, LenProperties
<1> DEFINE D == 1..Len(Journal)
           T == ToSet(Journal)
<1>2. IsFiniteSet(D) /\ Cardinality(D) = Len(Journal)
  BY <1>1, FS_Interval
<1>3. Journal \in Surjection(D, T)
  <2>1. T = {Journal[n] : n \in D}
    BY <1>1 DEF ToSet
  <2>2. Journal \in [D -> T]
    BY <1>1, <2>1
  <2> QED BY <2>1, <2>2 DEF Surjection
<1>4. IsFiniteSet(T) /\ Cardinality(T) <= Cardinality(D)
  <2> HIDE DEF D, T
  <2> QED BY <1>2, <1>3, FS_Surjection
<1>5. Journalled \subseteq T /\ Journalled # T
  BY <1>1 DEF Journalled, ToSet
<1> HIDE DEF T
<1>6. /\ IsFiniteSet(Journalled) /\ Cardinality(Journalled) <= Cardinality(T)
      /\ Cardinality(Journalled) # Cardinality(T)
  BY <1>4, <1>5, FS_Subset
<1>7. Cardinality(Journalled) \in Nat /\ Cardinality(T) \in Nat
  BY <1>4, <1>6, FS_CardinalityType
<1>8. Cardinality(Journalled) + 1 \in 1..Len(Journal)
  BY <1>1, <1>2, <1>4, <1>6, <1>7
<1> QED BY <1>1, <1>8, ElementOfSeq

\* The loop changes its place; nothing moves.
LEMMA OrderlyMove ==
    ASSUME Orderly, TypeOK', loop' \in {"journal", "range"},
           UNCHANGED <<mempool, rechecking, ch, obj, currentTxInfo, tickets, cachedTxInfo, locked>>
    PROVE  Orderly'
<1>1. MempoolCached' /\ OneEach'
  BY DEF Orderly, MempoolCached, OneEach
<1>2. InLine'
  BY DEF Orderly, InLine, Issued
<1> QED BY <1>1, <1>2 DEF Orderly

LEMMA OrderlyJournal == ASSUME Orderly, WaitForServer \/ HandleJournalTxs PROVE Orderly'
<1>1. CASE WaitForServer
  <2>1. /\ loop' = "journal"
        /\ UNCHANGED <<design, pool, poolMu, waiting, tickets, ch, obj, currentTxInfo, removers,
                       cachedTxInfo, txSub, stop, mempool, rechecking, locked, failed, used>>
    BY <1>1 DEF WaitForServer, poolVars, tmVars
  <2>2. TypeOK'
    BY <2>1 DEF Orderly, TypeOK
  <2> QED BY <2>1, <2>2, OrderlyMove
<1>2. CASE HandleJournalTxs
  <2>1. UNCHANGED <<design, pool, poolMu, waiting, obj, currentTxInfo, removers, cachedTxInfo,
                    txSub, stop, mempool, rechecking, locked, failed, used>>
    BY <1>2 DEF HandleJournalTxs, tmVars
  <2>2. CASE \E n \in 1..Len(Journal) : Journal[n] \notin TxsOf(ch)
    <3> DEFINE t == Journal[Cardinality(Journalled) + 1]
    <3>1. /\ ch' = Append(ch, [tx |-> t, ticket |-> tickets + 1])
          /\ tickets' = tickets + 1 /\ loop' = loop
      BY <1>2, <2>2 DEF HandleJournalTxs
    <3>2. t \in Txs
      BY <2>2, JournalHasNext
    <3> HIDE DEF t
    <3>3. [tx |-> t, ticket |-> tickets + 1] \in Event
      BY <3>2, Parts, NextTicket
    <3>4. ch' \in Seq(Event)
      BY <3>1, <3>3, Parts, AppendEvent
    <3>5. TypeOK'
      BY <2>1, <3>1, <3>4 DEF Orderly, TypeOK
    <3> QED BY <2>1, <3>1, <3>2, <3>5, OrderlySend
  <2>3. CASE ~ \E n \in 1..Len(Journal) : Journal[n] \notin TxsOf(ch)
    <3>1. loop' = "range" /\ ch' = ch /\ tickets' = tickets
      BY <1>2, <2>3 DEF HandleJournalTxs
    <3>2. TypeOK'
      BY <2>1, <3>1 DEF Orderly, TypeOK
    <3> QED BY <2>1, <3>1, <3>2, OrderlyMove
  <2> QED BY <2>2, <2>3
<1> QED BY <1>1, <1>2

\* The first event of the channel is the one the loop works on.
LEMMA OrderlyReceive == ASSUME Orderly, ReceiveEvent PROVE Orderly'
<1> DEFINE h == Head(ch)
<1>1. /\ ch # <<>> /\ obj' = <<h>> /\ ch' = Tail(ch) /\ currentTxInfo' = {h.tx}
      /\ loop' = "broadcast"
      /\ UNCHANGED <<design, pool, poolMu, waiting, tickets, removers, cachedTxInfo, txSub, stop,
                     mempool, rechecking, locked, failed, used>>
  BY DEF ReceiveEvent, Receive, poolVars, tmVars
<1>2. h \in Event /\ ch' \in Seq(Event)
  BY <1>1, Parts, TailEvents
<1>3. /\ Ordered(ch') /\ AllPrecede(<<h>>, ch')
      /\ Below(ch', tickets) /\ h.ticket <= tickets
      /\ AllPrecede(mempool, ch') /\ AllPrecede(mempool, <<h>>)
      /\ AllPrecede(rechecking, ch') /\ AllPrecede(rechecking, <<h>>)
  BY <1>1, Parts, TailInLine
<1> HIDE DEF h
<1>4. obj' \in Seq(Event) /\ Len(obj') = 1 /\ obj'[1] = h /\ h.tx \in Txs
  <2>1. h.tx \in Txs
    BY <1>2 DEF Event
  <2> QED BY <1>1, <1>2, <2>1
<1>5. Below(obj', tickets)
  BY <1>3, <1>4 DEF Below
<1>6. TypeOK'
  BY <1>1, <1>2, <1>4 DEF Orderly, TypeOK
<1>7. InLine'
  BY <1>1, <1>3, <1>5, Parts, LineUp
<1>8. MempoolCached'
  BY <1>1 DEF Orderly, MempoolCached
<1>9. OneEach'
  BY <1>1, <1>4 DEF Orderly, OneEach
<1> QED BY <1>6, <1>7, <1>8, <1>9 DEF Orderly

\* A new transaction at the end of an unlocked mempool.
LEMMA OrderlyAdmit ==
    ASSUME Orderly, TypeOK', NEW e \in Event, e.tx \notin TxsOf(mempool), ~locked,
           Len(mempool) < MempoolSize, mempool' = Append(mempool, e),
           AllPrecede(mempool, <<e>>), AllPrecede(<<e>>, ch), e.ticket <= tickets,
           cachedTxInfo' = cachedTxInfo \cup {e.tx},
           loop' \in {"accepted", loop}, loop' = "accepted" => Len(obj) = 1,
           loop' = "broadcast" => AllPrecede(<<e>>, obj),
           UNCHANGED <<rechecking, ch, obj, currentTxInfo, tickets, locked>>
    PROVE  Orderly'
<1>1. /\ rechecking = <<>> /\ rechecking' = <<>> /\ Len(rechecking) = 0
      /\ TxsOf(rechecking') = {}
  BY Parts, EmptyInLine
<1>2. /\ Len(mempool') = Len(mempool) + 1 /\ TxsOf(mempool') = TxsOf(mempool) \cup {e.tx}
  BY Parts, AppendEvent
<1>3. Distinct(mempool') /\ Ordered(mempool') /\ Below(mempool', tickets)
  BY Parts, AppendInLine
<1>4. AllPrecede(mempool', ch)
  BY Parts, AppendBetween
<1>5. loop' = "broadcast" => AllPrecede(mempool', obj)
  BY Parts, AppendBetween
<1>6. InLine'
  BY <1>1, <1>3, <1>4, <1>5, Parts, EmptyInLine, LineUp
<1>7. MempoolCached'
  BY <1>1, <1>2, Parts DEF MempoolCached
<1>8. OneEach'
  <2>1. Len(mempool') + Len(rechecking') <= MempoolSize
    BY <1>1, <1>2, Parts
  <2>2. /\ loop' \in {"broadcast", "accepted", "refused"} => Len(obj') = 1
        /\ loop' = "broadcast" => currentTxInfo' = {obj'[1].tx}
    BY DEF Orderly, OneEach
  <2> QED BY <1>1, <1>3, <2>1, <2>2, Parts DEF OneEach
<1> QED BY <1>6, <1>7, <1>8 DEF Orderly

LEMMA OrderlyBroadcast == ASSUME Orderly, BroadcastTx PROVE Orderly'
<1>1. /\ loop = "broadcast" /\ ~locked
      /\ UNCHANGED <<design, pool, poolMu, waiting, tickets, ch, obj, currentTxInfo, removers,
                     txSub, stop, rechecking, locked, failed, used>>
  BY DEF BroadcastTx, poolVars
<1>2. Len(obj) = 1 /\ currentTxInfo = {obj[1].tx}
  BY <1>1 DEF Orderly, OneEach
<1>3. obj[1] \in Event /\ obj = <<obj[1]>>
  BY <1>2, Parts, SingleEvent
<1>4. CASE Accept
  <2> DEFINE e == obj[1]
  <2>1. /\ e.tx \notin TxsOf(mempool) /\ Len(mempool) < MempoolSize
        /\ mempool' = Append(mempool, e) /\ cachedTxInfo' = cachedTxInfo \cup {e.tx}
        /\ loop' = "accepted"
    BY <1>2, <1>4 DEF Accept, InsertCachedTxInfo
  <2>2. AllPrecede(mempool, <<e>>) /\ AllPrecede(<<e>>, ch)
    BY <1>1, <1>3, Parts
  <2>3. e.ticket <= tickets
    BY <1>2, Parts DEF Below
  <2>4. e \in Event /\ e.tx \in Txs
    BY <1>3 DEF Event
  <2> HIDE DEF e
  <2>5. mempool' \in Seq(Event) /\ Len(mempool') <= MempoolSize
    BY <2>1, <2>4, Parts, AppendEvent
  <2>6. TypeOK'
    BY <1>1, <2>1, <2>4, <2>5 DEF Orderly, TypeOK
  <2> QED BY <1>1, <1>2, <2>1, <2>2, <2>3, <2>4, <2>6, OrderlyAdmit
<1>5. CASE Refuse
  <2>1. loop' = "refused" /\ mempool' = mempool /\ cachedTxInfo' = cachedTxInfo
    BY <1>5 DEF Refuse
  <2>2. TypeOK'
    BY <1>1, <2>1 DEF Orderly, TypeOK
  <2>3. MempoolCached' /\ OneEach'
    BY <1>1, <1>2, <2>1 DEF Orderly, MempoolCached, OneEach
  <2>4. InLine'
    BY <1>1, <2>1 DEF Orderly, InLine, Issued
  <2> QED BY <2>2, <2>3, <2>4 DEF Orderly
<1> QED BY <1>4, <1>5 DEF BroadcastTx

LEMMA OrderlyRemote == ASSUME Orderly, NEW t \in Txs, CheckTxRemote(t) PROVE Orderly'
<1> DEFINE e == [tx |-> t, ticket |-> 0]
<1>1. /\ ~locked /\ t \notin TxsOf(mempool) /\ Len(mempool) < MempoolSize
      /\ mempool' = Append(mempool, e) /\ cachedTxInfo' = cachedTxInfo \cup {t}
      /\ UNCHANGED <<design, pool, poolMu, waiting, tickets, loop, ch, obj, currentTxInfo,
                     removers, txSub, stop, rechecking, locked, failed, used>>
  BY DEF CheckTxRemote, InsertCachedTxInfo, poolVars, loopVars
<1>2. e \in Event /\ e.tx = t /\ e.ticket = 0
  BY DEF Event
<1> HIDE DEF e
<1>3. Len(<<e>>) = 1 /\ <<e>>[1] = e
  OBVIOUS
<1>4. AllPrecede(mempool, <<e>>) /\ AllPrecede(<<e>>, ch) /\ AllPrecede(<<e>>, obj)
  BY <1>2, <1>3 DEF AllPrecede, Precedes
<1>5. e.ticket <= tickets
  BY <1>2, Parts
<1>6. mempool' \in Seq(Event) /\ Len(mempool') <= MempoolSize
  BY <1>1, <1>2, Parts, AppendEvent
<1>7. TypeOK'
  BY <1>1, <1>6 DEF Orderly, TypeOK
<1>8. loop' = "accepted" => Len(obj) = 1
  BY <1>1 DEF Orderly, OneEach
<1> QED BY <1>1, <1>2, <1>4, <1>5, <1>7, <1>8, OrderlyAdmit

LEMMA OrderlyEndBroadcast == ASSUME Orderly, EndBroadcast PROVE Orderly'
<1>1. /\ loop \in {"accepted", "refused"} /\ loop' = "range" /\ obj' = <<>>
      /\ waiting' \subseteq waiting /\ poolMu' \subseteq poolMu
      /\ UNCHANGED <<design, tickets, ch, currentTxInfo, cachedTxInfo, txSub, stop,
                     mempool, rechecking, locked, failed, used>>
  BY DEF EndBroadcast, Answer, tmVars
<1>2. pool' = pool /\ removers' \subseteq removers \cup {obj[1]}
  BY DEF EndBroadcast, SpawnRemoveTx
<1>3. obj[1] \in Event
  BY <1>1, Parts, SingleEvent DEF Orderly, OneEach
<1>4. TypeOK'
  BY <1>1, <1>2, <1>3, EmptyInLine DEF Orderly, TypeOK
<1>5. MempoolCached' /\ OneEach'
  BY <1>1 DEF Orderly, MempoolCached, OneEach
<1>6. InLine'
  BY <1>1, Parts, EmptyInLine, LineUp
<1> QED BY <1>4, <1>5, <1>6 DEF Orderly

\* The block's transactions leave mempool and cache together.
LEMMA OrderlyCommit == ASSUME Orderly, CommitBlock PROVE Orderly'
<1>1. /\ ~locked /\ locked' = TRUE /\ mempool' = <<>>
      /\ UNCHANGED <<design, pool, poolMu, waiting, tickets, loop, ch, obj, currentTxInfo,
                     removers, txSub, stop, failed>>
  BY DEF CommitBlock, poolVars, loopVars
<1>2. PICK block \in SUBSET (Txs \ used) :
        /\ used' = used \cup block /\ cachedTxInfo' = cachedTxInfo \ block
        /\ rechecking' \in Selection(mempool, {n \in 1..Len(mempool) : mempool[n].tx \notin block})
  BY DEF CommitBlock, DeleteCachedTxInfo
<1> DEFINE P == {n \in 1..Len(mempool) : mempool[n].tx \notin block}
<1>3. P \in SUBSET (1..Len(mempool)) /\ \A k \in P : mempool[k].tx \notin block
  OBVIOUS
<1>4. rechecking' \in Selection(mempool, P)
  BY <1>2
<1> HIDE DEF P
<1>5. /\ rechecking' \in Seq(Event) /\ Len(rechecking') \in Nat
      /\ Len(rechecking') <= Len(mempool)
      /\ \A n \in 1..Len(rechecking') : \E k \in P : rechecking'[n] = mempool[k]
      /\ Distinct(rechecking') /\ Ordered(rechecking')
  BY <1>3, <1>4, Parts, SelectionInLine
<1>6. \A n \in 1..Len(rechecking') : \E k \in 1..Len(mempool) :
          rechecking'[n] = mempool[k] /\ mempool[k].tx \notin block
  BY <1>3, <1>5
<1>7. Below(rechecking', tickets) /\ AllPrecede(rechecking', ch)
  BY <1>6, Parts DEF Below, AllPrecede
<1>8. loop = "broadcast" => AllPrecede(rechecking', obj)
  BY <1>6, Parts DEF AllPrecede
<1>9. TxsOf(rechecking') \subseteq cachedTxInfo'
  <2>1. ASSUME NEW n \in 1..Len(rechecking') PROVE rechecking'[n].tx \in cachedTxInfo'
    <3>1. PICK k \in 1..Len(mempool) : rechecking'[n] = mempool[k] /\ mempool[k].tx \notin block
      BY <1>6
    <3>2. mempool[k].tx \in TxsOf(mempool)
      BY DEF TxsOf
    <3> QED BY <1>2, <3>1, <3>2, Parts
  <2> QED BY <2>1 DEF TxsOf
<1>10. TypeOK'
  BY <1>1, <1>2, <1>5, EmptyInLine, BroadcastAssumption DEF Orderly, TypeOK
<1>11. InLine'
  BY <1>1, <1>5, <1>7, <1>8, Parts, EmptyInLine, LineUp
<1>12. MempoolCached'
  BY <1>1, <1>9, EmptyInLine DEF MempoolCached
<1>13. OneEach'
  <2>1. Len(mempool') + Len(rechecking') <= MempoolSize
    BY <1>1, <1>5, Parts, EmptyInLine
  <2>2. TxsOf(mempool') \cap TxsOf(rechecking') = {} /\ Distinct(mempool')
    BY <1>1, EmptyInLine
  <2> QED BY <1>1, <1>5, <2>1, <2>2 DEF Orderly, OneEach
<1> QED BY <1>10, <1>11, <1>12, <1>13 DEF Orderly

LEMMA OrderlyRecheck == ASSUME Orderly, Recheck PROVE Orderly'
<1> DEFINE h == Head(rechecking)
<1>1. /\ locked /\ rechecking # <<>> /\ rechecking' = Tail(rechecking)
      /\ Keep(h) \/ Drop(h)
      /\ UNCHANGED <<design, pool, poolMu, waiting, tickets, loop, ch, obj, currentTxInfo,
                     removers, txSub, stop, locked, used>>
  BY DEF Recheck, poolVars, loopVars
<1>2. /\ h \in Event /\ rechecking' \in Seq(Event) /\ Len(rechecking') = Len(rechecking) - 1
      /\ h.tx \in TxsOf(rechecking) /\ TxsOf(rechecking') \subseteq TxsOf(rechecking)
      /\ Len(rechecking) > 0
  BY <1>1, Parts, TailEvents
<1>3. /\ Distinct(rechecking') /\ h.tx \notin TxsOf(rechecking')
      /\ Ordered(rechecking') /\ AllPrecede(<<h>>, rechecking')
      /\ Below(rechecking', tickets) /\ h.ticket <= tickets
      /\ AllPrecede(rechecking', ch) /\ AllPrecede(<<h>>, ch)
      /\ AllPrecede(mempool, rechecking') /\ AllPrecede(mempool, <<h>>)
  BY <1>1, Parts, TailInLine
<1>4. loop = "broadcast" => AllPrecede(rechecking', obj) /\ AllPrecede(<<h>>, obj)
  BY <1>1, Parts, TailInLine
<1> HIDE DEF h
<1>5. h.tx \notin TxsOf(mempool)
  BY <1>2, Parts
<1>6. CASE Keep(h)
  <2>1. mempool' = Append(mempool, h) /\ cachedTxInfo' = cachedTxInfo /\ failed' = failed
    BY <1>6 DEF Keep
  <2>2. /\ mempool' \in Seq(Event) /\ Len(mempool') = Len(mempool) + 1
        /\ TxsOf(mempool') = TxsOf(mempool) \cup {h.tx}
    BY <1>2, <2>1, Parts, AppendEvent
  <2>3. Distinct(mempool') /\ Ordered(mempool') /\ Below(mempool', tickets)
    BY <1>2, <1>3, <1>5, <2>1, Parts, AppendInLine
  <2>4. /\ AllPrecede(mempool', rechecking') /\ AllPrecede(mempool', ch)
        /\ loop = "broadcast" => AllPrecede(mempool', obj)
    BY <1>2, <1>3, <1>4, <2>1, Parts, AppendBetween
  <2>5. Len(mempool') + Len(rechecking') <= MempoolSize /\ Len(mempool') <= MempoolSize
    BY <1>2, <2>2, Parts
  <2>6. TypeOK'
    BY <1>1, <1>2, <2>1, <2>2, <2>5 DEF Orderly, TypeOK
  <2>7. InLine'
    BY <1>1, <1>3, <1>4, <2>3, <2>4, Parts, LineUp
  <2>8. MempoolCached'
    BY <1>2, <2>1, <2>2, Parts DEF MempoolCached
  <2>9. OneEach'
    <3>1. TxsOf(mempool') \cap TxsOf(rechecking') = {}
      BY <1>2, <1>3, <2>2, Parts
    <3> QED BY <1>1, <1>3, <2>3, <2>5, <3>1 DEF Orderly, OneEach
  <2> QED BY <2>6, <2>7, <2>8, <2>9 DEF Orderly
<1>7. CASE Drop(h)
  <2>1. /\ mempool' = mempool /\ cachedTxInfo' = cachedTxInfo \ {h.tx}
        /\ failed' = failed \cup {h}
    BY <1>7 DEF Drop, DeleteCachedTxInfo
  <2>2. TypeOK'
    BY <1>1, <1>2, <2>1 DEF Orderly, TypeOK
  <2>3. InLine'
    BY <1>1, <1>3, <1>4, <2>1, Parts, LineUp
  <2>4. MempoolCached'
    BY <1>2, <1>3, <1>5, <2>1, Parts DEF MempoolCached
  <2>5. OneEach'
    <3>1. /\ TxsOf(mempool') \cap TxsOf(rechecking') = {}
          /\ Len(mempool') + Len(rechecking') <= MempoolSize
      BY <1>2, <2>1, Parts
    <3> QED BY <1>1, <1>3, <2>1, <3>1, Parts DEF Orderly, OneEach
  <2> QED BY <2>2, <2>3, <2>4, <2>5 DEF Orderly
<1> QED BY <1>1, <1>6, <1>7

LEMMA OrderlyStep == Orderly /\ [Next]_vars => Orderly'
<1> SUFFICES ASSUME Orderly, [Next]_vars PROVE Orderly'
  OBVIOUS
<1>1. CASE \E t \in Txs : Submit(t) \/ CheckTxRemote(t)
  BY <1>1, OrderlySubmit, OrderlyRemote
<1>2. CASE \/ \E r \in removers : RemoveTx(r)
           \/ PoolReset \/ EndUpdate \/ NodeFails \/ Stop \/ UNCHANGED vars
  BY <1>2, OrderlyOther
<1>3. CASE WaitForServer \/ HandleJournalTxs
  BY <1>3, OrderlyJournal
<1>4. CASE ReceiveEvent \/ BroadcastTx \/ EndBroadcast \/ CommitBlock \/ Recheck
  BY <1>4, OrderlyReceive, OrderlyBroadcast, OrderlyEndBroadcast, OrderlyCommit, OrderlyRecheck
<1> QED BY <1>1, <1>2, <1>3, <1>4 DEF Next, Ended

-----------------------------------------------------------------------------
\* However pool, loop, peers and consensus interleave, events stand in one line and
\* the mempool has each transaction once.
THEOREM BroadcastOrderly == Spec => []Orderly
BY OrderlyInit, OrderlyStep, PTL DEF Spec

\* The state of pool, loop and mempool keeps its types; the mempool its size.
THEOREM BroadcastTypeCorrect == Spec => []TypeOK
<1>1. Orderly => TypeOK
  BY DEF Orderly
<1> QED BY <1>1, BroadcastOrderly, PTL

\* Every transaction in the mempool has its info cached for the next recheck.
THEOREM MempoolIsCached == Spec => []MempoolCached
<1>1. Orderly => MempoolCached
  BY DEF Orderly
<1> QED BY <1>1, BroadcastOrderly, PTL

\* The node's own transactions stay in the order in which the pool sent them.
THEOREM OrderIsPreserved == Spec => []OrderPreserved
<1>1. Orderly => OrderPreserved
  BY DEF Orderly, InLine, Ordered, Precedes, OrderPreserved
<1> QED BY <1>1, BroadcastOrderly, PTL
=============================================================================
