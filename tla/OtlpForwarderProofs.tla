------------------------ MODULE OtlpForwarderProofs ------------------------
(***************************************************************************)
(* For every cap, every backoff and all sizes of batches: the forwarder    *)
(* keeps its batches in order, each in one place, misses no wakeup, and    *)
(* implements the abstract outbox.  None of that depends on how many       *)
(* batches the caps make room for; the last part of the module does: what  *)
(* total_metrics counts and the two caps, by what a sum over a queue is.   *)
(***************************************************************************)
EXTENDS OtlpForwarder, FoldLemmas, TLAPS

Ascending(q) == \A i, j \in DOMAIN q : i < j => q[i] < q[j]

-----------------------------------------------------------------------------
(* Queues. *)

\* Where a queue is cut, both parts keep what they had.
LEMMA CutQueue ==
    ASSUME NEW S, NEW q \in Seq(S), NEW n \in 0 .. Len(q)
    PROVE  /\ Front(q, n) \in Seq(S) /\ Len(Front(q, n)) = n
           /\ \A i \in 1 .. n : Front(q, n)[i] = q[i]
           /\ Rest(q, n) \in Seq(S) /\ Len(Rest(q, n)) = Len(q) - n
           /\ \A i \in 1 .. (Len(q) - n) : Rest(q, n)[i] = q[n + i]
  BY DEF Front, Rest

LEMMA QueueOver ==
    ASSUME NEW S, NEW T, S \subseteq T, NEW q \in Seq(S)
    PROVE  q \in Seq(T) /\ Range(q) \subseteq S
  <1>1. q \in [1 .. Len(q) -> S] /\ DOMAIN q = 1 .. Len(q) /\ Len(q) \in Nat
    OBVIOUS
  <1>2. Range(q) \subseteq S
    BY <1>1 DEF Range
  <1>3. q \in Seq(T)
    OBVIOUS
  <1> QED BY <1>2, <1>3

LEMMA EmptyQueue ==
    ASSUME NEW S, NEW q \in Seq(S)
    PROVE  /\ Range(q) = {} <=> q = << >>
           /\ Len(q) = 0 <=> q = << >>
  <1>1. q = << >> => Range(q) = {}
    BY DEF Range
  <1>2. ASSUME q # << >> PROVE q[1] \in Range(q)
    <2>1. 1 \in DOMAIN q
      BY <1>2
    <2> QED BY <2>1 DEF Range
  <1> QED BY <1>1, <1>2

\* The front of a queue in order holds the oldest of it, the rest what remains.
LEMMA CutAscending ==
    ASSUME NEW q \in Seq(Nat), NEW n \in 0 .. Len(q), Ascending(q)
    PROVE  /\ Ascending(Rest(q, n))
           /\ Promise!OldestOf(Range(Front(q, n)), Range(q))
           /\ Range(Rest(q, n)) = Range(q) \ Range(Front(q, n))
  <1> DEFINE f == Front(q, n)
             r == Rest(q, n)
             l == Len(q)
             m == Len(q) - n
  <1>1. /\ f \in Seq(Nat) /\ Len(f) = n /\ \A i \in 1 .. n : f[i] = q[i]
        /\ r \in Seq(Nat) /\ Len(r) = m
        /\ \A i \in 1 .. m : r[i] = q[n + i]
    BY CutQueue
  <1>2. DOMAIN f = 1 .. n /\ DOMAIN r = 1 .. m /\ DOMAIN q = 1 .. l
    BY <1>1
  <1>3. n \in Nat /\ m \in Nat /\ l \in Nat /\ l = n + m /\ \A i \in 1 .. l : q[i] \in Nat
    OBVIOUS
  <1> HIDE DEF f, r, l, m
  <1>4. \A i, j \in 1 .. l : i < j => q[i] < q[j]
    BY <1>2 DEF Ascending
  <1>5. /\ \A i \in 1 .. m : n + i \in 1 .. l
        /\ \A i \in 1 .. n : i \in 1 .. l
        /\ \A i \in 1 .. l : i \in 1 .. n \/ (i - n \in 1 .. m /\ n + (i - n) = i)
    BY <1>3
  <1>6. Ascending(r)
    <2> SUFFICES ASSUME NEW i \in 1 .. m, NEW j \in 1 .. m, i < j
                 PROVE  r[i] < r[j]
      BY <1>2 DEF Ascending
    <2>1. n + i \in 1 .. l /\ n + j \in 1 .. l /\ n + i < n + j
      BY <1>3, <1>5
    <2>2. q[n + i] < q[n + j]
      BY <1>4, <2>1
    <2> QED BY <1>1, <2>2
  <1>7. ASSUME NEW i \in 1 .. n, NEW j \in 1 .. m PROVE f[i] < r[j] /\ f[i] # r[j]
    <2>1. i \in 1 .. l /\ n + j \in 1 .. l /\ i < n + j
      BY <1>3, <1>5
    <2>2. q[i] < q[n + j]
      BY <1>4, <2>1
    <2>3. q[i] \in Nat /\ q[n + j] \in Nat
      BY <1>3, <2>1
    <2>4. f[i] = q[i] /\ r[j] = q[n + j]
      BY <1>1
    <2> QED BY <2>2, <2>3, <2>4
  <1>8. /\ Range(f) = {f[i] : i \in 1 .. n}
        /\ Range(r) = {r[i] : i \in 1 .. m}
        /\ Range(q) = {q[i] : i \in 1 .. l}
    BY <1>2 DEF Range
  <1>9. Range(f) \subseteq Range(q) /\ Range(r) \subseteq Range(q)
    BY <1>1, <1>5, <1>8
  <1>10. Range(q) \subseteq Range(f) \cup Range(r)
    <2> SUFFICES ASSUME NEW i \in 1 .. l PROVE q[i] \in Range(f) \cup Range(r)
      BY <1>8
    <2>1. CASE i \in 1 .. n
      BY <1>1, <1>8, <2>1
    <2>2. CASE i - n \in 1 .. m /\ n + (i - n) = i
      <3>1. r[i - n] = q[i]
        BY <1>1, <2>2
      <3> QED BY <1>8, <2>2, <3>1
    <2> QED BY <1>5, <2>1, <2>2
  <1>11. \A s \in Range(f), b \in Range(r) : s < b /\ s # b
    BY <1>7, <1>8
  <1>12. Range(r) = Range(q) \ Range(f)
    BY <1>9, <1>10, <1>11
  <1>13. Promise!OldestOf(Range(f), Range(q))
    BY <1>9, <1>11, <1>12 DEF Promise!OldestOf
  <1> QED BY <1>6, <1>12, <1>13 DEF f, r

LEMMA RangeOfConcat ==
    ASSUME NEW p \in Seq(Nat), NEW q \in Seq(Nat)
    PROVE  Range(p \o q) = Range(p) \cup Range(q)
  <1>1. /\ DOMAIN (p \o q) = 1 .. (Len(p) + Len(q))
        /\ DOMAIN p = 1 .. Len(p) /\ DOMAIN q = 1 .. Len(q)
        /\ \A i \in 1 .. Len(p) : (p \o q)[i] = p[i]
        /\ \A i \in 1 .. Len(q) : (p \o q)[Len(p) + i] = q[i]
    OBVIOUS
  <1>2. ASSUME NEW i \in DOMAIN (p \o q) PROVE (p \o q)[i] \in Range(p) \cup Range(q)
    <2>1. CASE i <= Len(p)
      BY <1>1, <2>1 DEF Range
    <2>2. CASE i > Len(p)
      <3>1. i - Len(p) \in DOMAIN q /\ (p \o q)[i] = q[i - Len(p)]
        BY <1>1, <2>2
      <3> QED BY <3>1 DEF Range
    <2> QED BY <1>1, <2>1, <2>2
  <1>3. ASSUME NEW i \in DOMAIN q PROVE q[i] \in Range(p \o q)
    <2>1. Len(p) + i \in DOMAIN (p \o q) /\ (p \o q)[Len(p) + i] = q[i]
      BY <1>1
    <2> QED BY <2>1 DEF Range
  <1>4. Range(p) \subseteq Range(p \o q)
    BY <1>1 DEF Range
  <1> QED BY <1>2, <1>3, <1>4 DEF Range

\* Two queues are in order together if each is and the first is the older.
LEMMA ConcatAscending ==
    ASSUME NEW p \in Seq(Nat), NEW q \in Seq(Nat)
    PROVE  Ascending(p \o q) <=> /\ Ascending(p) /\ Ascending(q)
                                /\ \A a \in Range(p), b \in Range(q) : a < b
  <1> DEFINE m == Len(p)
             n == Len(q)
             pq == p \o q
  <1>0. pq \in Seq(Nat) /\ Len(pq) = m + n /\ m \in Nat /\ n \in Nat
    OBVIOUS
  <1>1. /\ DOMAIN pq = 1 .. (m + n) /\ DOMAIN p = 1 .. m /\ DOMAIN q = 1 .. n
        /\ \A i \in 1 .. m : pq[i] = p[i]
        /\ \A i \in 1 .. n : pq[m + i] = q[i]
        /\ m \in Nat /\ n \in Nat
    BY <1>0
  <1> HIDE DEF m, n, pq
  <1>2. Range(p) = {p[i] : i \in 1 .. m} /\ Range(q) = {q[i] : i \in 1 .. n}
    BY <1>1 DEF Range
  <1>3. m \in Nat /\ n \in Nat
    BY <1>1
  <1>4. /\ \A i \in 1 .. m : i \in 1 .. (m + n)
        /\ \A i \in 1 .. n : m + i \in 1 .. (m + n)
        /\ \A i \in 1 .. (m + n) : i \in 1 .. m \/ (i - m \in 1 .. n /\ m + (i - m) = i)
    BY <1>3
  <1>5. ASSUME Ascending(pq)
        PROVE  /\ Ascending(p) /\ Ascending(q)
               /\ \A a \in Range(p), b \in Range(q) : a < b
    <2>1. \A i, j \in 1 .. (m + n) : i < j => pq[i] < pq[j]
      BY <1>1, <1>5 DEF Ascending
    <2>2. Ascending(p)
      BY <1>1, <1>4, <2>1 DEF Ascending
    <2>3. Ascending(q)
      <3> SUFFICES ASSUME NEW i \in 1 .. n, NEW j \in 1 .. n, i < j PROVE q[i] < q[j]
        BY <1>1 DEF Ascending
      <3>1. m + i < m + j /\ m + i \in 1 .. (m + n) /\ m + j \in 1 .. (m + n)
        BY <1>1, <1>4
      <3>2. pq[m + i] < pq[m + j]
        BY <2>1, <3>1
      <3> QED BY <1>1, <3>2
    <2>4. ASSUME NEW i \in 1 .. m, NEW j \in 1 .. n PROVE p[i] < q[j]
      <3>1. i < m + j /\ i \in 1 .. (m + n) /\ m + j \in 1 .. (m + n)
        BY <1>1, <1>4
      <3>2. pq[i] < pq[m + j]
        BY <2>1, <3>1
      <3> QED BY <1>1, <3>2
    <2> QED BY <1>2, <2>2, <2>3, <2>4
  <1>6. ASSUME Ascending(p), Ascending(q), \A a \in Range(p), b \in Range(q) : a < b
        PROVE  Ascending(pq)
    <2> SUFFICES ASSUME NEW i \in 1 .. (m + n), NEW j \in 1 .. (m + n), i < j
                 PROVE  pq[i] < pq[j]
      BY <1>1 DEF Ascending
    <2>1. CASE i \in 1 .. m /\ j \in 1 .. m
      BY <1>1, <1>6, <2>1 DEF Ascending
    <2>2. CASE i \in 1 .. m /\ j - m \in 1 .. n /\ m + (j - m) = j
      <3>1. pq[i] = p[i] /\ pq[j] = q[j - m]
        BY <1>1, <2>2
      <3> QED BY <1>2, <1>6, <2>2, <3>1
    <2>3. CASE /\ i - m \in 1 .. n /\ m + (i - m) = i
               /\ j - m \in 1 .. n /\ m + (j - m) = j
      <3>1. pq[i] = q[i - m] /\ pq[j] = q[j - m] /\ i - m < j - m
        BY <1>1, <2>3
      <3> QED BY <1>1, <1>6, <2>3, <3>1 DEF Ascending
    <2>4. ~(i - m \in 1 .. n /\ j \in 1 .. m)
      BY <1>1
    <2> QED BY <1>4, <2>1, <2>2, <2>3, <2>4
  <1> QED BY <1>5, <1>6 DEF pq

\* A new batch, younger than those in a queue in order, keeps it in order.
LEMMA AppendAscending ==
    ASSUME NEW q \in Seq(Nat), NEW b \in Nat, Ascending(q), \A a \in Range(q) : a < b
    PROVE  Ascending(Append(q, b)) /\ Range(Append(q, b)) = Range(q) \cup {b}
  <1>1. Append(q, b) = q \o <<b>> /\ <<b>> \in Seq(Nat)
    OBVIOUS
  <1>2. Range(<<b>>) = {b} /\ Ascending(<<b>>)
    BY DEF Range, Ascending
  <1>3. Range(q \o <<b>>) = Range(q) \cup {b}
    BY <1>1, <1>2, RangeOfConcat
  <1>4. \A x \in Range(q), y \in Range(<<b>>) : x < y
    BY <1>2
  <1>5. Ascending(q \o <<b>>)
    BY <1>1, <1>2, <1>4, ConcatAscending
  <1> QED BY <1>1, <1>3, <1>5

-----------------------------------------------------------------------------
(* The buffer within its cap. *)

\* Whatever the cap makes StoreWithinCap drop, it is the oldest of what it got.
LEMMA StoreKeepsNewest ==
    ASSUME NEW m \in Nat, NEW size, NEW q \in Seq(1 .. m), NEW t, Ascending(q),
           StoreWithinCap(size, q, t)
    PROVE  /\ buffer' \in Seq(1 .. m) /\ Ascending(buffer')
           /\ \E S \in SUBSET Range(q) :
                 /\ Promise!OldestOf(S, Range(q))
                 /\ Range(buffer') = Range(q) \ S
                 /\ evicted' = evicted \cup S
  <1>1. PICK n \in 0 .. Len(q) : /\ buffer' = Rest(q, n)
                                 /\ evicted' = evicted \cup Range(Front(q, n))
    BY DEF StoreWithinCap
  <1>2. q \in Seq(Nat)
    OBVIOUS
  <1>3. /\ Ascending(Rest(q, n))
        /\ Promise!OldestOf(Range(Front(q, n)), Range(q))
        /\ Range(Rest(q, n)) = Range(q) \ Range(Front(q, n))
    BY <1>2, CutAscending
  <1>4. Rest(q, n) \in Seq(1 .. m)
    BY CutQueue
  <1>5. Range(Front(q, n)) \in SUBSET Range(q)
    BY <1>3 DEF Promise!OldestOf
  <1> QED BY <1>1, <1>3, <1>4, <1>5
-----------------------------------------------------------------------------
(* The steps that change where a batch is. *)

\* What the invariant says of the two queues, and what is younger than both.
LEMMA QueuesInOrder ==
    ASSUME TypeOK, QueueInOrder
    PROVE  /\ Submitted \in Nat
           /\ inflight \in Seq(Nat) /\ Ascending(inflight)
           /\ buffer \in Seq(Nat) /\ Ascending(buffer)
           /\ \A a \in Range(inflight), b \in Range(buffer) : a < b
           /\ Range(inflight) \subseteq 1 .. Submitted
           /\ Range(buffer) \subseteq 1 .. Submitted
  <1>1. Submitted \in Nat
    BY DEF TypeOK, Submitted
  <1>2. inflight \in Seq(Nat) /\ buffer \in Seq(Nat)
    BY <1>1 DEF TypeOK
  <1>3. Ascending(inflight \o buffer)
    BY DEF QueueInOrder, Ascending
  <1>4. /\ Range(inflight) \subseteq 1 .. Submitted
        /\ Range(buffer) \subseteq 1 .. Submitted
    <2>1. inflight \in Seq(1 .. Submitted) /\ buffer \in Seq(1 .. Submitted)
      BY DEF TypeOK
    <2> QED BY <2>1, QueueOver
  <1> QED BY <1>1, <1>2, <1>3, <1>4, ConcatAscending

\* The converse, for the next state.
LEMMA QueueInOrderAfter ==
    ASSUME inflight' \in Seq(Nat), Ascending(inflight'),
           buffer' \in Seq(Nat), Ascending(buffer'),
           \A a \in Range(inflight'), b \in Range(buffer') : a < b
    PROVE  QueueInOrder'
  BY ConcatAscending DEF QueueInOrder, Ascending

\* Where a batch is, by the sets of batches that the outbox has.
LEMMA PlacesBySet ==
    ASSUME TypeOK
    PROVE  EachBatchInOnePlace <=>
             \A b \in 1 .. Submitted :
                 LET F == Range(inflight) \cup Range(buffer) IN
                 \/ b \in F /\ b \notin delivered \cup evicted \cup lost
                 \/ b \in delivered /\ b \notin F \cup evicted \cup lost
                 \/ b \in evicted /\ b \notin F \cup delivered \cup lost
                 \/ b \in lost /\ b \notin F \cup delivered \cup evicted
  <1>1. inflight \in Seq(Nat) /\ buffer \in Seq(Nat)
    BY DEF TypeOK, Submitted
  <1> QED BY <1>1, RangeOfConcat DEF EachBatchInOnePlace

LEMMA SubmitStep ==
    ASSUME ForwarderInv, NEW n \in BatchSizes, Submit(n)
    PROVE  ForwarderInv' /\ Promise!Accept
  <1> DEFINE b == Submitted + 1
  <1>1. /\ TypeOK /\ QueueInOrder /\ InFlightMatchesPc /\ EachBatchInOnePlace
        /\ WakeupIsPending
    BY DEF ForwarderInv
  <1>2. /\ sizes' \in Seq(BatchSizes) /\ Submitted' = b /\ Submitted \in Nat
        /\ 1 .. Submitted' = (1 .. Submitted) \cup {b}
    BY <1>1 DEF Submit, TypeOK, Submitted
  <1>3. /\ inflight \in Seq(Nat) /\ Ascending(inflight)
        /\ buffer \in Seq(Nat) /\ Ascending(buffer)
        /\ \A x \in Range(inflight), y \in Range(buffer) : x < y
        /\ Range(inflight) \subseteq 1 .. Submitted
        /\ Range(buffer) \subseteq 1 .. Submitted
    BY <1>1, QueuesInOrder
  <1>4. b \in Nat /\ \A x \in 1 .. Submitted : x < b /\ x # b
    BY <1>2
  <1>5. UNCHANGED <<inflight, pc, shutdown, backoff, cooling, delivered, lost>> /\ permit'
    BY DEF Submit
  <1> DEFINE q == Append(buffer, b)
  <1>6. /\ q \in Seq(1 .. Submitted') /\ Ascending(q)
        /\ Range(q) = Range(buffer) \cup {b}
    <2>1. q \in Seq(1 .. Submitted')
      BY <1>1, <1>2 DEF TypeOK
    <2>2. Ascending(q) /\ Range(q) = Range(buffer) \cup {b}
      BY <1>3, <1>4, AppendAscending
    <2> QED BY <2>1, <2>2
  <1>7. StoreWithinCap(sizes', q, total + n)
    BY DEF Submit
  <1>8. Submitted' \in Nat
    BY <1>2
  <1> HIDE DEF q, b
  <1>9. /\ buffer' \in Seq(1 .. Submitted') /\ Ascending(buffer')
        /\ \E S \in SUBSET Range(q) : /\ Promise!OldestOf(S, Range(q))
                                     /\ Range(buffer') = Range(q) \ S
                                     /\ evicted' = evicted \cup S
    BY <1>6, <1>7, <1>8, StoreKeepsNewest
  <1>10. PICK S \in SUBSET Range(q) : /\ Promise!OldestOf(S, Range(q))
                                     /\ Range(buffer') = Range(q) \ S
                                     /\ evicted' = evicted \cup S
    BY <1>9
  <1>11. TypeOK'
    <2>1. inflight' \in Seq(1 .. Submitted')
      <3>1. inflight \in Seq(1 .. Submitted) /\ 1 .. Submitted \subseteq 1 .. Submitted'
        BY <1>1, <1>2 DEF TypeOK
      <3>2. inflight \in Seq(1 .. Submitted')
        BY <3>1, QueueOver
      <3> QED BY <1>5, <3>2
    <2>2. /\ delivered' \subseteq 1 .. Submitted' /\ lost' \subseteq 1 .. Submitted'
          /\ evicted' \subseteq 1 .. Submitted'
      BY <1>1, <1>2, <1>3, <1>5, <1>6, <1>10 DEF TypeOK
    <2>3. pc' \in Pcs /\ permit' \in BOOLEAN /\ shutdown' \in BOOLEAN
          /\ backoff' \in 0 .. BackoffMax /\ cooling' \in BOOLEAN
      BY <1>1, <1>5, Zenon DEF TypeOK, Submit
    <2> QED BY <1>2, <1>9, <2>1, <2>2, <2>3 DEF TypeOK
  <1>12. QueueInOrder'
    <2>1. \A x \in Range(inflight), y \in Range(q) : x < y
      BY <1>3, <1>4, <1>6
    <2>2. buffer' \in Seq(Nat)
      BY <1>8, <1>9
    <2> QED BY <1>3, <1>5, <1>9, <1>10, <2>1, <2>2, QueueInOrderAfter
  <1>13. InFlightMatchesPc'
    BY <1>1, <1>5 DEF InFlightMatchesPc, Awaiting
  <1>14. EachBatchInOnePlace'
    <2>1. b \notin Range(inflight) \cup delivered \cup evicted \cup lost
      BY <1>1, <1>3, <1>4 DEF TypeOK
    <2>2. /\ inflight' \in Seq(Nat) /\ buffer' \in Seq(Nat)
      BY <1>3, <1>5, <1>8, <1>9
    <2>3. Range(inflight' \o buffer') = Range(inflight) \cup (Range(q) \ S)
      BY <1>5, <1>10, <2>2, RangeOfConcat
    <2>4. S \cap Range(inflight) = {}
      BY <1>3, <1>4, <1>6
    <2>5. \A a \in 1 .. Submitted :
             LET F == Range(inflight) \cup Range(buffer) IN
             \/ a \in F /\ a \notin delivered \cup evicted \cup lost
             \/ a \in delivered /\ a \notin F \cup evicted \cup lost
             \/ a \in evicted /\ a \notin F \cup delivered \cup lost
             \/ a \in lost /\ a \notin F \cup delivered \cup evicted
      BY <1>1, PlacesBySet
    <2> SUFFICES ASSUME NEW a \in 1 .. Submitted'
                 PROVE  LET F == Range(inflight) \cup (Range(q) \ S) IN
                        \/ a \in F /\ a \notin delivered' \cup evicted' \cup lost'
                        \/ a \in delivered' /\ a \notin F \cup evicted' \cup lost'
                        \/ a \in evicted' /\ a \notin F \cup delivered' \cup lost'
                        \/ a \in lost' /\ a \notin F \cup delivered' \cup evicted'
      BY <2>3 DEF EachBatchInOnePlace
    <2>6. CASE a = b
      BY <1>5, <1>6, <1>10, <2>1, <2>6
    <2>7. CASE a \in 1 .. Submitted
      <3>1. a # b
        BY <1>4, <2>7
      <3> QED BY <1>5, <1>6, <1>10, <2>4, <2>5, <2>7, <3>1
    <2> QED BY <1>2, <2>6, <2>7
  <1>15. WakeupIsPending'
    BY <1>5 DEF WakeupIsPending
  <1>16. Promise!Accept
    <2>1. Range(buffer) \cup {Submitted'} = Range(q)
      BY <1>2, <1>6
    <2>2. Promise!Keep(Range(buffer) \cup {Submitted'})
      BY <1>10, <2>1 DEF Promise!Keep
    <2> QED BY <1>2, <1>5, <2>2 DEF Promise!Accept, b
  <1> QED BY <1>11, <1>12, <1>13, <1>14, <1>15 , <1>16 DEF ForwarderInv

LEMMA DrainStep ==
    ASSUME ForwarderInv, ~Awaiting, pc # "panicked",
           NEW awaiting \in {"sending", "flushing"}, NEW returned \in {"top", "done"},
           Drain(awaiting, returned), backoff' \in 0 .. BackoffMax,
           UNCHANGED <<sizes, permit, shutdown, cooling, history>>
    PROVE  ForwarderInv' /\ (Promise!Dispatch \/ UNCHANGED Promise!outboxVars)
  <1>1. /\ TypeOK /\ QueueInOrder /\ InFlightMatchesPc /\ EachBatchInOnePlace
    BY DEF ForwarderInv
  <1>2. inflight = << >> /\ lost = {} /\ Range(inflight) = {}
    <2>1. inflight = << >> /\ lost = {}
      BY <1>1 DEF InFlightMatchesPc
    <2> QED BY <2>1 DEF Range
  <1>3. Submitted \in Nat /\ Submitted' = Submitted
    BY <1>1 DEF TypeOK, Submitted
  <1>4. buffer \in Seq(1 .. Submitted) /\ buffer \in Seq(Nat) /\ Ascending(buffer)
    BY <1>1, QueuesInOrder DEF TypeOK
  <1>5. PICK n \in 0 .. Len(buffer) : /\ inflight' = Front(buffer, n)
                                      /\ buffer' = Rest(buffer, n)
                                      /\ pc' = IF n = 0 THEN returned ELSE awaiting
    BY DEF Drain
  <1>6. /\ inflight' \in Seq(1 .. Submitted) /\ Len(inflight') = n
        /\ buffer' \in Seq(1 .. Submitted)
    BY <1>4, <1>5, CutQueue
  <1>7. /\ Ascending(buffer')
        /\ Promise!OldestOf(Range(inflight'), Range(buffer))
        /\ Range(buffer') = Range(buffer) \ Range(inflight')
    BY <1>4, <1>5, CutAscending
  <1>8. inflight' # << >> <=> Awaiting'
    BY <1>5, <1>6, EmptyQueue DEF Awaiting
  <1>9. inflight' \in Seq(Nat) /\ buffer' \in Seq(Nat)
    BY <1>3, <1>6, QueueOver
  <1>10. TypeOK'
    <2>1. /\ sizes' \in Seq(BatchSizes) /\ permit' \in BOOLEAN /\ shutdown' \in BOOLEAN
          /\ cooling' \in BOOLEAN /\ delivered' \subseteq 1 .. Submitted'
          /\ evicted' \subseteq 1 .. Submitted' /\ lost' \subseteq 1 .. Submitted'
      BY <1>1, <1>3, Zenon DEF TypeOK, history
    <2>2. pc' \in Pcs
      BY <1>5 DEF Pcs
    <2> QED BY <1>3, <1>6, <2>1, <2>2 DEF TypeOK
  <1>11. QueueInOrder'
    <2>1. Ascending(inflight')
      <3>1. \A i \in 1 .. n : inflight'[i] = buffer[i]
        BY <1>4, <1>5, CutQueue
      <3>2. DOMAIN inflight' = 1 .. n /\ 1 .. n \subseteq DOMAIN buffer
        BY <1>4, <1>6
      <3> QED BY <1>4, <3>1, <3>2 DEF Ascending
    <2>2. \A a \in Range(inflight'), b \in Range(buffer') : a < b
      BY <1>7 DEF Promise!OldestOf
    <2> QED BY <1>7, <1>9, <2>1, <2>2, QueueInOrderAfter
  <1>12. InFlightMatchesPc'
    BY <1>2, <1>8 DEF InFlightMatchesPc, history
  <1>13. EachBatchInOnePlace'
    <2>1. Range(inflight') \cup Range(buffer') = Range(inflight) \cup Range(buffer)
      BY <1>2, <1>7 DEF Promise!OldestOf
    <2>2. Range(inflight' \o buffer') = Range(inflight \o buffer)
      <3>1. inflight \in Seq(Nat)
        BY <1>1, QueuesInOrder
      <3> QED BY <1>4, <1>9, <2>1, <3>1, RangeOfConcat
    <2> QED BY <1>1, <1>3, <2>2 DEF EachBatchInOnePlace, history
  <1>14. WakeupIsPending'
    BY <1>5 DEF WakeupIsPending
  <1>15. CASE n = 0
    <2>1. Range(inflight') = {}
      BY <1>6, <1>15, EmptyQueue
    <2>2. UNCHANGED Promise!outboxVars
      BY <1>2, <1>3, <1>7, <2>1 DEF Promise!outboxVars, history
    <2> QED BY <1>10, <1>11, <1>12, <1>13, <1>14, <2>2 DEF ForwarderInv
  <1>16. CASE n # 0
    <2>1. Range(inflight') # {}
      BY <1>6, <1>16, EmptyQueue
    <2>2. Range(inflight') \in SUBSET Range(buffer)
      BY <1>7 DEF Promise!OldestOf
    <2>3. Promise!Dispatch
      BY <1>2, <1>3, <1>7, <2>1, <2>2 DEF Promise!Dispatch, history
    <2> QED BY <1>10, <1>11, <1>12, <1>13, <1>14, <2>3 DEF ForwarderInv
  <1> QED BY <1>15, <1>16

LEMMA DeliveredStep ==
    ASSUME ForwarderInv, Delivered
    PROVE  ForwarderInv' /\ Promise!Deliver
  <1>1. /\ TypeOK /\ QueueInOrder /\ InFlightMatchesPc /\ EachBatchInOnePlace
    BY DEF ForwarderInv
  <1>2. /\ inflight # << >> /\ lost = {} /\ inflight' = << >>
        /\ delivered' = delivered \cup Range(inflight)
        /\ UNCHANGED <<sizes, buffer, permit, shutdown, evicted, lost>>
        /\ pc' \in {"top", "done"}
    BY <1>1 DEF Delivered, InFlightMatchesPc, Awaiting, AfterSend, state
  <1>3. Submitted' = Submitted /\ Submitted \in Nat
    BY <1>1, <1>2 DEF TypeOK, Submitted
  <1>4. /\ inflight \in Seq(Nat) /\ buffer \in Seq(Nat) /\ Ascending(buffer)
        /\ Range(inflight) \subseteq 1 .. Submitted
    BY <1>1, QueuesInOrder
  <1>5. inflight' \in Seq(Nat) /\ Ascending(inflight') /\ Range(inflight') = {}
    BY <1>2 DEF Ascending, Range
  <1>6. TypeOK'
    <2>1. /\ sizes' \in Seq(BatchSizes) /\ permit' \in BOOLEAN /\ shutdown' \in BOOLEAN
          /\ evicted' \subseteq 1 .. Submitted' /\ lost' \subseteq 1 .. Submitted'
          /\ delivered' \subseteq 1 .. Submitted'
      BY <1>1, <1>2, <1>3, <1>4 DEF TypeOK
    <2>2. inflight' \in Seq(1 .. Submitted') /\ buffer' \in Seq(1 .. Submitted')
      BY <1>1, <1>2, <1>3 DEF TypeOK
    <2>3. cooling' \in BOOLEAN
      BY <1>1, Zenon DEF Delivered, TypeOK
    <2>4. backoff' \in 0 .. BackoffMax
      BY <1>1, ForwarderAssumption DEF Delivered, TypeOK
    <2>5. pc' \in Pcs
      BY <1>2 DEF Pcs
    <2> QED BY <2>1, <2>2, <2>3, <2>4, <2>5 DEF TypeOK
  <1>7. QueueInOrder'
    BY <1>2, <1>4, <1>5, QueueInOrderAfter
  <1>8. InFlightMatchesPc'
    BY <1>2 DEF InFlightMatchesPc, Awaiting
  <1>9. EachBatchInOnePlace'
    <2>1. Range(inflight \o buffer) = Range(inflight) \cup Range(buffer)
      BY <1>4, RangeOfConcat
    <2>2. Range(inflight' \o buffer') = Range(buffer)
      BY <1>2, <1>4, <1>5, RangeOfConcat
    <2>3. \A a \in Range(inflight), b \in Range(buffer) : a < b /\ a # b
      <3>1. /\ \A a \in Range(inflight), b \in Range(buffer) : a < b
            /\ Range(inflight) \subseteq 1 .. Submitted
            /\ Range(buffer) \subseteq 1 .. Submitted
        BY <1>1, QueuesInOrder
      <3> QED BY <3>1
    <2> QED BY <1>1, <1>2, <1>3, <2>1, <2>2, <2>3 DEF EachBatchInOnePlace
  <1>10. WakeupIsPending'
    BY <1>2 DEF WakeupIsPending
  <1>11. Promise!Deliver
    <2>1. Range(inflight) # {}
      BY <1>2, <1>4, EmptyQueue
    <2> QED BY <1>2, <1>3, <1>5, <2>1 DEF Promise!Deliver
  <1> QED BY <1>6, <1>7, <1>8, <1>9, <1>10, <1>11 DEF ForwarderInv

LEMMA FailedStep ==
    ASSUME ForwarderInv, Failed
    PROVE  ForwarderInv' /\ Promise!TakeBack
  <1> DEFINE q == inflight \o buffer
  <1>1. /\ TypeOK /\ QueueInOrder /\ InFlightMatchesPc /\ EachBatchInOnePlace
    BY DEF ForwarderInv
  <1>2. /\ inflight # << >> /\ lost = {} /\ inflight' = << >>
        /\ UNCHANGED <<sizes, permit, shutdown, delivered, lost>>
        /\ pc' \in {"top", "done"}
    BY <1>1 DEF Failed, InFlightMatchesPc, Awaiting, AfterSend
  <1>3. Submitted' = Submitted /\ Submitted \in Nat
    BY <1>1, <1>2 DEF TypeOK, Submitted
  <1>4. inflight \in Seq(Nat) /\ buffer \in Seq(Nat)
    BY <1>1, QueuesInOrder
  <1>5. /\ q \in Seq(1 .. Submitted) /\ Ascending(q)
        /\ Range(q) = Range(inflight) \cup Range(buffer)
    <2>1. q \in Seq(1 .. Submitted)
      BY <1>1 DEF TypeOK
    <2>2. Ascending(q)
      BY <1>1 DEF QueueInOrder, Ascending
    <2> QED BY <1>4, <2>1, <2>2, RangeOfConcat
  <1>6. StoreWithinCap(sizes, q, total + Metrics(sizes, inflight))
    BY DEF Failed
  <1> HIDE DEF q
  <1>7. /\ buffer' \in Seq(1 .. Submitted) /\ Ascending(buffer')
        /\ \E S \in SUBSET Range(q) : /\ Promise!OldestOf(S, Range(q))
                                     /\ Range(buffer') = Range(q) \ S
                                     /\ evicted' = evicted \cup S
    BY <1>3, <1>5, <1>6, StoreKeepsNewest
  <1>8. PICK S \in SUBSET Range(q) : /\ Promise!OldestOf(S, Range(q))
                                    /\ Range(buffer') = Range(q) \ S
                                    /\ evicted' = evicted \cup S
    BY <1>7
  <1>9. /\ inflight' \in Seq(Nat) /\ Ascending(inflight') /\ Range(inflight') = {}
        /\ buffer' \in Seq(Nat)
    <2>1. buffer' \in Seq(Nat)
      BY <1>3, <1>7, QueueOver
    <2> QED BY <1>2, <2>1 DEF Ascending, Range
  <1>10. TypeOK'
    <2>1. Range(q) \subseteq 1 .. Submitted
      BY <1>5, QueueOver
    <2>2. /\ sizes' \in Seq(BatchSizes) /\ permit' \in BOOLEAN /\ shutdown' \in BOOLEAN
          /\ evicted' \subseteq 1 .. Submitted' /\ lost' \subseteq 1 .. Submitted'
          /\ delivered' \subseteq 1 .. Submitted'
      BY <1>1, <1>2, <1>3, <1>8, <2>1 DEF TypeOK
    <2>3. inflight' \in Seq(1 .. Submitted') /\ buffer' \in Seq(1 .. Submitted')
      BY <1>2, <1>3, <1>7
    <2>4. cooling' \in BOOLEAN
      BY <1>1, Zenon DEF Failed, TypeOK
    <2>5. backoff' \in 0 .. BackoffMax
      BY <1>1, ForwarderAssumption DEF Failed, TypeOK, NextBackoff
    <2>6. pc' \in Pcs
      BY <1>2 DEF Pcs
    <2> QED BY <2>2, <2>3, <2>4, <2>5, <2>6 DEF TypeOK
  <1>11. QueueInOrder'
    BY <1>7, <1>9, QueueInOrderAfter
  <1>12. InFlightMatchesPc'
    BY <1>2 DEF InFlightMatchesPc, Awaiting
  <1>13. EachBatchInOnePlace'
    <2>1. Range(inflight' \o buffer') = Range(q) \ S
      BY <1>8, <1>9, RangeOfConcat
    <2> QED BY <1>1, <1>2, <1>3, <1>8, <2>1 DEF EachBatchInOnePlace, q
  <1>14. WakeupIsPending'
    BY <1>2 DEF WakeupIsPending
  <1>15. Promise!TakeBack
    <2>1. Range(inflight) # {}
      BY <1>2, <1>4, EmptyQueue
    <2>2. (Range(inflight) \cup lost) \cup Range(buffer) = Range(q)
      BY <1>2, <1>5
    <2>3. Promise!Keep((Range(inflight) \cup lost) \cup Range(buffer))
      BY <1>8, <2>2 DEF Promise!Keep
    <2> QED BY <1>2, <1>3, <1>9, <2>1, <2>3 DEF Promise!TakeBack
  <1> QED BY <1>10, <1>11, <1>12, <1>13, <1>14, <1>15 DEF ForwarderInv

\* What was in flight is lost; to the outbox it stays under way.
LEMMA BodyStillHeldStep ==
    ASSUME ForwarderInv, BodyStillHeld
    PROVE  ForwarderInv' /\ UNCHANGED Promise!outboxVars
  <1>1. /\ TypeOK /\ QueueInOrder /\ InFlightMatchesPc /\ EachBatchInOnePlace
    BY DEF ForwarderInv
  <1>2. /\ inflight # << >> /\ lost = {} /\ inflight' = << >> /\ pc' = "panicked"
        /\ lost' = lost \cup Range(inflight)
        /\ UNCHANGED <<sizes, buffer, permit, shutdown, backoff, cooling, delivered, evicted>>
    BY <1>1 DEF BodyStillHeld, InFlightMatchesPc, Awaiting, state
  <1>3. Submitted' = Submitted /\ Submitted \in Nat
    BY <1>1, <1>2 DEF TypeOK, Submitted
  <1>4. /\ inflight \in Seq(Nat) /\ buffer \in Seq(Nat) /\ Ascending(buffer)
        /\ Range(inflight) \subseteq 1 .. Submitted
        /\ Range(buffer) \subseteq 1 .. Submitted
        /\ \A a \in Range(inflight), b \in Range(buffer) : a < b
    BY <1>1, QueuesInOrder
  <1>5. inflight' \in Seq(Nat) /\ Ascending(inflight') /\ Range(inflight') = {}
    BY <1>2 DEF Ascending, Range
  <1>6. TypeOK'
    <2>1. /\ sizes' \in Seq(BatchSizes) /\ permit' \in BOOLEAN /\ shutdown' \in BOOLEAN
          /\ cooling' \in BOOLEAN /\ backoff' \in 0 .. BackoffMax
      BY <1>1, <1>2, Zenon DEF TypeOK
    <2>2. /\ evicted' \subseteq 1 .. Submitted' /\ lost' \subseteq 1 .. Submitted'
          /\ delivered' \subseteq 1 .. Submitted'
      BY <1>1, <1>2, <1>3, <1>4 DEF TypeOK
    <2>3. inflight' \in Seq(1 .. Submitted') /\ buffer' \in Seq(1 .. Submitted')
      BY <1>1, <1>2, <1>3 DEF TypeOK
    <2> QED BY <1>2, <2>1, <2>2, <2>3 DEF TypeOK, Pcs
  <1>7. QueueInOrder'
    BY <1>2, <1>4, <1>5, QueueInOrderAfter
  <1>8. InFlightMatchesPc'
    BY <1>2 DEF InFlightMatchesPc, Awaiting
  <1>9. EachBatchInOnePlace'
    <2>1. Range(inflight \o buffer) = Range(inflight) \cup Range(buffer)
      BY <1>4, RangeOfConcat
    <2>2. Range(inflight' \o buffer') = Range(buffer)
      BY <1>2, <1>4, <1>5, RangeOfConcat
    <2>3. \A a \in Range(inflight), b \in Range(buffer) : a < b /\ a # b
      BY <1>4
    <2> QED BY <1>1, <1>2, <1>3, <2>1, <2>2, <2>3 DEF EachBatchInOnePlace
  <1>10. WakeupIsPending'
    BY <1>2 DEF WakeupIsPending
  <1>11. UNCHANGED Promise!outboxVars
    BY <1>2, <1>3, <1>5 DEF Promise!outboxVars
  <1> QED BY <1>6, <1>7, <1>8, <1>9, <1>10, <1>11 DEF ForwarderInv

\* Steps that leave every batch where it is.
LEMMA BatchesStay ==
    ASSUME ForwarderInv, UNCHANGED <<sizes, state, inflight, history>>,
           pc' \in Pcs, Awaiting' <=> Awaiting, pc = "panicked" <=> pc' = "panicked",
           permit' \in BOOLEAN, shutdown' \in BOOLEAN, backoff' \in 0 .. BackoffMax,
           cooling' \in BOOLEAN, WakeupIsPending'
    PROVE  ForwarderInv' /\ UNCHANGED Promise!outboxVars
  <1>1. UNCHANGED <<sizes, buffer, inflight, delivered, evicted, lost>>
    BY DEF state, history
  <1>2. /\ TypeOK /\ QueueInOrder /\ InFlightMatchesPc /\ EachBatchInOnePlace
    BY DEF ForwarderInv
  <1>3. Submitted' = Submitted
    BY <1>1 DEF Submitted
  <1>4. TypeOK'
    BY <1>1, <1>2, <1>3 DEF TypeOK
  <1>5. QueueInOrder' /\ EachBatchInOnePlace' /\ InFlightMatchesPc'
    BY <1>1, <1>2, <1>3 DEF QueueInOrder, EachBatchInOnePlace, InFlightMatchesPc
  <1>6. UNCHANGED Promise!outboxVars
    BY <1>1, <1>3 DEF Promise!outboxVars
  <1> QED BY <1>4, <1>5, <1>6 DEF ForwarderInv

-----------------------------------------------------------------------------
(* The theorems. *)

LEMMA ForwarderInvInit == ForwarderInit => ForwarderInv /\ Promise!OutboxInit
  <1> SUFFICES ASSUME ForwarderInit PROVE ForwarderInv /\ Promise!OutboxInit
    OBVIOUS
  <1>1. /\ sizes = << >> /\ buffer = << >> /\ inflight = << >> /\ pc = "top" /\ ~permit
        /\ ~shutdown /\ backoff = 0 /\ ~cooling /\ delivered = {} /\ evicted = {} /\ lost = {}
        /\ Submitted = 0 /\ Range(inflight) = {} /\ Range(buffer) = {}
    BY DEF ForwarderInit, Submitted, Range
  <1>2. TypeOK
    <2>1. \A S : << >> \in Seq(S)
      OBVIOUS
    <2>2. permit \in BOOLEAN /\ shutdown \in BOOLEAN /\ cooling \in BOOLEAN
      BY Zenon DEF ForwarderInit
    <2>3. backoff \in 0 .. BackoffMax
      BY <1>1, ForwarderAssumption
    <2> QED BY <1>1, <2>1, <2>2, <2>3 DEF TypeOK, Pcs
  <1>3. QueueInOrder
    BY <1>1 DEF QueueInOrder
  <1>4. InFlightMatchesPc /\ EachBatchInOnePlace /\ WakeupIsPending
    BY <1>1 DEF InFlightMatchesPc, Awaiting, EachBatchInOnePlace, WakeupIsPending
  <1>5. Promise!OutboxInit
    BY <1>1 DEF Promise!OutboxInit
  <1> QED BY <1>2, <1>3, <1>4, <1>5 DEF ForwarderInv

\* Each step keeps the invariant and is a step of the outbox, or none.
LEMMA ForwarderStep ==
    ASSUME ForwarderInv, [ForwarderNext]_forwarderVars
    PROVE  ForwarderInv' /\ [Promise!OutboxNext]_Promise!outboxVars
  <1>1. TypeOK /\ WakeupIsPending /\ InFlightMatchesPc
    BY DEF ForwarderInv
  <1>2. ASSUME NEW n \in BatchSizes, Submit(n)
        PROVE  ForwarderInv' /\ [Promise!OutboxNext]_Promise!outboxVars
    BY <1>2, SubmitStep DEF Promise!OutboxNext
  <1>3. CASE Shutdown
    <2>1. permit' /\ shutdown' /\ UNCHANGED <<sizes, state, inflight, pc, backoff, cooling, history>>
      BY <1>3 DEF Shutdown
    <2>2. WakeupIsPending'
      BY <2>1 DEF WakeupIsPending
    <2>3. /\ pc' \in Pcs /\ permit' \in BOOLEAN /\ shutdown' \in BOOLEAN
          /\ backoff' \in 0 .. BackoffMax /\ cooling' \in BOOLEAN
      BY <1>1, <1>3, Zenon DEF TypeOK, Shutdown
    <2>4. Awaiting' <=> Awaiting
      BY <2>1 DEF Awaiting
    <2>5. ForwarderInv' /\ UNCHANGED Promise!outboxVars
      BY <2>1, <2>2, <2>3, <2>4, BatchesStay
    <2> QED BY <2>5
  <1>4. CASE Flush
    <2>1. ~Awaiting /\ pc # "panicked"
      BY <1>4 DEF Flush, Awaiting
    <2>2. /\ Drain("flushing", "done") /\ backoff' \in 0 .. BackoffMax
          /\ UNCHANGED <<sizes, permit, shutdown, cooling, history>>
      BY <1>1, <1>4 DEF Flush, TypeOK
    <2>3. ForwarderInv' /\ (Promise!Dispatch \/ UNCHANGED Promise!outboxVars)
      BY <2>1, <2>2, DrainStep
    <2> QED BY <2>3 DEF Promise!OutboxNext
  <1>5. CASE AwaitData
    <2>1. /\ buffer = << >> /\ ~shutdown /\ pc = "top" /\ pc' = "waiting"
          /\ UNCHANGED <<sizes, state, inflight, permit, shutdown, backoff, cooling, history>>
      BY <1>5 DEF AwaitData
    <2>2. WakeupIsPending'
      BY <2>1 DEF WakeupIsPending, state
    <2>3. /\ permit' \in BOOLEAN /\ shutdown' \in BOOLEAN
          /\ backoff' \in 0 .. BackoffMax /\ cooling' \in BOOLEAN
      BY <1>1, <2>1, Zenon DEF TypeOK
    <2>4. pc' \in Pcs /\ (Awaiting' <=> Awaiting)
      BY <2>1 DEF Awaiting, Pcs
    <2>5. ForwarderInv' /\ UNCHANGED Promise!outboxVars
      BY <2>1, <2>2, <2>3, <2>4, BatchesStay
    <2> QED BY <2>5
  <1>6. CASE AwaitBackoff
    <2>1. /\ pc = "top" /\ pc' = "backoff"
          /\ UNCHANGED <<sizes, state, inflight, permit, shutdown, backoff, cooling, history>>
      BY <1>6 DEF AwaitBackoff
    <2>2. WakeupIsPending'
      BY <2>1 DEF WakeupIsPending
    <2>3. /\ permit' \in BOOLEAN /\ shutdown' \in BOOLEAN
          /\ backoff' \in 0 .. BackoffMax /\ cooling' \in BOOLEAN
      BY <1>1, <2>1, Zenon DEF TypeOK
    <2>4. pc' \in Pcs /\ (Awaiting' <=> Awaiting)
      BY <2>1 DEF Awaiting, Pcs
    <2>5. ForwarderInv' /\ UNCHANGED Promise!outboxVars
      BY <2>1, <2>2, <2>3, <2>4, BatchesStay
    <2> QED BY <2>5
  <1>7. CASE Notified
    <2>1. /\ pc \in {"waiting", "backoff"} /\ pc' = "top" /\ permit' = FALSE
          /\ UNCHANGED <<sizes, state, inflight, shutdown, backoff, cooling, history>>
      BY <1>7 DEF Notified
    <2>2. WakeupIsPending'
      BY <2>1 DEF WakeupIsPending
    <2>3. /\ permit' \in BOOLEAN /\ shutdown' \in BOOLEAN
          /\ backoff' \in 0 .. BackoffMax /\ cooling' \in BOOLEAN
      BY <1>1, <2>1, Zenon DEF TypeOK
    <2>4. pc' \in Pcs /\ (Awaiting' <=> Awaiting)
      BY <2>1 DEF Awaiting, Pcs
    <2>5. ForwarderInv' /\ UNCHANGED Promise!outboxVars
      BY <2>1, <2>2, <2>3, <2>4, BatchesStay
    <2> QED BY <2>5
  <1>8. CASE Send
    <2>1. ~Awaiting /\ pc # "panicked"
      BY <1>8 DEF Send, Awaiting
    <2>2. /\ Drain("sending", "top")
          /\ UNCHANGED <<sizes, permit, shutdown, cooling, history>>
      BY <1>8 DEF Send
    <2>3. backoff' \in 0 .. BackoffMax
      BY <1>1, <1>8, ForwarderAssumption DEF Send, TypeOK
    <2>4. ForwarderInv' /\ (Promise!Dispatch \/ UNCHANGED Promise!outboxVars)
      BY <2>1, <2>2, <2>3, DrainStep
    <2> QED BY <2>4 DEF Promise!OutboxNext
  <1>9. CASE Cool
    <2>1. /\ cooling' = FALSE
          /\ UNCHANGED <<sizes, state, inflight, pc, permit, shutdown, backoff, history>>
      BY <1>9 DEF Cool
    <2>2. WakeupIsPending'
      BY <1>1, <2>1, Zenon DEF WakeupIsPending, state
    <2>3. /\ pc' \in Pcs /\ permit' \in BOOLEAN /\ shutdown' \in BOOLEAN
          /\ backoff' \in 0 .. BackoffMax /\ cooling' \in BOOLEAN
      BY <1>1, <2>1, Zenon DEF TypeOK
    <2>4. Awaiting' <=> Awaiting
      BY <2>1 DEF Awaiting
    <2>5. ForwarderInv' /\ UNCHANGED Promise!outboxVars
      BY <2>1, <2>2, <2>3, <2>4, BatchesStay
    <2> QED BY <2>5
  <1>10. CASE Delivered
    BY <1>10, DeliveredStep DEF Promise!OutboxNext
  <1>11. CASE Failed
    BY <1>11, FailedStep DEF Promise!OutboxNext
  <1>12. CASE BodyStillHeld
    BY <1>12, BodyStillHeldStep
  <1>13. CASE UNCHANGED forwarderVars
    <2>1. UNCHANGED <<sizes, state, inflight, pc, permit, shutdown, backoff, cooling, history>>
      BY <1>13 DEF forwarderVars
    <2>2. WakeupIsPending'
      BY <1>1, <2>1, Zenon DEF WakeupIsPending, state
    <2>3. /\ pc' \in Pcs /\ permit' \in BOOLEAN /\ shutdown' \in BOOLEAN
          /\ backoff' \in 0 .. BackoffMax /\ cooling' \in BOOLEAN
      BY <1>1, <2>1, Zenon DEF TypeOK
    <2>4. Awaiting' <=> Awaiting
      BY <2>1 DEF Awaiting
    <2>5. ForwarderInv' /\ UNCHANGED Promise!outboxVars
      BY <2>1, <2>2, <2>3, <2>4, BatchesStay
    <2> QED BY <2>5
  <1> QED BY <1>2, <1>3, <1>4, <1>5, <1>6, <1>7, <1>8, <1>9, <1>10, <1>11, <1>12, <1>13
      DEF ForwarderNext, Run, Respond

\* The invariant of the forwarder (otlphttp.rs: submit, run, drain_and_send,
\* requeue): types, order, one place for each batch, no lost wakeup.
THEOREM ForwarderInvariant == ForwarderSpec => []ForwarderInv
  <1>1. ForwarderInit => ForwarderInv
    BY ForwarderInvInit
  <1>2. ForwarderInv /\ [ForwarderNext]_forwarderVars => ForwarderInv'
    BY ForwarderStep
  <1> QED BY <1>1, <1>2, PTL DEF ForwarderSpec

\* In an outbox, what was delivered is older than what is under way, and that is
\* older than what waits.
NoOvertaking ==
    /\ \A d \in delivered, b \in Range(inflight) \cup lost \cup Range(buffer) : d < b
    /\ \A o \in Range(inflight) \cup lost, w \in Range(buffer) : o < w

\* Every step of an outbox keeps that: a new batch is the youngest, the oldest
\* are sent, and what comes back is older than what waits.
LEMMA OutboxKeepsOrder ==
    ASSUME NoOvertaking, Submitted \in Nat,
           delivered \cup Range(inflight) \cup lost \cup Range(buffer) \subseteq 1 .. Submitted,
           [Promise!OutboxNext]_Promise!outboxVars
    PROVE  NoOvertaking'
  <1> USE DEF NoOvertaking
  <1>1. CASE UNCHANGED Promise!outboxVars
    BY <1>1 DEF Promise!outboxVars
  <1>2. CASE Promise!Accept
    <2>1. /\ Range(buffer') \subseteq Range(buffer) \cup {Submitted + 1}
          /\ delivered' = delivered
          /\ Range(inflight') \cup lost' = Range(inflight) \cup lost
      BY <1>2 DEF Promise!Accept, Promise!Keep
    <2> QED BY <2>1
  <1>3. CASE Promise!Dispatch
    <2>1. /\ Range(inflight) \cup lost = {}
          /\ Range(inflight') \cup lost' \subseteq Range(buffer)
          /\ Range(buffer') = Range(buffer) \ (Range(inflight') \cup lost')
          /\ \A s \in Range(inflight') \cup lost',
                b \in Range(buffer) \ (Range(inflight') \cup lost') : s < b
          /\ delivered' = delivered
      BY <1>3 DEF Promise!Dispatch, Promise!OldestOf
    <2> QED BY <2>1
  <1>4. CASE Promise!Deliver
    BY <1>4 DEF Promise!Deliver
  <1>5. CASE Promise!TakeBack
    <2>1. /\ Range(buffer') \subseteq Range(inflight) \cup lost \cup Range(buffer)
          /\ Range(inflight') \cup lost' = {}
          /\ delivered' = delivered
      BY <1>5 DEF Promise!TakeBack, Promise!Keep
    <2> QED BY <2>1
  <1> QED BY <1>1, <1>2, <1>3, <1>4, <1>5 DEF Promise!OutboxNext

\* Batches that come back from a failed request are put where they were: the
\* backend gets, and what is in flight and buffered keeps, the order of
\* submission.  That it does not overtake follows from the outbox alone.
THEOREM BatchesStayInOrder == ForwarderSpec => []InOrder
  <1>1. ForwarderInit => NoOvertaking
    <2>1. Range(<<>>) = {}
      BY DEF Range
    <2> QED BY <2>1 DEF ForwarderInit, NoOvertaking
  <1>2. ForwarderInv /\ NoOvertaking /\ [ForwarderNext]_forwarderVars => NoOvertaking'
    <2> SUFFICES ASSUME ForwarderInv, NoOvertaking, [ForwarderNext]_forwarderVars
                 PROVE  NoOvertaking'
      OBVIOUS
    <2>1. [Promise!OutboxNext]_Promise!outboxVars
      BY ForwarderStep
    <2>2. /\ Submitted \in Nat
          /\ buffer \in Seq(1 .. Submitted) /\ inflight \in Seq(1 .. Submitted)
          /\ delivered \subseteq 1 .. Submitted /\ lost \subseteq 1 .. Submitted
      BY DEF ForwarderInv, TypeOK, Submitted
    <2>3. Range(buffer) \subseteq 1 .. Submitted /\ Range(inflight) \subseteq 1 .. Submitted
      BY <2>2, QueueOver
    <2> QED BY <2>1, <2>2, <2>3, OutboxKeepsOrder
  <1>3. ForwarderInv /\ NoOvertaking => InOrder
    <2> SUFFICES ASSUME ForwarderInv, NoOvertaking PROVE InOrder
      OBVIOUS
    <2>1. Range(inflight \o buffer) = Range(inflight) \cup Range(buffer)
      <3>1. inflight \in Seq(Nat) /\ buffer \in Seq(Nat)
        BY QueuesInOrder DEF ForwarderInv
      <3> QED BY <3>1, RangeOfConcat
    <2> QED BY <2>1 DEF InOrder, ForwarderInv, NoOvertaking
  <1> QED BY <1>1, <1>2, <1>3, ForwarderInvariant, PTL DEF ForwarderSpec

\* Every submit and the shutdown reach a run that waits, whatever it had read
\* before it waited.
THEOREM NoWakeupIsLost == ForwarderSpec => []WakeupIsPending
  <1>1. ForwarderInv => WakeupIsPending
    BY DEF ForwarderInv
  <1> QED BY <1>1, ForwarderInvariant, PTL

\* No batch vanishes, is sent again after a 2xx, or is counted twice.
THEOREM BatchesAreNeverLostOrDoubled == ForwarderSpec => []EachBatchInOnePlace
  <1>1. ForwarderInv => EachBatchInOnePlace
    BY DEF ForwarderInv
  <1> QED BY <1>1, ForwarderInvariant, PTL

\* The ring buffer with its caps, retries and wakeups implements the outbox:
\* the oldest batches are sent first, whole requests are delivered or come
\* back, and only the oldest are dropped.
THEOREM ForwarderImplementsOutbox == ForwarderSpec => ImplementsOutbox
  <1>1. ForwarderInit => Promise!OutboxInit
    BY ForwarderInvInit
  <1>2. ForwarderInv /\ [ForwarderNext]_forwarderVars => [Promise!OutboxNext]_Promise!outboxVars
    BY ForwarderStep
  <1> QED BY <1>1, <1>2, ForwarderInvariant, PTL
      DEF ForwarderSpec, ImplementsOutbox, Promise!OutboxSpec

-----------------------------------------------------------------------------
(* What the batches weigh. *)

Weights(size, q) == [i \in DOMAIN q |-> size[q[i]]]

\* A queue is the two parts it is cut into, one after the other.
LEMMA CutIsConcat ==
    ASSUME NEW S, NEW q \in Seq(S), NEW n \in 0 .. Len(q)
    PROVE  /\ Front(q, n) \in Seq(S) /\ Rest(q, n) \in Seq(S)
           /\ q = Front(q, n) \o Rest(q, n)
  <1> DEFINE f == Front(q, n)
             r == Rest(q, n)
  <1>1. /\ f \in Seq(S) /\ Len(f) = n /\ \A i \in 1 .. n : f[i] = q[i]
        /\ r \in Seq(S) /\ Len(r) = Len(q) - n
        /\ \A i \in 1 .. (Len(q) - n) : r[i] = q[n + i]
    BY DEF Front, Rest
  <1> HIDE DEF f, r
  <1>2. /\ f \o r \in Seq(S) /\ Len(f \o r) = Len(f) + Len(r)
        /\ \A i \in 1 .. (Len(f) + Len(r)) :
              (f \o r)[i] = IF i <= Len(f) THEN f[i] ELSE r[i - Len(f)]
    BY <1>1, ConcatByIndex
  <1>3. ASSUME NEW i \in 1 .. Len(q) PROVE q[i] = (f \o r)[i]
    <2>1. (f \o r)[i] = IF i <= n THEN f[i] ELSE r[i - n]
      BY <1>1, <1>2
    <2>2. CASE i <= n
      BY <1>1, <2>1, <2>2
    <2>3. CASE i > n
      <3>1. PICK j \in 1 .. (Len(q) - n) : i = n + j /\ i - n = j
        BY <2>3
      <3>2. r[j] = q[n + j]
        BY <1>1
      <3>3. (f \o r)[i] = r[j]
        BY <2>1, <2>3, <3>1
      <3>4. q[i] = q[n + j]
        BY <3>1, Zenon
      <3> QED BY <3>2, <3>3, <3>4, Zenon
    <2>4. i <= n \/ i > n
      OBVIOUS
    <2> QED BY <2>2, <2>3, <2>4, Zenon
  <1>4. f \o r = q
    <2>1. Len(q) = Len(f \o r)
      BY <1>1, <1>2
    <2> QED BY <1>2, <1>3, <2>1, SameSequence
  <1> QED BY <1>1, <1>4 DEF f, r

\* What batches weigh together is a number.
LEMMA WeightsAreNumbers ==
    ASSUME NEW size \in Seq(Nat), NEW q \in Seq(1 .. Len(size))
    PROVE  /\ Weights(size, q) \in Seq(Nat)
           /\ Metrics(size, q) = SumFunction(Weights(size, q))
           /\ Metrics(size, q) \in Nat
  <1>1. \A i \in 1 .. Len(q) : size[q[i]] \in Nat
    OBVIOUS
  <1>2. Weights(size, q) \in Seq(Nat)
    BY <1>1 DEF Weights
  <1>3. Metrics(size, q) = SumFunction(Weights(size, q))
    BY DEF Metrics, Weights
  <1> QED BY <1>2, <1>3, SumOfSequence

\* No batch, no metric.
LEMMA MetricsOfEmpty == \A size : Metrics(size, <<>>) = 0
  <1>1. \A size : Weights(size, <<>>) = <<>>
    BY DEF Weights
  <1> QED BY <1>1, SumOfEmpty DEF Metrics, Weights

\* requeue: what is put in front of a queue adds its metrics to those of the queue.
LEMMA MetricsOfConcat ==
    ASSUME NEW size \in Seq(Nat), NEW p \in Seq(1 .. Len(size)), NEW q \in Seq(1 .. Len(size))
    PROVE  Metrics(size, p \o q) = Metrics(size, p) + Metrics(size, q)
  <1>1. p \o q \in Seq(1 .. Len(size))
    OBVIOUS
  <1>2. Weights(size, p \o q) = Weights(size, p) \o Weights(size, q)
    <2>1. /\ DOMAIN (p \o q) = 1 .. (Len(p) + Len(q))
          /\ DOMAIN p = 1 .. Len(p) /\ DOMAIN q = 1 .. Len(q)
          /\ \A i \in 1 .. Len(p) + Len(q) :
                (p \o q)[i] = IF i <= Len(p) THEN p[i] ELSE q[i - Len(p)]
      OBVIOUS
    <2>2. /\ Len(Weights(size, p)) = Len(p) /\ Len(Weights(size, q)) = Len(q)
          /\ Weights(size, p) \in Seq(Nat) /\ Weights(size, q) \in Seq(Nat)
      BY WeightsAreNumbers, <2>1 DEF Weights
    <2>3. /\ DOMAIN Weights(size, p \o q) = 1 .. (Len(p) + Len(q))
          /\ \A i \in 1 .. (Len(p) + Len(q)) :
                Weights(size, p \o q)[i] = IF i <= Len(p) THEN Weights(size, p)[i]
                                           ELSE Weights(size, q)[i - Len(p)]
      BY <2>1 DEF Weights
    <2>4. Weights(size, p \o q) \in Seq(Nat)
      BY <1>1, WeightsAreNumbers
    <2> DEFINE v == Weights(size, p)
               w == Weights(size, q)
               u == Weights(size, p \o q)
    <2>5. /\ v \in Seq(Nat) /\ Len(v) = Len(p) /\ w \in Seq(Nat) /\ Len(w) = Len(q)
          /\ u \in Seq(Nat) /\ Len(u) = Len(p) + Len(q)
          /\ \A i \in 1 .. (Len(p) + Len(q)) : u[i] = IF i <= Len(p) THEN v[i] ELSE w[i - Len(p)]
      BY <2>2, <2>3, <2>4
    <2> HIDE DEF u, v, w
    <2>6. /\ v \o w \in Seq(Nat) /\ Len(v \o w) = Len(v) + Len(w)
          /\ \A i \in 1 .. (Len(v) + Len(w)) :
                (v \o w)[i] = IF i <= Len(v) THEN v[i] ELSE w[i - Len(v)]
      <3>1. v \in Seq(Nat) /\ w \in Seq(Nat)
        BY <2>5
      <3> QED BY <3>1, ConcatByIndex
    <2>7. u = v \o w
      <3>1. Len(u) = Len(v \o w) /\ \A i \in 1 .. Len(u) : u[i] = (v \o w)[i]
        BY <2>5, <2>6
      <3> QED BY <2>5, <2>6, <3>1, SameSequence
    <2> QED BY <2>7 DEF u, v, w
  <1> QED BY <1>1, <1>2, WeightsAreNumbers, SumOfConcat

\* pop_front: what is popped and what is left weigh what the queue weighed.
LEMMA MetricsOfCut ==
    ASSUME NEW size \in Seq(Nat), NEW q \in Seq(1 .. Len(size)), NEW n \in 0 .. Len(q)
    PROVE  /\ Metrics(size, q) = Metrics(size, Front(q, n)) + Metrics(size, Rest(q, n))
           /\ Metrics(size, Front(q, n)) \in Nat /\ Metrics(size, Rest(q, n)) \in Nat
  <1>1. /\ Front(q, n) \in Seq(1 .. Len(size)) /\ Rest(q, n) \in Seq(1 .. Len(size))
        /\ q = Front(q, n) \o Rest(q, n)
    BY CutIsConcat
  <1> DEFINE f == Front(q, n)
             r == Rest(q, n)
  <1> HIDE DEF f, r
  <1>2. Metrics(size, f \o r) = Metrics(size, f) + Metrics(size, r)
    BY <1>1, MetricsOfConcat DEF f, r
  <1>3. Metrics(size, f) \in Nat /\ Metrics(size, r) \in Nat
    BY <1>1, WeightsAreNumbers DEF f, r
  <1> QED BY <1>1, <1>2, <1>3 DEF f, r

\* A batch that is submitted changes the weight of none before it.
LEMMA MetricsAfterSubmit ==
    ASSUME NEW size \in Seq(Nat), NEW n \in Nat, NEW q \in Seq(1 .. Len(size))
    PROVE  /\ Metrics(Append(size, n), q) = Metrics(size, q)
           /\ Metrics(Append(size, n), Append(q, Len(size) + 1)) = Metrics(size, q) + n
           /\ Append(q, Len(size) + 1) \in Seq(1 .. Len(Append(size, n)))
  <1> DEFINE more == Append(size, n)
             new == Len(size) + 1
  <1>1. /\ more \in Seq(Nat) /\ Len(more) = new /\ more[new] = n
        /\ \A i \in 1 .. Len(size) : more[i] = size[i]
    OBVIOUS
  <1>2. /\ DOMAIN q = 1 .. Len(q) /\ \A i \in 1 .. Len(q) : q[i] \in 1 .. Len(size)
        /\ q \in Seq(1 .. new) /\ Append(q, new) \in Seq(1 .. new)
    OBVIOUS
  <1>3. Weights(more, q) = Weights(size, q)
    <2> HIDE DEF more
    <2> QED BY <1>1, <1>2 DEF Weights
  <1>4. Weights(more, Append(q, new)) = Append(Weights(size, q), n)
    <2>1. /\ DOMAIN Append(q, new) = 1 .. (Len(q) + 1)
          /\ Append(q, new)[Len(q) + 1] = new
          /\ \A i \in 1 .. Len(q) : Append(q, new)[i] = q[i]
      OBVIOUS
    <2>2. Weights(size, q) \in Seq(Nat) /\ Len(Weights(size, q)) = Len(q)
      BY WeightsAreNumbers, <1>2 DEF Weights
    <2> HIDE DEF more, new
    <2> QED BY <1>1, <1>2, <2>1, <2>2 DEF Weights
  <1> HIDE DEF more, new
  <1>5. Metrics(more, q) = Metrics(size, q)
    BY <1>3 DEF Metrics, Weights
  <1>6. Metrics(more, Append(q, new)) = SumFunction(Append(Weights(size, q), n))
    BY <1>1, <1>2, <1>4, WeightsAreNumbers
  <1>7. SumFunction(Append(Weights(size, q), n)) = SumFunction(Weights(size, q)) + n
    BY WeightsAreNumbers, SumOfAppend
  <1> QED BY <1>1, <1>2, <1>5, <1>6, <1>7, WeightsAreNumbers DEF more, new

-----------------------------------------------------------------------------
(* The running total and the caps. *)

\* Each of the three is needed for the others: the caps are enforced on total_metrics.
SumsInv == TotalIsExact /\ BufferWithinCap /\ RequestWithinCap

\* TypeOK, as the lemmas on sums want it.
LEMMA SizesAreNumbers ==
    ASSUME TypeOK
    PROVE  /\ BufferMax \in Nat /\ sizes \in Seq(Nat)
           /\ buffer \in Seq(1 .. Len(sizes)) /\ inflight \in Seq(1 .. Len(sizes))
  <1>1. BatchSizes \subseteq Nat /\ BufferMax \in Nat
    BY ForwarderAssumption
  <1>2. sizes \in Seq(BatchSizes)
    BY DEF TypeOK
  <1>3. sizes \in Seq(Nat)
    BY <1>1, <1>2, QueueOver
  <1> QED BY <1>1, <1>3 DEF TypeOK, Submitted

\* Evictions stop as soon as what is left is within the cap, and total is brought down
\* by what they took.
LEMMA StoreIsExact ==
    ASSUME NEW q \in Seq(1 .. Len(sizes')), sizes' \in Seq(Nat),
           StoreWithinCap(sizes', q, Metrics(sizes', q)),
           BufferMax \in Nat
    PROVE  /\ total' = Metrics(sizes', buffer')
           /\ Metrics(sizes', buffer') <= BufferMax
  <1> DEFINE m(p) == Metrics(sizes', p)
  <1>1. PICK n \in 0 .. Len(q) : /\ OverflowPops(sizes', q, m(q), n)
                                 /\ buffer' = Rest(q, n)
                                 /\ total' = m(q) - m(Front(q, n))
    BY DEF StoreWithinCap
  <1>2. m(q) = m(Front(q, n)) + m(Rest(q, n)) /\ m(Front(q, n)) \in Nat /\ m(Rest(q, n)) \in Nat
    BY MetricsOfCut
  <1>3. total' = m(buffer')
    BY <1>1, <1>2
  <1>4. CASE n < Len(q)
    BY <1>1, <1>2, <1>3, <1>4 DEF OverflowPops
  <1>5. CASE n = Len(q)
    <2>1. Rest(q, n) = <<>>
      BY <1>5 DEF Rest
    <2> QED BY <1>1, <1>3, <2>1, MetricsOfEmpty
  <1> QED BY <1>3, <1>4, <1>5

\* At first there is nothing to count.
LEMMA SumsInitInv == ForwarderInit => SumsInv
  BY MetricsOfEmpty, ForwarderAssumption
  DEF ForwarderInit, SumsInv, TotalIsExact, BufferWithinCap, RequestWithinCap

\* What the buffer and the request weigh while the sizes stay.
LEMMA SumsStay ==
    ASSUME SumsInv, UNCHANGED <<sizes, buffer, total, inflight>>
    PROVE  SumsInv'
  BY DEF SumsInv, TotalIsExact, BufferWithinCap, RequestWithinCap, Metrics

\* submit: one batch more, and as many old ones less as the cap wants.
LEMMA SumsSubmit ==
    ASSUME TypeOK, SumsInv, NEW n \in BatchSizes, Submit(n)
    PROVE  SumsInv'
  <1> DEFINE q == Append(buffer, Submitted + 1)
  <1>1. n \in Nat /\ BufferMax \in Nat
    BY ForwarderAssumption
  <1>2. /\ sizes \in Seq(Nat) /\ buffer \in Seq(1 .. Len(sizes))
        /\ inflight \in Seq(1 .. Len(sizes))
    BY SizesAreNumbers
  <1>3. sizes' = Append(sizes, n) /\ inflight' = inflight
        /\ StoreWithinCap(sizes', q, total + n)
    BY DEF Submit
  <1>4. sizes' \in Seq(Nat)
    BY <1>1, <1>2, <1>3
  <1>5. q \in Seq(1 .. Len(sizes')) /\ Metrics(sizes', q) = Metrics(sizes, buffer) + n
    BY <1>1, <1>2, <1>3, MetricsAfterSubmit DEF Submitted
  <1>6. total + n = Metrics(sizes', q)
    BY <1>5 DEF SumsInv, TotalIsExact
  <1>7. Metrics(sizes', inflight') = Metrics(sizes, inflight)
    BY <1>1, <1>2, <1>3, MetricsAfterSubmit
  <1> HIDE DEF q
  <1>8. total' = Metrics(sizes', buffer') /\ Metrics(sizes', buffer') <= BufferMax
    BY <1>1, <1>3, <1>4, <1>5, <1>6, StoreIsExact
  <1> QED BY <1>3, <1>7, <1>8 DEF SumsInv, TotalIsExact, BufferWithinCap, RequestWithinCap

\* drain_and_send: what is popped is taken off the total, and fits into one request.
LEMMA SumsDrain ==
    ASSUME TypeOK, SumsInv, NEW awaiting, NEW returned, Drain(awaiting, returned), UNCHANGED sizes
    PROVE  SumsInv'
  <1>1. PICK n \in 0 .. Len(buffer) :
            /\ PopsForSend(n)
            /\ inflight' = Front(buffer, n)
            /\ buffer' = Rest(buffer, n)
            /\ total' = total - Metrics(sizes, Front(buffer, n))
    BY DEF Drain
  <1>2. sizes \in Seq(Nat) /\ buffer \in Seq(1 .. Len(sizes)) /\ BufferMax \in Nat
    BY SizesAreNumbers
  <1> DEFINE m(p) == Metrics(sizes, p)
  <1>3. /\ m(buffer) = m(Front(buffer, n)) + m(Rest(buffer, n))
        /\ m(Front(buffer, n)) \in Nat /\ m(Rest(buffer, n)) \in Nat
    BY <1>2, MetricsOfCut
  <1>4. total = m(buffer) /\ m(buffer) <= BufferMax
    BY DEF SumsInv, TotalIsExact, BufferWithinCap
  <1>5. Metrics(sizes', buffer') = m(Rest(buffer, n)) /\ Metrics(sizes', inflight') = m(Front(buffer, n))
    BY <1>1
  <1>6. TotalIsExact' /\ BufferWithinCap'
    BY <1>1, <1>2, <1>3, <1>4, <1>5 DEF TotalIsExact, BufferWithinCap
  <1>7. RequestWithinCap'
    <2> SUFFICES ASSUME n > 1 PROVE m(Front(buffer, n)) <= RequestMax
      <3>1. Len(inflight') = n
        BY <1>1, <1>2, CutQueue
      <3> QED BY <1>5, <3>1 DEF RequestWithinCap
    <2>1. n - 1 \in 1 .. (n - 1) /\ (n - 1) + 1 = n
      OBVIOUS
    <2>2. m(Front(buffer, (n - 1) + 1)) <= RequestMax
      BY <1>1, <2>1 DEF PopsForSend
    <2> QED BY <2>1, <2>2
  <1> QED BY <1>6, <1>7 DEF SumsInv

\* A request that failed is added to a buffer that may have filled up since.
LEMMA SumsFailed ==
    ASSUME TypeOK, SumsInv, Failed
    PROVE  SumsInv'
  <1> DEFINE q == inflight \o buffer
  <1>1. /\ sizes \in Seq(Nat) /\ buffer \in Seq(1 .. Len(sizes)) /\ BufferMax \in Nat
        /\ inflight \in Seq(1 .. Len(sizes))
    BY SizesAreNumbers
  <1>2. /\ sizes' = sizes /\ inflight' = << >>
        /\ StoreWithinCap(sizes, q, total + Metrics(sizes, inflight))
    BY DEF Failed
  <1>3. q \in Seq(1 .. Len(sizes)) /\ Metrics(sizes, q) = Metrics(sizes, inflight) + Metrics(sizes, buffer)
    BY <1>1, MetricsOfConcat
  <1>4. total + Metrics(sizes, inflight) = Metrics(sizes, q)
    <2>1. Metrics(sizes, inflight) \in Nat /\ Metrics(sizes, buffer) \in Nat
      BY <1>1, WeightsAreNumbers
    <2> QED BY <1>3, <2>1 DEF SumsInv, TotalIsExact
  <1> HIDE DEF q
  <1>5. total' = Metrics(sizes', buffer') /\ Metrics(sizes', buffer') <= BufferMax
    BY <1>1, <1>2, <1>3, <1>4, StoreIsExact
  <1>6. Len(inflight') = 0
    BY <1>2
  <1> QED BY <1>5, <1>6 DEF SumsInv, TotalIsExact, BufferWithinCap, RequestWithinCap

\* No step lets the total or a cap go wrong.
LEMMA SumsStep == ForwarderInv /\ SumsInv /\ [ForwarderNext]_forwarderVars => SumsInv'
  <1> SUFFICES ASSUME TypeOK, SumsInv, [ForwarderNext]_forwarderVars
               PROVE  SumsInv'
    BY DEF ForwarderInv
  <1>1. ASSUME NEW n \in BatchSizes, Submit(n) PROVE SumsInv'
    BY <1>1, SumsSubmit
  <1>2. CASE Flush
    BY <1>2, SumsDrain DEF Flush
  <1>3. CASE Send
    BY <1>3, SumsDrain DEF Send
  <1>4. CASE Failed
    BY <1>4, SumsFailed
  <1>5. CASE Delivered \/ BodyStillHeld
    <2>1. UNCHANGED <<sizes, buffer, total>> /\ inflight' = <<>>
      BY <1>5 DEF Delivered, BodyStillHeld, state
    <2>2. Len(inflight') = 0
      BY <2>1
    <2> QED BY <2>1, <2>2 DEF SumsInv, TotalIsExact, BufferWithinCap, RequestWithinCap
  <1>6. CASE Shutdown \/ AwaitData \/ AwaitBackoff \/ Notified \/ Cool
             \/ UNCHANGED forwarderVars
    <2>1. UNCHANGED <<sizes, buffer, total, inflight>>
      BY <1>6 DEF Shutdown, AwaitData, AwaitBackoff, Notified, Cool, forwarderVars, state
    <2> QED BY <2>1, SumsStay
  <1> QED BY <1>1, <1>2, <1>3, <1>4, <1>5, <1>6 DEF ForwarderNext, Run, Respond

\* All three hold for ever, whatever is submitted, fails or is dropped.
THEOREM SumsInvariant == ForwarderSpec => []SumsInv
  <1>1. ForwarderInit => SumsInv
    BY SumsInitInv
  <1>2. ForwarderInv /\ SumsInv /\ [ForwarderNext]_forwarderVars => SumsInv'
    BY SumsStep
  <1> QED BY <1>1, <1>2, ForwarderInvariant, PTL DEF ForwarderSpec

\* total_metrics, added to and taken from by submit, requeue, pop_for_send and the
\* eviction loop, is at any time the number of metrics in the buffer.
THEOREM TotalNeverDrifts == ForwarderSpec => []TotalIsExact
  <1>1. SumsInv => TotalIsExact
    BY DEF SumsInv
  <1> QED BY <1>1, SumsInvariant, PTL

\* The buffer is never over buffer_max_metrics, whatever is submitted while a request
\* is out and comes back.
THEOREM BufferStaysBounded == ForwarderSpec => []BufferWithinCap
  <1>1. SumsInv => BufferWithinCap
    BY DEF SumsInv
  <1> QED BY <1>1, SumsInvariant, PTL

\* A request of more than one batch has at most request_max_metrics.
THEOREM RequestsStayBounded == ForwarderSpec => []RequestWithinCap
  <1>1. SumsInv => RequestWithinCap
    BY DEF SumsInv
  <1> QED BY <1>1, SumsInvariant, PTL
=============================================================================
