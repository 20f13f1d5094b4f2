--------------------------- MODULE CollectorsProofs ---------------------------
(***************************************************************************)
(* The Unix collector and the scraper, for any set of mounts, any number   *)
(* of threads of the pool and all timeouts.  Which mount stands for a      *)
(* device is the result of a fold over the table of mounts; what it is     *)
(* for tables of any length is shown by induction over their lines.        *)
(***************************************************************************)
EXTENDS Collectors, FoldLemmas

-----------------------------------------------------------------------------
(* The scraper. *)

\* How much of max_runtime has been used up before the request is sent is at most the
\* skew; from then on both timers run alike, so the client's is never behind the
\* scheduler's.
ScraperInv ==
    /\ setting \in Settings
    /\ stage \in {"idle", "starting", "waiting"}
    /\ requestLeft \in Nat
    /\ tickLeft \in Nat
    /\ stage = "starting" => setting.maxRuntime <= tickLeft + MaxSkew
    /\ (setting.scrapeTimeout + MaxSkew <= setting.maxRuntime /\ stage = "waiting") =>
          requestLeft <= tickLeft
    /\ HealthEveryTick

\* No tick is on at first.
LEMMA ScraperInitInv == ScraperInit => ScraperInv
BY ScraperAssumption DEF ScraperInit, ScraperInv, HealthEveryTick

\* Nor does any step let the client's timer fall behind.
LEMMA ScraperStepInv == ScraperInv /\ [ScraperNext]_scraperVars => ScraperInv'
<1> SUFFICES ASSUME ScraperInv, [ScraperNext]_scraperVars
             PROVE  ScraperInv'
    OBVIOUS
<1>1. MaxSkew \in Nat /\ setting.scrapeTimeout \in Nat /\ setting.maxRuntime \in Nat
      BY ScraperAssumption DEF ScraperInv
<1> USE DEF ScraperInv, HealthEveryTick
<1>2. CASE StartScrape
      BY <1>1, <1>2 DEF StartScrape
\* What is left of the tick is max_runtime without the skew at least.
<1>3. CASE SendRequest
      BY <1>1, <1>3 DEF SendRequest
<1>4. CASE TimePasses
      BY <1>1, <1>4 DEF TimePasses, Lower
<1>5. CASE Scraped
      BY <1>1, <1>5 DEF Scraped, EndScrape
<1>6. CASE ScrapeFailed
      BY <1>1, <1>6 DEF ScrapeFailed, EndScrape
\* The request would have to have time left when the tick has none.
<1>7. CASE DropScrape
      BY <1>1, <1>7 DEF DropScrape, EndScrape
<1>8. CASE UNCHANGED scraperVars
      BY <1>8 DEF scraperVars
<1> QED
    BY <1>2, <1>3, <1>4, <1>5, <1>6, <1>7, <1>8 DEF ScraperNext

\* For any timeouts and any bound on what lies between the starts of the two timers:
\* if max_runtime exceeds scrape_timeout by that much, no behaviour of the target makes
\* the scheduler drop a tick, and each tick reports `up'.
THEOREM ScrapesAreReported == ScraperSpec => []HealthEveryTick
<1>1. ScraperInv => HealthEveryTick
      BY DEF ScraperInv
<1> QED
    BY ScraperInitInv, ScraperStepInv, <1>1, PTL DEF ScraperSpec

-----------------------------------------------------------------------------
(* The choice among the mounts of a device. *)

Devs == {m.dev : m \in Mounts}

\* The tables by device that filesystem::collect builds.
ByDevs == UNION {[S -> Mounts] : S \in SUBSET Devs}

\* What one line of the table does to what was chosen before it.
LEMMA KeepCanonicalType ==
    ASSUME NEW byDev \in ByDevs, NEW m \in Mounts
    PROVE  /\ KeepCanonical(byDev, m) \in ByDevs
           /\ DOMAIN KeepCanonical(byDev, m) = DOMAIN byDev \cup {m.dev}
           /\ \A d \in DOMAIN KeepCanonical(byDev, m) :
                 KeepCanonical(byDev, m)[d] =
                     IF d = m.dev /\ (d \in DOMAIN byDev => IsMoreCanonical(m, byDev[d]))
                     THEN m ELSE byDev[d]
  <1>1. PICK S \in SUBSET Devs : byDev \in [S -> Mounts]
    BY DEF ByDevs
  <1>2. S \cup {m.dev} \in SUBSET Devs
    BY DEF Devs
  <1>3. CASE m.dev \in S /\ ~IsMoreCanonical(m, byDev[m.dev])
    BY <1>1, <1>3 DEF KeepCanonical
  <1>4. CASE ~(m.dev \in S /\ ~IsMoreCanonical(m, byDev[m.dev]))
    <2>1. KeepCanonical(byDev, m) =
             [d \in S \cup {m.dev} |-> IF d = m.dev THEN m ELSE byDev[d]]
      BY <1>1, <1>4 DEF KeepCanonical
    <2>2. KeepCanonical(byDev, m) \in [S \cup {m.dev} -> Mounts]
      BY <1>1, <2>1
    <2> QED BY <1>1, <1>2, <1>4, <2>1, <2>2 DEF ByDevs
  <1> QED BY <1>3, <1>4

\* FoldLeft takes one element after the other.
LEMMA LeftFold ==
    ASSUME NEW n \in Nat, NEW q \in [1 .. n -> Mounts]
    PROVE  \E byDev \in [0 .. n -> ByDevs] :
              /\ byDev[0] = << >>
              /\ \A k \in 1 .. n : byDev[k] = KeepCanonical(byDev[k - 1], q[k])
              /\ FoldLeft(KeepCanonical, << >>, q) = byDev[n]
  <1> DEFINE D == 1 .. n
             pick == [s \in SUBSET D |-> Max(s)]
             step == [p \in D \X ByDevs |-> KeepCanonical(p[2], q[p[1]])]
             IsIter(it) == it = [s \in SUBSET D |->
                                    IF s = {} THEN << >> ELSE KeepCanonical(it[s \ {Max(s)}], q[Max(s)])]
             iter == CHOOSE it : IsIter(it)
  <1>1. FoldLeft(KeepCanonical, << >>, q) = iter[D]
    BY DEF FoldLeft, MapThenFoldSet
  <1>2. IsFiniteSet(D) /\ n \in Nat
    BY FS_Interval
  <1>3. ASSUME NEW s \in SUBSET D, s # {}
        PROVE  Max(s) \in s /\ \A k \in s : Max(s) >= k
    <2>1. \E m \in s : \A k \in s : m >= k
      BY <1>2, <1>3, GreatestNumber
    <2> QED BY <2>1 DEF Max
  <1>4. << >> \in ByDevs
    <2>1. << >> \in [{} -> Mounts] /\ {} \in SUBSET Devs
      OBVIOUS
    <2> QED BY <2>1 DEF ByDevs
  <1>5. PicksFrom(D, pick)
    BY <1>3 DEF PicksFrom
  <1>6. step \in [D \X ByDevs -> ByDevs]
    BY KeepCanonicalType
  <1>7. PICK it \in [SUBSET D -> ByDevs] : IsFold(it, D, << >>, pick, step)
    <2> HIDE DEF pick, step, D
    <2> QED BY <1>2, <1>4, <1>5, <1>6, FoldExists
  <1>8. IsIter(it)
    <2>1. ASSUME NEW s \in SUBSET D, s # {}
          PROVE  step[<<pick[s], it[s \ {pick[s]}]>>] = KeepCanonical(it[s \ {Max(s)}], q[Max(s)])
      <3>1. pick[s] = Max(s) /\ Max(s) \in D /\ it[s \ {Max(s)}] \in ByDevs
        BY <1>3, <2>1
      <3> HIDE DEF pick
      <3> QED BY <3>1
    <2> HIDE DEF pick, step
    <2> QED BY <1>7, <2>1 DEF IsFold
  <1>9. IsIter(iter)
    <2> HIDE DEF IsIter
    <2> QED BY <1>8
  <1> HIDE DEF iter
  <1>10. /\ iter[{}] = << >>
         /\ \A s \in SUBSET D :
               s # {} => iter[s] = KeepCanonical(iter[s \ {Max(s)}], q[Max(s)])
    BY <1>9
  <1> HIDE DEF IsIter
  <1> DEFINE byDev == [k \in 0 .. n |-> iter[1 .. k]]
  <1>11. ASSUME NEW k \in 1 .. n
         PROVE  /\ 1 .. k \in SUBSET D /\ 1 .. k # {}
                /\ Max(1 .. k) = k /\ (1 .. k) \ {k} = 1 .. (k - 1)
    <2>1. 1 .. k \in SUBSET D /\ k \in 1 .. k
      OBVIOUS
    <2>2. Max(1 .. k) \in 1 .. k /\ Max(1 .. k) >= k
      BY <1>3, <2>1
    <2> QED BY <2>1, <2>2
  <1>12. byDev[0] = << >>
    <2>1. 1 .. 0 = {}
      OBVIOUS
    <2> QED BY <1>10, <2>1
  <1>13. ASSUME NEW k \in 1 .. n PROVE byDev[k] = KeepCanonical(byDev[k - 1], q[k])
    <2>1. iter[1 .. k] = KeepCanonical(iter[1 .. (k - 1)], q[k])
      BY <1>10, <1>11
    <2>2. k \in 0 .. n /\ k - 1 \in 0 .. n
      OBVIOUS
    <2>3. byDev[k] = iter[1 .. k] /\ byDev[k - 1] = iter[1 .. (k - 1)]
      BY <2>2
    <2> HIDE DEF byDev
    <2> QED BY <2>1, <2>3
  <1>14. byDev[n] = iter[D]
    OBVIOUS
  <1>15. byDev \in [0 .. n -> ByDevs]
    <2> DEFINE Good == {k \in Nat : k <= n => byDev[k] \in ByDevs}
    <2>1. 0 \in Good
      BY <1>4, <1>12
    <2>2. ASSUME NEW k \in Good PROVE k + 1 \in Good
      <3>1. ASSUME k + 1 <= n PROVE byDev[k + 1] \in ByDevs
        <4>1. k + 1 \in 1 .. n /\ (k + 1) - 1 = k /\ byDev[k] \in ByDevs
          BY <3>1
        <4>2. byDev[k + 1] = KeepCanonical(byDev[k], q[k + 1])
          BY <1>13, <4>1
        <4> HIDE DEF byDev
        <4>3. q[k + 1] \in Mounts
          BY <4>1
        <4> QED BY <4>1, <4>2, <4>3, KeepCanonicalType
      <3> QED BY <3>1
    <2>3. Good = Nat
      <3>1. Good \in SUBSET Nat
        OBVIOUS
      <3> HIDE DEF Good
      <3> QED BY <2>1, <2>2, <3>1, SetInduction
    <2>4. ASSUME NEW k \in 0 .. n PROVE byDev[k] \in ByDevs
      <3>1. k \in Good
        <4> HIDE DEF Good
        <4> QED BY <2>3
      <3> QED BY <3>1
    <2>5. \A k \in 0 .. n : byDev[k] \in ByDevs
      BY <2>4
    <2>6. byDev = [k \in 0 .. n |-> byDev[k]]
      OBVIOUS
    <2> HIDE DEF byDev
    <2> QED BY <2>5, <2>6
  <1> HIDE DEF byDev
  <1> QED BY <1>1, <1>12, <1>13, <1>14, <1>15

\* After some lines, each device seen has the most canonical of its mounts.
HasMostCanonical(byDev, seen) ==
    /\ DOMAIN byDev = {m.dev : m \in seen}
    /\ \A d \in DOMAIN byDev : /\ byDev[d] \in seen
                               /\ byDev[d].dev = d
    /\ \A m \in seen : ~IsMoreCanonical(m, byDev[m.dev])

\* KeepCanonical adds a line to what was seen.
LEMMA KeepsMostCanonical ==
    ASSUME NEW byDev \in ByDevs, NEW seen \in SUBSET Mounts, NEW m \in Mounts,
           HasMostCanonical(byDev, seen)
    PROVE  HasMostCanonical(KeepCanonical(byDev, m), seen \cup {m})
  <1> DEFINE next == KeepCanonical(byDev, m)
             takes == m.dev \in DOMAIN byDev => IsMoreCanonical(m, byDev[m.dev])
  <1>1. /\ DOMAIN next = DOMAIN byDev \cup {m.dev}
        /\ \A d \in DOMAIN next : next[d] = IF d = m.dev /\ takes THEN m ELSE byDev[d]
    BY KeepCanonicalType
  <1>2. DOMAIN byDev = {n.dev : n \in seen}
    BY DEF HasMostCanonical
  <1>3. \A d \in DOMAIN byDev : byDev[d] \in seen /\ byDev[d].dev = d
    BY DEF HasMostCanonical
  <1>4. \A n \in seen : ~IsMoreCanonical(n, byDev[n.dev])
    BY DEF HasMostCanonical
  <1> HIDE DEF next
  <1>5. DOMAIN next = {n.dev : n \in seen \cup {m}}
    BY <1>1, <1>2
  <1>6. ASSUME NEW d \in DOMAIN next PROVE next[d] \in seen \cup {m} /\ next[d].dev = d
    BY <1>1, <1>3
  <1>7. ASSUME NEW n \in seen \cup {m} PROVE ~IsMoreCanonical(n, next[n.dev])
    <2>1. n.dev \in DOMAIN next /\ (n \in seen => n.dev \in DOMAIN byDev)
      BY <1>2, <1>5
    <2>2. CASE n.dev = m.dev /\ takes
      <3>1. next[n.dev] = m
        BY <1>1, <2>1, <2>2
      <3>2. CASE n = m
        BY <3>1, <3>2, UnixAssumption DEF IsMoreCanonical
      <3>3. CASE n \in seen
        <4> DEFINE o == byDev[m.dev]
        <4>1. o \in Mounts /\ IsMoreCanonical(m, o) /\ ~IsMoreCanonical(n, o)
          BY <1>3, <1>4, <2>1, <2>2, <3>3
        <4> HIDE DEF o
        <4> QED BY <3>1, <3>3, <4>1, UnixAssumption DEF IsMoreCanonical
      <3> QED BY <3>2, <3>3
    <2>3. CASE ~(n.dev = m.dev /\ takes)
      <3>1. next[n.dev] = byDev[n.dev]
        BY <1>1, <2>1, <2>3
      <3>2. CASE n \in seen
        BY <1>4, <3>1, <3>2
      <3>3. CASE n = m
        BY <2>3, <3>1, <3>3
      <3> QED BY <3>2, <3>3
    <2> QED BY <2>2, <2>3
  <1> QED BY <1>5, <1>6, <1>7 DEF HasMostCanonical, next

\* And so, by induction over its lines, for the whole table.
LEMMA FoldHasMostCanonical ==
    ASSUME NEW n \in Nat, NEW q \in [1 .. n -> Mounts]
    PROVE  HasMostCanonical(FoldLeft(KeepCanonical, << >>, q), Range(q))
  <1>1. PICK byDev \in [0 .. n -> ByDevs] :
              /\ byDev[0] = << >>
              /\ \A k \in 1 .. n : byDev[k] = KeepCanonical(byDev[k - 1], q[k])
              /\ FoldLeft(KeepCanonical, << >>, q) = byDev[n]
    BY LeftFold
  <1> DEFINE Seen(k) == {q[i] : i \in 1 .. k}
             Good == {k \in Nat : k <= n => HasMostCanonical(byDev[k], Seen(k))}
  <1>2. 0 \in Good
    <2>1. Seen(0) = {} /\ DOMAIN byDev[0] = {}
      BY <1>1
    <2> HIDE DEF Seen
    <2> QED BY <2>1 DEF HasMostCanonical
  <1>3. ASSUME NEW k \in Good PROVE k + 1 \in Good
    <2> SUFFICES ASSUME k + 1 <= n PROVE HasMostCanonical(byDev[k + 1], Seen(k + 1))
      OBVIOUS
    <2>1. /\ k + 1 \in 1 .. n /\ (k + 1) - 1 = k /\ k \in 0 .. n
          /\ byDev[k] \in ByDevs /\ HasMostCanonical(byDev[k], Seen(k))
      OBVIOUS
    <2>2. byDev[k + 1] = KeepCanonical(byDev[k], q[k + 1])
      BY <1>1, <2>1
    <2>3. Seen(k) \in SUBSET Mounts /\ q[k + 1] \in Mounts
      BY <2>1
    <2>4. Seen(k + 1) = Seen(k) \cup {q[k + 1]}
      OBVIOUS
    <2> HIDE DEF Seen
    <2> QED BY <2>1, <2>2, <2>3, <2>4, KeepsMostCanonical
  <1>4. Good = Nat
    <2>1. Good \in SUBSET Nat
      OBVIOUS
    <2> HIDE DEF Good
    <2> QED BY <1>2, <1>3, <2>1, SetInduction
  <1>5. HasMostCanonical(byDev[n], Seen(n))
    <2>1. n \in Good
      BY <1>4
    <2> QED BY <2>1
  <1>6. Range(q) = Seen(n)
    BY DEF Range
  <1> QED BY <1>1, <1>5, <1>6

\* The most canonical mounts of a table are those that CanonicalIsStable wants.
LEMMA MostCanonicalIsStable ==
    ASSUME table \in Tables
    PROVE  CanonicalIsStable
  <1>1. PICK n \in 0 .. MaxMounts : table \in [1 .. n -> Mounts]
    BY DEF Tables, BoundedSeq, SeqOf
  <1>2. n \in Nat
    BY UnixAssumption
  <1> DEFINE byDev == FoldLeft(KeepCanonical, << >>, table)
  <1>3. HasMostCanonical(byDev, Range(table))
    BY <1>1, <1>2, FoldHasMostCanonical
  <1>4. Range(table) \subseteq Mounts
    BY <1>1 DEF Range
  <1>5. Dedupe => Candidates = Range(byDev)
    BY DEF Candidates
  <1> HIDE DEF byDev
  <1> SUFFICES ASSUME Dedupe, NEW m \in Range(table)
               PROVE  LET same == {k \in Range(table) : k.dev = m.dev}
                          whole == {k \in same : k.root}
                          best == IF whole = {} THEN same ELSE whole
                      IN  \E c \in best : /\ Candidates \cap same = {c}
                                          /\ \A k \in best : c.point <= k.point
    BY DEF CanonicalIsStable
  <1> DEFINE same == {k \in Range(table) : k.dev = m.dev}
             whole == {k \in same : k.root}
             best == IF whole = {} THEN same ELSE whole
             c == byDev[m.dev]
  <1>6. m.dev \in DOMAIN byDev /\ c \in Range(table) /\ c.dev = m.dev
    BY <1>3 DEF HasMostCanonical
  <1>7. \A k \in same : ~IsMoreCanonical(k, c)
    BY <1>3 DEF HasMostCanonical
  <1>8. c \in same /\ same \subseteq Mounts
    BY <1>4, <1>6
  <1>9. Candidates \cap same = {c}
    <2>1. c \in Range(byDev)
      BY <1>6 DEF Range
    <2>2. ASSUME NEW k \in Range(byDev), k \in same PROVE k = c
      <3>1. PICK d \in DOMAIN byDev : k = byDev[d]
        BY DEF Range
      <3>2. k.dev = d
        BY <1>3, <3>1 DEF HasMostCanonical
      <3> QED BY <2>2, <3>1, <3>2
    <2> HIDE DEF same, c
    <2> QED BY <1>5, <1>8, <2>1, <2>2
  <1> HIDE DEF same, c
  <1>10. c \in best
    <2>1. ASSUME NEW k \in whole PROVE c.root
      <3>1. c \in Mounts /\ k \in Mounts /\ k.root /\ ~IsMoreCanonical(k, c)
        BY <1>7, <1>8
      <3> QED BY <3>1, UnixAssumption, Zenon DEF IsMoreCanonical
    <2> QED BY <1>8, <2>1
  <1>11. ASSUME NEW k \in best PROVE c.point <= k.point
    <2>1. k \in same
      OBVIOUS
    <2>2. c \in Mounts /\ k \in Mounts /\ ~IsMoreCanonical(k, c)
      BY <1>7, <1>8, <2>1
    <2>3. ~k.root => ~c.root
      BY <1>10, <2>1
    <2>4. k.root = c.root \/ (c.root /\ ~k.root)
      BY <2>2, UnixAssumption DEF IsMoreCanonical
    <2>5. k.root = c.root
      BY <2>3, <2>4
    <2>6. ~(k.point < c.point)
      BY <2>2, <2>5 DEF IsMoreCanonical
    <2>7. k.point \in Nat /\ c.point \in Nat
      BY <2>2, UnixAssumption
    <2> QED BY <2>6, <2>7
  <1> QED BY <1>9, <1>10, <1>11 DEF same, c

-----------------------------------------------------------------------------
(* The tick and the pool. *)

\* The model has one table for ever.
LEMMA TableNeverChanges == [UnixNext]_unixVars => UNCHANGED table
  BY DEF UnixNext, Hang, Heal, BreakOrRepair, StartTick, JobDone, DropTick, unixVars

\* Only lines of the table are candidates.
LEMMA CandidatesAreMounts ==
    ASSUME table \in Tables
    PROVE  Candidates \subseteq Range(table) /\ Range(table) \subseteq Mounts
  <1>1. PICK n \in 0 .. MaxMounts : table \in [1 .. n -> Mounts]
    BY DEF Tables, BoundedSeq, SeqOf
  <1>2. n \in Nat
    BY UnixAssumption
  <1>3. Range(table) \subseteq Mounts
    BY <1>1 DEF Range
  <1> DEFINE byDev == FoldLeft(KeepCanonical, << >>, table)
  <1>4. HasMostCanonical(byDev, Range(table))
    BY <1>1, <1>2, FoldHasMostCanonical
  <1>5. Candidates = IF Dedupe THEN Range(byDev) ELSE Range(table)
    BY DEF Candidates
  <1> HIDE DEF byDev
  <1>6. Range(byDev) \subseteq Range(table)
    BY <1>4 DEF HasMostCanonical, Range
  <1> QED BY <1>3, <1>5, <1>6

\* BoundedSeq by the length of a sequence.
LEMMA BoundedQueue ==
    ASSUME NEW S, NEW n \in Nat, NEW q
    PROVE  q \in BoundedSeq(S, n) <=> q \in Seq(S) /\ Len(q) <= n
  <1>1. ASSUME q \in BoundedSeq(S, n) PROVE q \in Seq(S) /\ Len(q) <= n
    <2>1. PICK m \in 0 .. n : q \in [1 .. m -> S]
      BY <1>1 DEF BoundedSeq, SeqOf
    <2>2. q \in Seq(S) /\ Len(q) = m
      BY <2>1
    <2> QED BY <2>2
  <1>2. ASSUME q \in Seq(S), Len(q) <= n PROVE q \in BoundedSeq(S, n)
    <2>1. Len(q) \in 0 .. n /\ q \in [1 .. Len(q) -> S]
      BY <1>2
    <2> QED BY <2>1 DEF BoundedSeq, SeqOf
  <1> QED BY <1>1, <1>2

\* What is removed is missing, and no more.
LEMMA RemoveOne ==
    ASSUME NEW S, NEW q \in Seq(S), NEW i \in 1 .. Len(q)
    PROVE  RemoveAt(q, i) \in Seq(S) /\ Len(RemoveAt(q, i)) = Len(q) - 1
  <1> DEFINE f == SubSeq(q, 1, i - 1)
             r == SubSeq(q, i + 1, Len(q))
  <1>1. /\ f \in Seq(S) /\ Len(f) = i - 1
        /\ r \in Seq(S) /\ Len(r) = Len(q) - i
    OBVIOUS
  <1>2. RemoveAt(q, i) = f \o r
    BY DEF RemoveAt
  <1> HIDE DEF f, r
  <1>3. f \o r \in Seq(S) /\ Len(f \o r) = Len(f) + Len(r)
    BY <1>1, ConcatByIndex
  <1> QED BY <1>1, <1>2, <1>3

\* The pool takes one job more.
LEMMA SpawnKeepsBound ==
    ASSUME NEW pool \in BoundedSeq(Points, MaxJobs), NEW m \in Mounts
    PROVE  Spawn(pool, m) \in BoundedSeq(Points, MaxJobs) /\ Len(Spawn(pool, m)) > 0
  <1>1. pool \in Seq(Points) /\ Len(pool) <= MaxJobs /\ m.point \in Points
    BY UnixAssumption, BoundedQueue DEF Points
  <1> DEFINE kept == IF Len(pool) < MaxJobs THEN pool ELSE RemoveAt(pool, PoolSize + 1)
  <1>2. kept \in Seq(Points) /\ Len(kept) + 1 <= MaxJobs
    <2>1. CASE Len(pool) < MaxJobs
      BY <1>1, <2>1, UnixAssumption
    <2>2. CASE ~(Len(pool) < MaxJobs)
      <3>1. Len(pool) = MaxJobs /\ PoolSize + 1 \in 1 .. Len(pool)
        BY <1>1, <2>2, UnixAssumption
      <3>2. kept = RemoveAt(pool, PoolSize + 1)
        BY <2>2
      <3>3. kept \in Seq(Points) /\ Len(kept) = Len(pool) - 1
        BY <1>1, <3>1, <3>2, RemoveOne
      <3> QED BY <1>1, <3>1, <3>3, UnixAssumption
    <2> QED BY <2>1, <2>2
  <1> HIDE DEF kept
  <1>3. Append(kept, m.point) \in Seq(Points) /\ Len(Append(kept, m.point)) = Len(kept) + 1
    BY <1>1, <1>2
  <1>4. Spawn(pool, m) = Append(kept, m.point)
    BY DEF Spawn, kept
  <1>5. Len(kept) \in Nat /\ MaxJobs \in Nat
    BY <1>2, UnixAssumption
  <1> DEFINE more == Append(kept, m.point)
  <1> HIDE DEF more
  <1>6. more \in Seq(Points) /\ Len(more) <= MaxJobs /\ Len(more) > 0
    BY <1>2, <1>3, <1>5 DEF more
  <1>7. more \in BoundedSeq(Points, MaxJobs)
    BY <1>5, <1>6, BoundedQueue
  <1> QED BY <1>4, <1>6, <1>7 DEF more

\* A tick that ends awaits nothing.
LEMMA EndTickType ==
    ASSUME NEW result \in {"returned", "failed", "aborted"}, EndTick(result),
           Len(jobs') \in Nat
    PROVE  /\ collecting' \in BOOLEAN
           /\ todo' \subseteq Candidates'
           /\ awaited' \in 0 .. Len(jobs')
           /\ collecting' <=> awaited' # 0
           /\ outcome' \in {"none", "returned", "failed", "aborted"}
  <1>1. /\ collecting' = FALSE /\ todo' = {} /\ awaited' = 0 /\ outcome' = result
    BY DEF EndTick
  <1>2. collecting' \in BOOLEAN /\ (collecting' <=> awaited' # 0)
    BY <1>1
  <1>3. todo' \subseteq Candidates' /\ awaited' \in 0 .. Len(jobs')
    BY <1>1
  <1>4. outcome' \in {"none", "returned", "failed", "aborted"}
    BY <1>1
  <1> QED BY <1>2, <1>3, <1>4, Zenon

\* One that goes on awaits the call that it has just made.
LEMMA GoOnType ==
    ASSUME NEW pool \in BoundedSeq(Points, MaxJobs), NEW rest \in SUBSET Candidates,
           table \in Tables, GoOn(pool, rest), UNCHANGED table
    PROVE  /\ jobs' \in BoundedSeq(Points, MaxJobs)
           /\ collecting' \in BOOLEAN
           /\ todo' \subseteq Candidates'
           /\ awaited' \in 0 .. Len(jobs')
           /\ collecting' <=> awaited' # 0
           /\ outcome' \in {"none", "returned", "failed", "aborted"}
  <1>1. Candidates' = Candidates
    BY DEF Candidates
  <1>2. CASE \E m \in rest : /\ collecting' = TRUE
                             /\ todo' = rest \ {m}
                             /\ jobs' = Spawn(pool, m)
                             /\ awaited' = Len(jobs')
                             /\ outcome' = "none"
    <2>1. PICK m \in rest : /\ collecting' = TRUE
                            /\ todo' = rest \ {m}
                            /\ jobs' = Spawn(pool, m)
                            /\ awaited' = Len(jobs')
                            /\ outcome' = "none"
      BY <1>2
    <2>2. m \in Mounts
      BY CandidatesAreMounts
    <2>3. jobs' \in BoundedSeq(Points, MaxJobs) /\ Len(jobs') > 0
      BY <2>1, <2>2, SpawnKeepsBound
    <2>4. Len(jobs') \in Nat
      BY <2>3, UnixAssumption, BoundedQueue
    <2> QED BY <1>1, <2>1, <2>3, <2>4
  <1>3. CASE /\ rest = {}
             /\ jobs' = pool
             /\ EndTick("returned") \/ (broken /\ EndTick("failed"))
    <2>1. Len(jobs') \in Nat
      <3>1. jobs' \in Seq(Points)
        BY <1>3, UnixAssumption, BoundedQueue
      <3> QED BY <3>1
    <2>2. PICK result \in {"returned", "failed"} : EndTick(result)
      BY <1>3
    <2> QED BY <1>1, <1>3, <2>1, <2>2, EndTickType
  <1> QED BY <1>2, <1>3 DEF GoOn

\* No tick is on at first.
LEMMA UnixTypeInit == UnixInit => UnixTypeOK
  <1> SUFFICES ASSUME UnixInit PROVE UnixTypeOK
    OBVIOUS
  <1>1. << >> \in BoundedSeq(Points, MaxJobs)
    <2>1. << >> \in Seq(Points) /\ Len(<< >>) <= MaxJobs /\ MaxJobs \in Nat
      BY UnixAssumption
    <2> QED BY <2>1, BoundedQueue
  <1>2. /\ table \in Tables /\ hung \subseteq Points /\ todo \subseteq Candidates
        /\ outcome \in {"none", "returned", "failed", "aborted"}
    BY DEF UnixInit
  <1>3. broken \in BOOLEAN /\ collecting \in BOOLEAN /\ (collecting <=> awaited # 0)
    BY DEF UnixInit
  <1>4. awaited \in 0 .. Len(jobs) /\ jobs \in BoundedSeq(Points, MaxJobs)
    BY <1>1 DEF UnixInit
  <1> QED BY <1>2, <1>3, <1>4, Zenon DEF UnixTypeOK

\* While calls come and go the tick keeps hold of its own.
LEMMA UnixTypeStep == UnixTypeOK /\ [UnixNext]_unixVars => UnixTypeOK'
  <1> SUFFICES ASSUME UnixTypeOK, [UnixNext]_unixVars PROVE UnixTypeOK'
    OBVIOUS
  <1>1. table' = table /\ table \in Tables /\ Candidates' = Candidates
    BY TableNeverChanges DEF UnixTypeOK, Candidates
  <1>2. jobs \in Seq(Points) /\ Len(jobs) <= MaxJobs /\ Len(jobs) \in Nat /\ MaxJobs \in Nat
    BY UnixAssumption, BoundedQueue DEF UnixTypeOK
  <1>3. CASE Hang
    <2>1. Candidates \subseteq Mounts
      BY <1>1, CandidatesAreMounts
    <2> QED BY <1>1, <1>3, <2>1 DEF Hang, UnixTypeOK, Points
  <1>4. CASE Heal \/ BreakOrRepair
    <2>1. /\ hung' \subseteq hung
          /\ UNCHANGED <<collecting, todo, jobs, awaited, outcome>>
          /\ broken' = broken \/ broken' = ~broken
      BY <1>4, Zenon DEF Heal, BreakOrRepair
    <2>2. broken' \in BOOLEAN
      BY <2>1, Zenon DEF UnixTypeOK
    <2>3. hung' \subseteq Points
      BY <2>1 DEF UnixTypeOK
    <2> QED BY <1>1, <2>1, <2>2, <2>3, Zenon DEF UnixTypeOK
  <1>5. CASE StartTick
    <2>1. /\ hung' = hung /\ broken' = broken
          /\ GoOn(jobs, Candidates) \/ (EndTick("failed") /\ UNCHANGED jobs)
      BY <1>5 DEF StartTick
    <2>2. CASE GoOn(jobs, Candidates)
      <3>1. jobs \in BoundedSeq(Points, MaxJobs) /\ Candidates \in SUBSET Candidates
        BY DEF UnixTypeOK
      <3> QED BY <1>1, <2>1, <2>2, <3>1, GoOnType DEF UnixTypeOK
    <2>3. CASE EndTick("failed") /\ UNCHANGED jobs
      <3>1. Len(jobs') \in Nat
        BY <1>2, <2>3
      <3>2. /\ collecting' \in BOOLEAN
            /\ todo' \subseteq Candidates'
            /\ awaited' \in 0 .. Len(jobs')
            /\ collecting' <=> awaited' # 0
            /\ outcome' \in {"none", "returned", "failed", "aborted"}
        BY <2>3, <3>1, EndTickType
      <3> QED BY <1>1, <2>1, <2>3, <3>2, Zenon DEF UnixTypeOK
    <2> QED BY <2>1, <2>2, <2>3
  <1>6. CASE DropTick
    <2>1. /\ EndTick("aborted") /\ Len(jobs') \in Nat
          /\ UNCHANGED <<table, hung, broken, jobs>>
      BY <1>2, <1>6 DEF DropTick
    <2>2. /\ collecting' \in BOOLEAN
          /\ todo' \subseteq Candidates'
          /\ awaited' \in 0 .. Len(jobs')
          /\ collecting' <=> awaited' # 0
          /\ outcome' \in {"none", "returned", "failed", "aborted"}
      BY <2>1, EndTickType
    <2> QED BY <1>1, <2>1, <2>2, Zenon DEF UnixTypeOK
  <1>7. ASSUME NEW i \in 1 .. PoolSize, JobDone(i) PROVE UnixTypeOK'
    <2>1. i \in 1 .. Len(jobs) /\ hung' = hung /\ broken' = broken
      BY <1>2, <1>7, UnixAssumption DEF JobDone
    <2> DEFINE left == RemoveAt(jobs, i)
    <2>2. left \in Seq(Points) /\ Len(left) = Len(jobs) - 1
      BY <1>2, <2>1, RemoveOne
    <2>3. left \in BoundedSeq(Points, MaxJobs)
      BY <1>2, <2>2, BoundedQueue
    <2> HIDE DEF left
    <2>4. CASE i = awaited /\ GoOn(left, todo)
      <3>1. todo \in SUBSET Candidates
        BY DEF UnixTypeOK
      <3> QED BY <1>1, <2>1, <2>3, <2>4, <3>1, GoOnType DEF UnixTypeOK
    <2>5. CASE /\ i # awaited
               /\ jobs' = left
               /\ awaited' = IF i < awaited THEN awaited - 1 ELSE awaited
               /\ UNCHANGED <<collecting, todo, outcome>>
      <3>1. awaited \in 0 .. Len(jobs) /\ (collecting <=> awaited # 0)
        BY DEF UnixTypeOK
      <3>2. awaited' \in 0 .. Len(jobs') /\ (collecting' <=> awaited' # 0)
        BY <1>2, <2>1, <2>2, <2>5, <3>1
      <3> QED BY <1>1, <2>1, <2>3, <2>5, <3>2 DEF UnixTypeOK
    <2> QED BY <1>7, <2>4, <2>5 DEF JobDone, left
  <1>8. CASE UNCHANGED unixVars
    BY <1>1, <1>8 DEF unixVars, UnixTypeOK
  <1> QED BY <1>3, <1>4, <1>5, <1>6, <1>7, <1>8 DEF UnixNext

\* Types, and that a tick which waits has its call in the pool's queue: awaited is a
\* position in it whatever calls of dropped ticks end in front of it.
THEOREM UnixTypeCorrect == CollectorsSpec => []UnixTypeOK
  <1>1. CollectorsInit => UnixTypeOK
    BY UnixTypeInit DEF CollectorsInit
  <1>2. UnixTypeOK /\ [CollectorsNext]_collectorVars => UnixTypeOK'
    <2>1. [CollectorsNext]_collectorVars => [UnixNext]_unixVars
      BY DEF CollectorsNext, collectorVars
    <2> QED BY <2>1, UnixTypeStep
  <1> QED BY <1>1, <1>2, PTL DEF CollectorsSpec

\* For any number of mounts and any order of /proc/self/mountinfo: one mount per device is
\* reported, a whole one before bind mounts, and then the one with the least path.
THEOREM ReportedMountIsStable == CollectorsSpec => []CanonicalIsStable
  <1>1. UnixTypeOK => CanonicalIsStable
    BY MostCanonicalIsStable DEF UnixTypeOK
  <1> QED BY <1>1, UnixTypeCorrect, PTL

\* The two collectors share no state, so the same holds of the scraper beside the Unix
\* collector.
THEOREM ScrapesAreReportedBesideUnix == CollectorsSpec => []HealthEveryTick
  <1>1. CollectorsInit => ScraperInv
    BY ScraperInitInv DEF CollectorsInit
  <1>2. ScraperInv /\ [CollectorsNext]_collectorVars => ScraperInv'
    <2>1. [CollectorsNext]_collectorVars => [ScraperNext]_scraperVars
      BY DEF CollectorsNext, collectorVars
    <2> QED BY <2>1, ScraperStepInv
  <1>3. ScraperInv => HealthEveryTick
    BY DEF ScraperInv
  <1> QED BY <1>1, <1>2, <1>3, PTL DEF CollectorsSpec
=============================================================================
