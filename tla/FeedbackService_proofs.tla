----------------------- MODULE FeedbackService_proofs -----------------------
(***************************************************************************)
(* What the limits guarantee, for any number of clients and any policy.    *)
(* A deque is looked at from its end: what is pruned is at its beginning,  *)
(* so that an admission keeps its place among the latest ones while time   *)
(* passes and older ones go.                                               *)
(***************************************************************************)
EXTENDS FeedbackService, FiniteSetTheorems, SequenceTheorems, TLAPS

-----------------------------------------------------------------------------
(* Deques *)

Chronicle(h) == {d \in Seq(0..h) : Sorted(d)}

\* The k-th latest event.
Latest(d, k) == d[Len(d) + 1 - k]

\* No more than n events are younger than w.
AtMost(d, w, n) == Len(d) > n => Latest(d, n + 1) >= w

\* Every nonempty set of natural numbers has a least element.
LEMMA Least ==
    ASSUME NEW S \in SUBSET Nat, S # {}
    PROVE  \E n \in S : \A m \in S : n <= m
<1>1. \E n \in S : \A m \in S : ~ (<<m, n>> \in OpToRel(<, Nat))
  BY NatLessThanWellFounded, WFMin
<1>2. \A m, n \in S : m < n => <<m, n>> \in OpToRel(<, Nat)
  BY DEF OpToRel
<1>3. PICK n \in S : \A m \in S : ~ (<<m, n>> \in OpToRel(<, Nat))
  BY <1>1
<1>4. \A m \in S : ~ (m < n)
  BY <1>2, <1>3
<1> QED
  BY <1>4

LEMMA OutdatedIs ==
    ASSUME NEW h \in Nat, NEW d \in Seq(0..h), NEW w \in Nat
    PROVE  /\ Outdated(d, w) \in 0..Len(d)
           /\ \A i \in 1..Outdated(d, w) : d[i] >= w
           /\ Outdated(d, w) < Len(d) => d[Outdated(d, w) + 1] < w
<1> DEFINE Stops == {n \in 0..Len(d) : n < Len(d) => d[n + 1] < w}
<1>1. PICK n \in Stops : \A m \in Stops : n <= m
  <2>1. Len(d) \in Stops /\ Stops \in SUBSET Nat
    OBVIOUS
  <2> HIDE DEF Stops
  <2> QED
    BY <2>1, Least
<1>2. \A i \in 1..n : d[i] >= w
  <2> SUFFICES ASSUME NEW i \in 1..n PROVE d[i] >= w
    OBVIOUS
  <2>1. n \in 0..Len(d) /\ Len(d) \in Nat
    BY <1>1
  <2>3. i - 1 \in 0..Len(d) /\ i - 1 \in Nat /\ ~(n <= i - 1)
    BY <2>1
  <2>4. i - 1 \notin Stops
    <3> HIDE DEF Stops
    <3> QED
      BY <1>1, <2>3
  <2>2. i \in 1..Len(d) /\ d[i] \in 0..h
    BY <2>1
  <2> QED
    BY <2>3, <2>4, <2>2
<1> QED
  BY <1>1, <1>2 DEF Outdated

\* What Prune leaves, seen from the end.
LEMMA PruneIs ==
    ASSUME NEW h \in Nat, NEW d \in Chronicle(h), NEW w \in Nat
    PROVE  /\ Prune(d, w) \in Chronicle(h)
           /\ Len(Prune(d, w)) \in 0..Len(d)
           /\ \A k \in 1..Len(Prune(d, w)) : /\ Latest(Prune(d, w), k) = Latest(d, k)
                                             /\ Latest(d, k) < w
           /\ \A k \in 1..Len(d) : k > Len(Prune(d, w)) => Latest(d, k) >= w
<1> DEFINE n == Outdated(d, w)
           p == Prune(d, w)
<1>1. d \in Seq(0..h) /\ Sorted(d)
  BY DEF Chronicle
<1>2. /\ n \in 0..Len(d)
      /\ \A i \in 1..n : d[i] >= w
      /\ n < Len(d) => d[n + 1] < w
  BY <1>1, OutdatedIs
<1>3. p = SubSeq(d, n + 1, Len(d))
  BY DEF Prune
<1> HIDE DEF n, p
<1>4. /\ p \in Seq(0..h) /\ Len(p) = Len(d) - n /\ Len(d) \in Nat /\ Len(p) \in Nat
      /\ \A i \in 1..Len(p) : p[i] = d[n + i]
  BY <1>1, <1>2, <1>3
<1>5. \A i, j \in 1..Len(d) : i <= j => d[i] >= d[j] /\ d[i] \in 0..h /\ d[j] \in 0..h
  BY <1>1 DEF Sorted
<1>6. Sorted(p)
  <2> SUFFICES ASSUME NEW i \in 1..Len(p), NEW j \in 1..Len(p), i <= j PROVE p[i] >= p[j]
    BY <1>4 DEF Sorted
  <2>1. n + i \in 1..Len(d) /\ n + j \in 1..Len(d) /\ n + i <= n + j
    BY <1>2, <1>4
  <2> QED
    BY <1>4, <1>5, <2>1
<1>7. ASSUME NEW k \in 1..Len(p) PROVE Latest(p, k) = Latest(d, k) /\ Latest(d, k) < w
  <2>1. Len(p) + 1 - k \in 1..Len(p) /\ n + (Len(p) + 1 - k) = Len(d) + 1 - k
    BY <1>2, <1>4
  <2>2. n + 1 \in 1..Len(d) /\ Len(d) + 1 - k \in 1..Len(d) /\ n + 1 <= Len(d) + 1 - k
    BY <1>2, <1>4
  <2>3. p[Len(p) + 1 - k] = d[Len(d) + 1 - k]
    BY <1>4, <2>1
  <2>4. d[n + 1] < w /\ d[Len(d) + 1 - k] <= d[n + 1]
    BY <1>2, <1>5, <2>2
  <2>5. d[n + 1] \in 0..h /\ d[Len(d) + 1 - k] \in 0..h
    BY <1>5, <2>2
  <2> QED
    BY <2>3, <2>4, <2>5 DEF Latest
<1>8. ASSUME NEW k \in 1..Len(d), k > Len(p) PROVE Latest(d, k) >= w
  <2>1. Len(d) + 1 - k \in 1..n
    BY <1>2, <1>4, <1>8
  <2> QED
    BY <1>2, <2>1 DEF Latest
<1> QED
  BY <1>2, <1>4, <1>6, <1>7, <1>8 DEF Chronicle, p

LEMMA LatestIs ==
    ASSUME NEW h \in Nat, NEW d \in Chronicle(h)
    PROVE  /\ Len(d) \in Nat
           /\ \A k \in 1..Len(d) : Latest(d, k) \in 0..h
           /\ \A j, k \in 1..Len(d) : j <= k => Latest(d, j) <= Latest(d, k)
           /\ Len(d) > 0 <=> d # <<>>
<1>1. d \in Seq(0..h) /\ \A i, j \in 1..Len(d) : i <= j => d[i] >= d[j]
  BY DEF Chronicle, Sorted
<1>2. \A k \in 1..Len(d) : Len(d) + 1 - k \in 1..Len(d) /\ d[Len(d) + 1 - k] \in 0..h
  BY <1>1
<1>3. ASSUME NEW j \in 1..Len(d), NEW k \in 1..Len(d), j <= k
      PROVE  d[Len(d) + 1 - j] <= d[Len(d) + 1 - k]
  <2>1. Len(d) + 1 - k <= Len(d) + 1 - j
    BY <1>1, <1>3
  <2> QED
    BY <1>1, <1>2, <2>1
<1> QED
  BY <1>1, <1>2, <1>3 DEF Latest

\* Two deques are the same if they are, from their ends.
LEMMA SameFromTheEnd ==
    ASSUME NEW h \in Nat, NEW d \in Chronicle(h), NEW e \in Chronicle(h), Len(d) = Len(e),
           \A k \in 1..Len(d) : Latest(d, k) = Latest(e, k)
    PROVE  d = e
<1>1. d \in Seq(0..h) /\ e \in Seq(0..h)
  BY DEF Chronicle
<1>2. ASSUME NEW i \in 1..Len(d) PROVE d[i] = e[i]
  <2>1. Len(d) + 1 - i \in 1..Len(d) /\ Len(d) + 1 - (Len(d) + 1 - i) = i
    BY <1>1
  <2> QED
    BY <2>1 DEF Latest
<1> QED
  BY <1>1, <1>2, SeqEqual

LEMMA PruneAgain ==
    ASSUME NEW h \in Nat, NEW d \in Chronicle(h), NEW w \in Nat,
           \A k \in 1..Len(d) : Latest(d, k) < w
    PROVE  Prune(d, w) = d
<1>1. /\ Prune(d, w) \in Chronicle(h)
      /\ Len(Prune(d, w)) \in 0..Len(d)
      /\ \A k \in 1..Len(Prune(d, w)) : Latest(Prune(d, w), k) = Latest(d, k)
      /\ \A k \in 1..Len(d) : k > Len(Prune(d, w)) => Latest(d, k) >= w
  BY PruneIs
<1>2. Len(d) \in Nat /\ \A k \in 1..Len(d) : Latest(d, k) \in 0..h
  BY LatestIs
<1>3. Len(Prune(d, w)) = Len(d)
  <2> SUFFICES ASSUME Len(Prune(d, w)) # Len(d) PROVE FALSE
    OBVIOUS
  <2>1. Len(d) \in 1..Len(d) /\ Len(d) > Len(Prune(d, w))
    BY <1>1, <1>2
  <2> QED
    BY <1>1, <1>2, <2>1
<1> QED
  BY <1>1, <1>3, SameFromTheEnd

LEMMA AppendIs ==
    ASSUME NEW h \in Nat, NEW d \in Chronicle(h)
    PROVE  /\ Append(d, 0) \in Chronicle(h)
           /\ Len(Append(d, 0)) = Len(d) + 1
           /\ Latest(Append(d, 0), 1) = 0
           /\ \A k \in 1..Len(d) : Latest(Append(d, 0), k + 1) = Latest(d, k)
<1>1. d \in Seq(0..h) /\ \A i, j \in 1..Len(d) : i <= j => d[i] >= d[j]
  BY DEF Chronicle, Sorted
<1>2. /\ Append(d, 0) \in Seq(0..h)
      /\ Len(Append(d, 0)) = Len(d) + 1
      /\ Append(d, 0)[Len(d) + 1] = 0
      /\ \A i \in 1..Len(d) : Append(d, 0)[i] = d[i] /\ d[i] \in 0..h
  BY <1>1
<1>3. Sorted(Append(d, 0))
  BY <1>1, <1>2 DEF Sorted
<1>4. ASSUME NEW k \in 1..Len(d) PROVE Latest(Append(d, 0), k + 1) = Latest(d, k)
  <2>1. Len(d) + 1 - k \in 1..Len(d) /\ (Len(d) + 1) + 1 - (k + 1) = Len(d) + 1 - k
    BY <1>1
  <2> QED
    BY <1>2, <2>1 DEF Latest
<1> QED
  BY <1>1, <1>2, <1>3, <1>4 DEF Chronicle, Latest

LEMMA OlderIs ==
    ASSUME NEW h \in Nat, NEW d \in Chronicle(h), NEW t \in Nat
    PROVE  /\ Older(d, t, h) \in Chronicle(h)
           /\ Len(Older(d, t, h)) = Len(d)
           /\ \A k \in 1..Len(d) : Latest(Older(d, t, h), k) =
                 IF Latest(d, k) + t <= h THEN Latest(d, k) + t ELSE h
<1>1. d \in Seq(0..h) /\ \A i, j \in 1..Len(d) : i <= j => d[i] >= d[j]
  BY DEF Chronicle, Sorted
<1>2. ASSUME NEW a \in Nat PROVE Min({a, h}) = IF a <= h THEN a ELSE h
  BY DEF Min
<1>3. DOMAIN d = 1..Len(d) /\ \A i \in 1..Len(d) : d[i] \in 0..h /\ d[i] + t \in Nat
  BY <1>1
<1>4. Older(d, t, h) = [i \in 1..Len(d) |-> IF d[i] + t <= h THEN d[i] + t ELSE h]
  BY <1>1, <1>2, <1>3 DEF Older
<1>5. /\ Older(d, t, h) \in Seq(0..h) /\ Len(Older(d, t, h)) = Len(d)
      /\ \A i \in 1..Len(d) : Older(d, t, h)[i] = IF d[i] + t <= h THEN d[i] + t ELSE h
  <2>1. \A i \in 1..Len(d) : (IF d[i] + t <= h THEN d[i] + t ELSE h) \in 0..h
    BY <1>3
  <2>2. Older(d, t, h) \in [1..Len(d) -> 0..h] /\ Len(d) \in Nat
    BY <1>1, <1>4, <2>1
  <2> QED
    BY <1>4, <2>2
<1>6. Sorted(Older(d, t, h))
  <2> SUFFICES ASSUME NEW i \in 1..Len(d), NEW j \in 1..Len(d), i <= j
               PROVE  Older(d, t, h)[i] >= Older(d, t, h)[j]
    BY <1>5 DEF Sorted
  <2>1. d[i] >= d[j] /\ d[i] \in 0..h /\ d[j] \in 0..h
    BY <1>1, <1>3
  <2>2. /\ Older(d, t, h)[i] = IF d[i] + t <= h THEN d[i] + t ELSE h
        /\ Older(d, t, h)[j] = IF d[j] + t <= h THEN d[j] + t ELSE h
    BY <1>5
  <2> QED
    BY <2>1, <2>2
<1>7. \A k \in 1..Len(d) : Len(d) + 1 - k \in 1..Len(d)
  BY <1>1
<1> QED
  BY <1>5, <1>6, <1>7 DEF Chronicle, Latest

-----------------------------------------------------------------------------
(* Windows *)

LEMMA WithinIs ==
    ASSUME NEW h \in Nat, NEW d \in Chronicle(h), NEW w \in Nat, NEW n \in Nat
    PROVE  Within(w, d) <= n <=> AtMost(d, w, n)
<1> DEFINE p == Prune(d, w)
<1>1. /\ Len(p) \in 0..Len(d)
      /\ \A k \in 1..Len(p) : Latest(d, k) < w
      /\ \A k \in 1..Len(d) : k > Len(p) => Latest(d, k) >= w
  BY PruneIs
<1>2. Len(d) \in Nat /\ \A k \in 1..Len(d) : Latest(d, k) \in 0..h
  BY LatestIs
<1> HIDE DEF p
<1>3. CASE Len(p) <= n
  <2>1. Len(d) > n => n + 1 \in 1..Len(d) /\ n + 1 > Len(p)
    BY <1>1, <1>2, <1>3
  <2> QED
    BY <1>1, <1>3, <2>1 DEF AtMost, Within, p
<1>4. CASE Len(p) > n
  <2>1. Len(d) > n /\ n + 1 \in 1..Len(p) /\ n + 1 \in 1..Len(d)
    BY <1>1, <1>2, <1>4
  <2>2. Latest(d, n + 1) < w /\ Latest(d, n + 1) \in Nat
    BY <1>1, <1>2, <2>1
  <2>3. ~(Len(p) <= n)
    BY <1>1, <1>2, <1>4
  <2> QED
    BY <2>1, <2>2, <2>3 DEF AtMost, Within, p
<1> QED
  BY <1>1, <1>2, <1>3, <1>4

\* A window that is full waits for the n-th latest event to leave it.
LEMMA WaitIs ==
    ASSUME NEW h \in Nat, NEW d \in Chronicle(h), NEW w \in Nat, NEW n \in Nat \ {0}
    PROVE  window_wait(d, w, n) =
              IF Len(d) >= n /\ Latest(d, n) < w THEN w - Latest(d, n) ELSE 0
<1> DEFINE p == Prune(d, w)
<1>1. /\ Len(p) \in 0..Len(d)
      /\ \A k \in 1..Len(p) : Latest(p, k) = Latest(d, k) /\ Latest(d, k) < w
      /\ \A k \in 1..Len(d) : k > Len(p) => Latest(d, k) >= w
  BY PruneIs
<1>2. Len(d) \in Nat /\ \A k \in 1..Len(d) : Latest(d, k) \in 0..h
  BY LatestIs
<1>3. window_wait(d, w, n) = IF Len(p) < n THEN 0 ELSE w - p[Len(p) - n + 1]
  BY DEF window_wait
<1> HIDE DEF p
<1>4. CASE Len(p) < n
  <2>1. Len(d) >= n => n \in 1..Len(d) /\ n > Len(p)
    BY <1>1, <1>2, <1>4
  <2>2. Len(d) >= n => Latest(d, n) >= w /\ Latest(d, n) \in Nat
    BY <1>1, <1>2, <2>1
  <2> QED
    BY <1>3, <1>4, <2>2
<1>5. CASE ~(Len(p) < n)
  <2>1. n \in 1..Len(p) /\ Len(d) >= n /\ Len(p) - n + 1 = Len(p) + 1 - n
    BY <1>1, <1>2, <1>5
  <2>2. p[Len(p) - n + 1] = Latest(d, n) /\ Latest(d, n) < w
    BY <1>1, <2>1 DEF Latest
  <2> QED
    BY <1>3, <1>5, <2>1, <2>2
<1> QED
  BY <1>4, <1>5

LEMMA WaitTyped ==
    ASSUME NEW h \in Nat, NEW d \in Chronicle(h), NEW w \in Nat, NEW n \in Nat \ {0}
    PROVE  window_wait(d, w, n) \in Nat
<1>1. Len(d) \in Nat /\ \A k \in 1..Len(d) : Latest(d, k) \in 0..h
  BY LatestIs
<1>2. Len(d) >= n => n \in 1..Len(d)
  BY <1>1
<1> QED
  BY <1>1, <1>2, WaitIs

\* A window with nothing to wait for has room for one more.
LEMMA RoomForOne ==
    ASSUME NEW h \in Nat, NEW d \in Chronicle(h), NEW w \in Nat, NEW n \in Nat \ {0},
           window_wait(d, w, n) = 0
    PROVE  AtMost(Append(d, 0), w, n)
<1>1. Len(d) \in Nat /\ \A k \in 1..Len(d) : Latest(d, k) \in 0..h
  BY LatestIs
<1>2. /\ Len(Append(d, 0)) = Len(d) + 1
      /\ \A k \in 1..Len(d) : Latest(Append(d, 0), k + 1) = Latest(d, k)
  BY AppendIs
<1>3. Len(d) >= n => Latest(d, n) >= w
  <2>1. Len(d) >= n => n \in 1..Len(d)
    BY <1>1
  <2> QED
    BY <1>1, <2>1, WaitIs
<1>4. Len(d) >= n => n \in 1..Len(d)
  BY <1>1
<1> QED
  BY <1>1, <1>2, <1>3, <1>4 DEF AtMost

\* Waiting shortens a wait by as much.
LEMMA WaitOlder ==
    ASSUME NEW h \in Nat, NEW d \in Chronicle(h), NEW w \in Nat, NEW n \in Nat \ {0},
           NEW t \in Nat, w <= h
    PROVE  window_wait(Older(d, t, h), w, n) = 0 <=> window_wait(d, w, n) <= t
<1> DEFINE o == Older(d, t, h)
<1>1. /\ o \in Chronicle(h) /\ Len(o) = Len(d)
      /\ \A k \in 1..Len(d) : Latest(o, k) =
            IF Latest(d, k) + t <= h THEN Latest(d, k) + t ELSE h
  BY OlderIs
<1> HIDE DEF o
<1>2. Len(d) \in Nat /\ \A k \in 1..Len(d) : Latest(d, k) \in 0..h
  BY LatestIs
<1>3. window_wait(d, w, n) = IF Len(d) >= n /\ Latest(d, n) < w THEN w - Latest(d, n) ELSE 0
  BY WaitIs
<1>4. window_wait(o, w, n) = IF Len(o) >= n /\ Latest(o, n) < w THEN w - Latest(o, n) ELSE 0
  BY <1>1, WaitIs
<1>5. CASE Len(d) >= n
  <2>1. n \in 1..Len(d)
    BY <1>2, <1>5
  <2>2. Latest(d, n) \in 0..h /\ Latest(o, n) = IF Latest(d, n) + t <= h THEN Latest(d, n) + t ELSE h
    BY <1>1, <1>2, <2>1
  <2>3. window_wait(d, w, n) = IF Latest(d, n) < w THEN w - Latest(d, n) ELSE 0
    BY <1>3, <1>5
  <2>4. window_wait(o, w, n) = IF Latest(o, n) < w THEN w - Latest(o, n) ELSE 0
    BY <1>1, <1>4, <1>5
  <2> QED
    BY <2>2, <2>3, <2>4 DEF o
<1>6. CASE ~(Len(d) >= n)
  BY <1>1, <1>3, <1>4, <1>6 DEF o
<1> QED
  BY <1>5, <1>6

-----------------------------------------------------------------------------
(* Retry-After *)

\* Division that rounds up.
LEMMA RoundedUp ==
    ASSUME NEW s \in Nat \ {0}, NEW w \in Nat, NEW q, q = (w + s - 1) \div s
    PROVE  /\ q \in Nat
           /\ q = 0 <=> w = 0
           /\ w <= q * s
           /\ q # 0 => q - 1 \in Nat /\ (q - 1) * s \in Nat /\ (q - 1) * s < w
<1> DEFINE a == w + s - 1
<1>1. a \in Nat /\ s \in Int /\ s > 0
  OBVIOUS
<1>2. q \in Int /\ a = s * q + (a % s) /\ 0 <= a % s /\ a % s < s /\ a % s \in Int
  BY <1>1
<1> QED
  BY <1>1, <1>2

USE LimiterAssumption

LEMMA RetryIs ==
    ASSUME NEW e \in Chronicle(Day), NEW g \in Chronicle(Hour)
    PROVE  \E w \in Nat :
              /\ w = 0 <=> /\ window_wait(e, Minute, PerMinute) = 0
                           /\ window_wait(e, Hour, PerHour) = 0
                           /\ window_wait(e, Day, PerDay) = 0
                           /\ window_wait(g, Hour, GlobalPerHour) = 0
              /\ \A t \in Nat : w <= t <=> /\ window_wait(e, Minute, PerMinute) <= t
                                           /\ window_wait(e, Hour, PerHour) <= t
                                           /\ window_wait(e, Day, PerDay) <= t
                                           /\ window_wait(g, Hour, GlobalPerHour) <= t
              /\ retry_after(e, g) = (w + Second - 1) \div Second
<1> DEFINE w1 == window_wait(e, Minute, PerMinute)
           w2 == window_wait(e, Hour, PerHour)
           w3 == window_wait(e, Day, PerDay)
           w4 == window_wait(g, Hour, GlobalPerHour)
           w == Max({w1, w2, w3, w4})
<1>1. w1 \in Nat /\ w2 \in Nat /\ w3 \in Nat /\ w4 \in Nat
  BY WaitTyped
<1>2. retry_after(e, g) = (w + Second - 1) \div Second
  BY DEF retry_after
<1> HIDE DEF w1, w2, w3, w4
<1>3. w \in {w1, w2, w3, w4} /\ \A x \in {w1, w2, w3, w4} : w >= x
  <2>1. \E x \in {w1, w2, w3, w4} : \A y \in {w1, w2, w3, w4} : x >= y
    <3>1. CASE w1 >= w2 /\ w1 >= w3 /\ w1 >= w4
      BY <1>1, <3>1
    <3>2. CASE w2 >= w1 /\ w2 >= w3 /\ w2 >= w4
      BY <1>1, <3>2
    <3>3. CASE w3 >= w1 /\ w3 >= w2 /\ w3 >= w4
      BY <1>1, <3>3
    <3>4. CASE w4 >= w1 /\ w4 >= w2 /\ w4 >= w3
      BY <1>1, <3>4
    <3> QED
      BY <1>1, <3>1, <3>2, <3>3, <3>4
  <2> QED
    BY <2>1 DEF Max
<1> HIDE DEF w
<1>4. w \in Nat
  BY <1>1, <1>3
<1> QED
  BY <1>1, <1>2, <1>3, <1>4 DEF w1, w2, w3, w4

\* Whoever comes back after t ticks is let in if all waits are over by then.
LEMMA WaitAfterIs ==
    ASSUME NEW e \in Chronicle(Day), NEW g \in Chronicle(Hour)
    PROVE  \E w \in Nat :
              \A t \in Nat : /\ retry_after(Older(e, t, Day), Older(g, t, Hour)) \in Nat
                             /\ retry_after(Older(e, t, Day), Older(g, t, Hour)) = 0 <=> w <= t
                             /\ t = 0 => retry_after(Older(e, t, Day), Older(g, t, Hour))
                                            = (w + Second - 1) \div Second
<1>1. PICK w \in Nat :
        /\ \A t \in Nat : w <= t <=> /\ window_wait(e, Minute, PerMinute) <= t
                                     /\ window_wait(e, Hour, PerHour) <= t
                                     /\ window_wait(e, Day, PerDay) <= t
                                     /\ window_wait(g, Hour, GlobalPerHour) <= t
        /\ retry_after(e, g) = (w + Second - 1) \div Second
  BY RetryIs
<1>2. ASSUME NEW t \in Nat
      PROVE  /\ retry_after(Older(e, t, Day), Older(g, t, Hour)) \in Nat
             /\ retry_after(Older(e, t, Day), Older(g, t, Hour)) = 0 <=> w <= t
  <2> DEFINE f == Older(e, t, Day)
             k == Older(g, t, Hour)
  <2>1. f \in Chronicle(Day) /\ k \in Chronicle(Hour)
    BY OlderIs
  <2>2. /\ window_wait(f, Minute, PerMinute) = 0 <=> window_wait(e, Minute, PerMinute) <= t
        /\ window_wait(f, Hour, PerHour) = 0 <=> window_wait(e, Hour, PerHour) <= t
        /\ window_wait(f, Day, PerDay) = 0 <=> window_wait(e, Day, PerDay) <= t
        /\ window_wait(k, Hour, GlobalPerHour) = 0 <=> window_wait(g, Hour, GlobalPerHour) <= t
    BY WaitOlder
  <2> HIDE DEF f, k
  <2>3. PICK v \in Nat : /\ v = 0 <=> /\ window_wait(f, Minute, PerMinute) = 0
                                      /\ window_wait(f, Hour, PerHour) = 0
                                      /\ window_wait(f, Day, PerDay) = 0
                                      /\ window_wait(k, Hour, GlobalPerHour) = 0
                         /\ retry_after(f, k) = (v + Second - 1) \div Second
    BY <2>1, RetryIs
  <2>4. retry_after(f, k) \in Nat /\ (retry_after(f, k) = 0 <=> v = 0)
    BY <2>3, RoundedUp
  <2> QED
    BY <1>1, <2>2, <2>3, <2>4 DEF f, k
<1>3. Older(e, 0, Day) = e /\ Older(g, 0, Hour) = g
  <2>1. ASSUME NEW h \in Nat, NEW d \in Chronicle(h) PROVE Older(d, 0, h) = d
    <3>1. /\ Older(d, 0, h) \in Chronicle(h)
          /\ Len(Older(d, 0, h)) = Len(d)
          /\ \A k \in 1..Len(d) : Latest(Older(d, 0, h), k) =
                IF Latest(d, k) + 0 <= h THEN Latest(d, k) + 0 ELSE h
      BY OlderIs
    <3>2. \A k \in 1..Len(d) : Latest(d, k) \in 0..h
      BY LatestIs
    <3> QED
      BY <3>1, <3>2, SameFromTheEnd
  <2> QED
    BY <2>1
<1> QED
  BY <1>1, <1>2, <1>3

-----------------------------------------------------------------------------
(* The map of clients *)

Quotas(d) == /\ AtMost(d, Minute, PerMinute)
             /\ AtMost(d, Hour, PerHour)
             /\ AtMost(d, Day, PerDay)

Maps == [keys : SUBSET Clients, before : SUBSET (Clients \X Clients),
         events : [Clients -> Chronicle(Day)]]

\* Its keys are in an order in which some of them have a first, and its deques keep the policy.
MapOK(d) ==
    /\ d \in Maps
    /\ IsFiniteSet(d.keys)
    /\ d.before \subseteq d.keys \X d.keys
    /\ \A S \in SUBSET d.keys : S # {} => \E x \in S : \A y \in S \ {x} : <<x, y>> \in d.before
    /\ \A c \in Clients : Quotas(d.events[c]) /\ Len(d.events[c]) <= PerDay

Known(d) == \A c \in Clients : d.events[c] # <<>> => c \in d.keys

LEMMA EmptyChronicle ==
    ASSUME NEW h \in Nat
    PROVE  /\ <<>> \in Chronicle(h) /\ Len(<<>>) = 0
           /\ Quotas(<<>>)
BY DEF Chronicle, Sorted, Quotas, AtMost

LEMMA PruneQuotas ==
    ASSUME NEW d \in Chronicle(Day), Quotas(d)
    PROVE  /\ Quotas(Prune(d, Day))
           /\ Len(d) <= PerDay => Len(Prune(d, Day)) <= PerDay
<1>1. /\ Len(Prune(d, Day)) \in 0..Len(d)
      /\ \A k \in 1..Len(Prune(d, Day)) : Latest(Prune(d, Day), k) = Latest(d, k)
  BY PruneIs
<1>2. Len(d) \in Nat
  BY LatestIs
<1>3. ASSUME NEW w \in Nat, NEW n \in Nat, AtMost(d, w, n) PROVE AtMost(Prune(d, Day), w, n)
  <2>1. Len(Prune(d, Day)) > n => n + 1 \in 1..Len(Prune(d, Day)) /\ Len(d) > n
    BY <1>1, <1>2
  <2> QED
    BY <1>1, <1>3, <2>1 DEF AtMost
<1> QED
  BY <1>1, <1>2, <1>3 DEF Quotas

LEMMA PruneTwice ==
    ASSUME NEW d \in Chronicle(Day)
    PROVE  /\ Prune(d, Day) \in Chronicle(Day)
           /\ Prune(Prune(d, Day), Day) = Prune(d, Day)
<1>1. /\ Prune(d, Day) \in Chronicle(Day)
      /\ \A k \in 1..Len(Prune(d, Day)) : /\ Latest(Prune(d, Day), k) = Latest(d, k)
                                          /\ Latest(d, k) < Day
  BY PruneIs
<1> QED
  BY <1>1, PruneAgain

LEMMA KeepOK ==
    ASSUME NEW d, MapOK(d), NEW kept
    PROVE  /\ MapOK(Keep(d, kept))
           /\ Keep(d, kept).keys = d.keys \cap kept
           /\ Keep(d, kept).before \subseteq d.before
           /\ Keep(d, kept).events = d.events
<1> DEFINE k == Keep(d, kept)
<1>1. /\ k \in Maps
      /\ k.keys = d.keys \cap kept
      /\ k.before = d.before \cap (kept \X kept)
      /\ k.events = d.events
  BY DEF MapOK, Maps, Keep
<1>2. IsFiniteSet(k.keys)
  BY <1>1, FS_Subset DEF MapOK
<1>3. k.before \subseteq k.keys \X k.keys
  BY <1>1 DEF MapOK
<1>4. ASSUME NEW S \in SUBSET k.keys, S # {}
      PROVE  \E x \in S : \A y \in S \ {x} : <<x, y>> \in k.before
  <2>1. PICK x \in S : \A y \in S \ {x} : <<x, y>> \in d.before
    BY <1>1, <1>4 DEF MapOK
  <2>2. \A y \in S \ {x} : <<x, y>> \in kept \X kept
    BY <1>1
  <2> QED
    BY <1>1, <2>1, <2>2
<1> HIDE DEF k
<1>5. MapOK(k)
  BY <1>1, <1>2, <1>3, <1>4 DEF MapOK
<1> QED
  BY <1>1, <1>5 DEF k

\* prune_inactive_ips: a key that goes had nothing left.
LEMMA PruneInactive ==
    ASSUME NEW d, MapOK(d), Known(d)
    PROVE  LET p == prune_inactive_ips(d)
           IN  /\ MapOK(p) /\ Known(p)
               /\ p.keys \subseteq d.keys /\ p.before \subseteq d.before
               /\ \A c \in Clients : p.events[c] = Prune(d.events[c], Day)
               /\ \A c \in d.keys \ p.keys : p.events[c] = <<>>
<1> DEFINE ev == [c \in Clients |-> Prune(d.events[c], Day)]
           b == [d EXCEPT !.events = ev]
           kept == {c \in Clients : ev[c] # <<>>}
<1>1. d.events \in [Clients -> Chronicle(Day)]
  BY DEF MapOK, Maps
<1>2. ev \in [Clients -> Chronicle(Day)]
  BY <1>1, PruneTwice
<1>3. \A c \in Clients : Quotas(ev[c]) /\ Len(ev[c]) <= PerDay
  BY <1>1, PruneQuotas DEF MapOK
<1>4. ev = [c \in Clients |-> Prune(d.events[c], Day)]
  OBVIOUS
<1> HIDE DEF ev
<1>5. b \in Maps /\ b.keys = d.keys /\ b.before = d.before /\ b.events = ev
  BY <1>2 DEF MapOK, Maps
<1>6. MapOK(b)
  BY <1>3, <1>5 DEF MapOK
<1>7. prune_inactive_ips(d) = Keep(b, kept)
  BY <1>4 DEF prune_inactive_ips
<1> HIDE DEF b
<1>8. /\ MapOK(Keep(b, kept))
      /\ Keep(b, kept).keys = d.keys \cap kept
      /\ Keep(b, kept).before \subseteq d.before
      /\ Keep(b, kept).events = ev
  BY <1>5, <1>6, KeepOK
<1>9. \A c \in Clients : ev[c] # <<>> => c \in d.keys
  <2> SUFFICES ASSUME NEW c \in Clients, d.events[c] = <<>> PROVE ev[c] = <<>>
    BY DEF Known
  <2>1. Len(ev[c]) \in 0..Len(d.events[c]) /\ ev[c] \in Chronicle(Day)
    BY <1>1, <1>2, <1>4, PruneIs
  <2> QED
    BY <2>1, LatestIs
<1>10. d.keys \subseteq Clients
  BY DEF MapOK, Maps
<1> QED
  BY <1>4, <1>7, <1>8, <1>9, <1>10 DEF Known

\* As many clients as there is room for came after b, c being one of them.
Crowd(b, c, before) ==
    \E S \in SUBSET Clients : /\ IsFiniteSet(S) /\ Cardinality(S) >= MaxIpKeys
                              /\ \A y \in S : y = c \/ <<b, y>> \in before

\* What may become of another client b while c is looked up: its deque is pruned, its key
\* goes if that leaves nothing, or it makes room for c.
Spared(d, e, b) == /\ e.events[b] = d.events[b] \/ e.events[b] = Prune(d.events[b], Day)
                   /\ b \in d.keys \ e.keys => e.events[b] = <<>>

Evicted(d, e, b, c) == e.events[b] = <<>> /\ b \notin e.keys /\ Crowd(b, c, d.before)

LEMMA OldestIs ==
    ASSUME NEW d, MapOK(d), d.keys # {}
    PROVE  Oldest(d) \in d.keys /\ \A e \in d.keys \ {Oldest(d)} : <<Oldest(d), e>> \in d.before
<1>1. \E x \in d.keys : \A y \in d.keys \ {x} : <<x, y>> \in d.before
  BY DEF MapOK
<1> QED
  BY <1>1 DEF Oldest

\* popitem on a full map, for the sake of c.
LEMMA PopOldest ==
    ASSUME NEW d, MapOK(d), Known(d), Cardinality(d.keys) = MaxIpKeys,
           NEW c \in Clients, c \notin d.keys
    PROVE  LET p == popitem(d)
           IN  /\ MapOK(p) /\ Known(p)
               /\ Cardinality(p.keys) = MaxIpKeys - 1
               /\ p.keys \subseteq d.keys /\ p.before \subseteq d.before
               /\ \A b \in Clients : \/ p.events[b] = d.events[b] /\ (b \in d.keys => b \in p.keys)
                                     \/ Evicted(d, p, b, c)
<1> DEFINE x == Oldest(d)
           b == [d EXCEPT !.events[x] = <<>>]
<1>1. IsFiniteSet(d.keys) /\ d.keys \subseteq Clients /\ d.events \in [Clients -> Chronicle(Day)]
  BY DEF MapOK, Maps
<1>2. d.keys # {}
  BY <1>1, FS_EmptySet
<1>3. x \in d.keys /\ \A e \in d.keys \ {x} : <<x, e>> \in d.before
  BY <1>2, OldestIs
<1>4. popitem(d) = Keep(b, Clients \ {x})
  BY DEF popitem
<1> HIDE DEF x
<1>5. /\ b \in Maps /\ b.keys = d.keys /\ b.before = d.before
      /\ b.events = [d.events EXCEPT ![x] = <<>>]
  <2>1. [d.events EXCEPT ![x] = <<>>] \in [Clients -> Chronicle(Day)]
    BY <1>1, EmptyChronicle
  <2> QED
    BY <2>1 DEF MapOK, Maps
<1> HIDE DEF b
<1>6. \A e \in Clients : b.events[e] = IF e = x THEN <<>> ELSE d.events[e]
  BY <1>1, <1>5
<1>7. MapOK(b)
  BY <1>5, <1>6, EmptyChronicle DEF MapOK
<1>8. /\ MapOK(popitem(d))
      /\ popitem(d).keys = d.keys \ {x}
      /\ popitem(d).before \subseteq d.before
      /\ popitem(d).events = b.events
  BY <1>1, <1>4, <1>5, <1>7, KeepOK
<1>9. IsFiniteSet(d.keys \ {x}) /\ Cardinality(d.keys \ {x}) = MaxIpKeys - 1
  <2>1. IsFiniteSet(d.keys \ {x}) /\ Cardinality(d.keys \ {x}) = Cardinality(d.keys) - 1
    BY <1>1, <1>3, FS_RemoveElement
  <2> QED
    BY <2>1
<1>10. Crowd(x, c, d.before)
  <2> DEFINE S == (d.keys \ {x}) \cup {c}
  <2>1. IsFiniteSet(S) /\ Cardinality(S) = (MaxIpKeys - 1) + 1
    <3>1. c \notin d.keys \ {x}
      OBVIOUS
    <3> QED
      BY <1>9, <3>1, FS_AddElement
  <2>2. Cardinality(S) >= MaxIpKeys
    BY <2>1
  <2>3. S \in SUBSET Clients /\ \A y \in S : y = c \/ <<x, y>> \in d.before
    BY <1>1, <1>3
  <2> QED
    BY <2>1, <2>2, <2>3 DEF Crowd
<1> QED
  BY <1>6, <1>8, <1>9, <1>10 DEF Known, Evicted

LEMMA MakeRoom ==
    ASSUME NEW d, MapOK(d), Known(d), Cardinality(d.keys) <= MaxIpKeys,
           NEW c \in Clients, c \notin d.keys
    PROVE  LET r == make_room_for_ip(d)
           IN  /\ MapOK(r) /\ Known(r)
               /\ Cardinality(r.keys) + 1 <= MaxIpKeys
               /\ r.keys \subseteq d.keys /\ r.before \subseteq d.before
               /\ \A b \in Clients : Spared(d, r, b) \/ Evicted(d, r, b, c)
<1> DEFINE p == prune_inactive_ips(d)
<1>1. /\ MapOK(p) /\ Known(p)
      /\ p.keys \subseteq d.keys /\ p.before \subseteq d.before
      /\ \A b \in Clients : p.events[b] = Prune(d.events[b], Day)
      /\ \A b \in d.keys \ p.keys : p.events[b] = <<>>
  BY PruneInactive
<1>2. make_room_for_ip(d) = IF ~Full(d) THEN d ELSE IF ~Full(p) THEN p ELSE popitem(p)
  BY DEF make_room_for_ip
<1> HIDE DEF p
<1>3. /\ IsFiniteSet(d.keys) /\ Cardinality(d.keys) \in Nat
      /\ Cardinality(p.keys) \in Nat /\ Cardinality(p.keys) <= Cardinality(d.keys)
  <2>1. IsFiniteSet(d.keys) /\ IsFiniteSet(p.keys)
    BY <1>1 DEF MapOK
  <2> QED
    BY <1>1, <2>1, FS_CardinalityType, FS_Subset
<1>4. CASE ~Full(d)
  BY <1>2, <1>3, <1>4 DEF Full, Spared
<1>5. CASE Full(d) /\ ~Full(p)
  BY <1>1, <1>2, <1>3, <1>5 DEF Full, Spared
<1>6. CASE Full(d) /\ Full(p)
  <2>1. Cardinality(p.keys) = MaxIpKeys /\ c \notin p.keys
    BY <1>1, <1>3, <1>6 DEF Full
  <2> DEFINE r == popitem(p)
  <2>2. /\ MapOK(r) /\ Known(r)
        /\ Cardinality(r.keys) = MaxIpKeys - 1
        /\ r.keys \subseteq p.keys /\ r.before \subseteq p.before
        /\ \A b \in Clients : \/ r.events[b] = p.events[b] /\ (b \in p.keys => b \in r.keys)
                              \/ Evicted(p, r, b, c)
    BY <1>1, <2>1, PopOldest
  <2>3. make_room_for_ip(d) = r
    BY <1>2, <1>6
  <2> HIDE DEF r
  <2>4. \A b \in Clients : Evicted(p, r, b, c) => Evicted(d, r, b, c)
    BY <1>1 DEF Evicted, Crowd
  <2>5. \A b \in Clients : r.events[b] = p.events[b] /\ (b \in p.keys => b \in r.keys)
                              => Spared(d, r, b)
    BY <1>1 DEF Spared
  <2> QED
    BY <1>1, <2>2, <2>3, <2>4, <2>5
<1> QED
  BY <1>4, <1>5, <1>6

\* A client that is looked up becomes the most recent key, with what its day has left.
LEMMA SeenOK ==
    ASSUME NEW d, MapOK(d), Known(d), Cardinality(d.keys) <= MaxIpKeys, NEW c \in Clients
    PROVE  LET s == Seen(d, c)
           IN  /\ MapOK(s) /\ Known(s)
               /\ Cardinality(s.keys) <= MaxIpKeys
               /\ c \in s.keys /\ s.events[c] = Prune(d.events[c], Day)
               /\ s.keys \subseteq d.keys \cup {c}
               /\ \A x, y \in Clients : <<x, y>> \in s.before =>
                     x # c /\ (y = c \/ <<x, y>> \in d.before)
               /\ \A b \in Clients \ {c} : Spared(d, s, b) \/ Evicted(d, s, b, c)
<1> DEFINE r == IF c \in d.keys THEN Keep(d, Clients \ {c}) ELSE make_room_for_ip(d)
           s == Seen(d, c)
<1>1. /\ s.keys = r.keys \cup {c}
      /\ s.before = r.before \cup (r.keys \X {c})
      /\ s.events = [r.events EXCEPT ![c] = Prune(@, Day)]
      /\ s = [keys |-> s.keys, before |-> s.before, events |-> s.events]
  BY DEF Seen
<1>2. /\ MapOK(r) /\ r.keys \subseteq d.keys \ {c} /\ r.before \subseteq d.before
      /\ IsFiniteSet(r.keys) /\ Cardinality(r.keys) + 1 <= MaxIpKeys
      /\ r.events[c] = d.events[c]
      /\ \A b \in Clients : r.events[b] # <<>> => b \in r.keys \cup {c}
      /\ \A b \in Clients \ {c} : Spared(d, r, b) \/ Evicted(d, r, b, c)
  <2>1. CASE c \in d.keys
    <3>1. IsFiniteSet(d.keys) /\ d.keys \subseteq Clients
      BY DEF MapOK, Maps
    <3>2. /\ r = Keep(d, Clients \ {c})
          /\ MapOK(r) /\ r.keys = d.keys \ {c} /\ r.before \subseteq d.before
          /\ r.events = d.events
      BY <2>1, <3>1, KeepOK
    <3>3. IsFiniteSet(r.keys) /\ Cardinality(r.keys) = Cardinality(d.keys) - 1
      BY <2>1, <3>1, <3>2, FS_RemoveElement
    <3>4. Cardinality(d.keys) \in Nat
      BY <3>1, FS_CardinalityType
    <3> HIDE DEF r
    <3>5. Cardinality(r.keys) + 1 <= MaxIpKeys
      BY <3>3, <3>4
    <3>6. \A b \in Clients : r.events[b] # <<>> => b \in r.keys \cup {c}
      BY <3>2 DEF Known
    <3>7. ASSUME NEW b \in Clients \ {c} PROVE Spared(d, r, b)
      BY <3>2 DEF Spared
    <3> QED
      BY <3>2, <3>3, <3>5, <3>6, <3>7
  <2>2. CASE c \notin d.keys
    <3>1. r = make_room_for_ip(d)
      BY <2>2
    <3>2. /\ MapOK(r) /\ Known(r)
          /\ Cardinality(r.keys) + 1 <= MaxIpKeys
          /\ r.keys \subseteq d.keys /\ r.before \subseteq d.before
          /\ \A b \in Clients : Spared(d, r, b) \/ Evicted(d, r, b, c)
      BY <2>2, <3>1, MakeRoom
    <3> HIDE DEF r
    <3>3. d.events[c] = <<>> /\ r.events[c] = <<>>
      BY <2>2, <3>2 DEF Known
    <3>4. r.keys \subseteq d.keys \ {c} /\ IsFiniteSet(r.keys)
      BY <2>2, <3>2 DEF MapOK
    <3>5. \A b \in Clients : r.events[b] # <<>> => b \in r.keys \cup {c}
      BY <3>2 DEF Known
    <3>6. \A b \in Clients \ {c} : Spared(d, r, b) \/ Evicted(d, r, b, c)
      BY <3>2
    <3> QED
      BY <3>2, <3>3, <3>4, <3>5, <3>6
  <2> QED
    BY <2>1, <2>2
<1> HIDE DEF r, s
<1>3. /\ r \in Maps /\ d \in Maps
      /\ \A b \in Clients : s.events[b] = IF b = c THEN Prune(r.events[c], Day) ELSE r.events[b]
      /\ s.events \in [Clients -> Chronicle(Day)]
  <2>1. r \in Maps /\ d \in Maps
    BY <1>2 DEF MapOK
  <2>2. r.events \in [Clients -> Chronicle(Day)]
    BY <2>1 DEF Maps
  <2>3. Prune(r.events[c], Day) \in Chronicle(Day)
    BY <2>2, PruneTwice
  <2>4. s.events = [r.events EXCEPT ![c] = Prune(r.events[c], Day)]
    BY <1>1
  <2> QED
    BY <2>1, <2>2, <2>3, <2>4
<1>4. s.events[c] = Prune(d.events[c], Day)
  BY <1>2, <1>3
<1>5. s \in Maps
  BY <1>1, <1>3 DEF Maps
<1>6. IsFiniteSet(s.keys) /\ Cardinality(s.keys) <= MaxIpKeys
  <2>1. c \notin r.keys /\ IsFiniteSet(r.keys)
    BY <1>2
  <2>2. IsFiniteSet(s.keys) /\ Cardinality(s.keys) = Cardinality(r.keys) + 1
    <3>1. /\ IsFiniteSet(r.keys \cup {c})
          /\ Cardinality(r.keys \cup {c}) = Cardinality(r.keys) + 1
      BY <2>1, FS_AddElement
    <3>2. s.keys = r.keys \cup {c}
      BY <1>1
    <3> QED
      BY <3>1, <3>2
  <2> QED
    BY <1>2, <2>2
<1>7. s.before \subseteq s.keys \X s.keys
  BY <1>1, <1>2 DEF MapOK
<1>8. ASSUME NEW S \in SUBSET s.keys, S # {}
      PROVE  \E x \in S : \A y \in S \ {x} : <<x, y>> \in s.before
  <2>1. CASE S \ {c} = {}
    BY <1>8, <2>1
  <2>2. CASE S \ {c} # {}
    <3>1. S \ {c} \in SUBSET r.keys
      BY <1>1, <1>8
    <3>2. PICK x \in S \ {c} : \A y \in (S \ {c}) \ {x} : <<x, y>> \in r.before
      BY <1>2, <2>2, <3>1 DEF MapOK
    <3>3. \A y \in S \ {x} : <<x, y>> \in s.before
      BY <1>1, <3>1, <3>2
    <3> QED
      BY <3>2, <3>3
  <2> QED
    BY <2>1, <2>2
<1>9. \A b \in Clients : Quotas(s.events[b]) /\ Len(s.events[b]) <= PerDay
  <2>1. \A b \in Clients : /\ r.events[b] \in Chronicle(Day)
                           /\ Quotas(r.events[b]) /\ Len(r.events[b]) <= PerDay
    BY <1>2 DEF MapOK, Maps
  <2>2. Quotas(Prune(r.events[c], Day)) /\ Len(Prune(r.events[c], Day)) <= PerDay
    BY <2>1, PruneQuotas
  <2> QED
    BY <1>3, <2>1, <2>2
<1>10. MapOK(s)
  BY <1>5, <1>6, <1>7, <1>8, <1>9 DEF MapOK
<1>11. Known(s)
  BY <1>1, <1>2, <1>3 DEF Known
<1>12. \A x, y \in Clients : <<x, y>> \in s.before => x # c /\ (y = c \/ <<x, y>> \in d.before)
  BY <1>1, <1>2 DEF MapOK
<1>13. ASSUME NEW b \in Clients \ {c} PROVE Spared(d, s, b) \/ Evicted(d, s, b, c)
  <2>1. s.events[b] = r.events[b] /\ (b \in s.keys <=> b \in r.keys)
    BY <1>1, <1>3
  <2> QED
    BY <1>2, <2>1 DEF Spared, Evicted
<1> QED
  BY <1>1, <1>2, <1>4, <1>6, <1>10, <1>11, <1>12, <1>13 DEF s

LEMMA TidiedOK ==
    ASSUME MapOK(ips), Known(ips), Cardinality(ips.keys) <= MaxIpKeys, NEW c \in Clients
    PROVE  LET d == Tidied(c)
           IN  /\ MapOK(d) /\ Known(d)
               /\ Cardinality(d.keys) <= MaxIpKeys
               /\ c \in d.keys /\ d.events[c] = Prune(ips.events[c], Day)
               /\ d.keys \subseteq ips.keys \cup {c}
               /\ \A x, y \in Clients : <<x, y>> \in d.before =>
                     x # c /\ (y = c \/ <<x, y>> \in ips.before)
               /\ \A b \in Clients \ {c} : Spared(ips, d, b) \/ Evicted(ips, d, b, c)
<1> DEFINE f == IF (consumeCount + 1) % CleanupInterval = 0 THEN prune_inactive_ips(ips) ELSE ips
           d == Seen(f, c)
<1>1. d = Tidied(c)
  BY DEF Tidied
<1>2. ips.events \in [Clients -> Chronicle(Day)] /\ IsFiniteSet(ips.keys)
  BY DEF MapOK, Maps
<1>3. /\ MapOK(f) /\ Known(f)
      /\ f.keys \subseteq ips.keys /\ f.before \subseteq ips.before
      /\ \A b \in Clients : \/ f.events[b] = ips.events[b]
                            \/ f.events[b] = Prune(ips.events[b], Day)
      /\ \A b \in ips.keys \ f.keys : f.events[b] = <<>>
  BY PruneInactive
<1> HIDE DEF f
<1>4. Cardinality(f.keys) <= MaxIpKeys
  <2>1. /\ Cardinality(f.keys) \in Nat /\ Cardinality(ips.keys) \in Nat
        /\ Cardinality(f.keys) <= Cardinality(ips.keys)
    BY <1>2, <1>3, FS_Subset, FS_CardinalityType
  <2> QED
    BY <2>1
<1>5. /\ MapOK(d) /\ Known(d)
      /\ Cardinality(d.keys) <= MaxIpKeys
      /\ c \in d.keys /\ d.events[c] = Prune(f.events[c], Day)
      /\ d.keys \subseteq f.keys \cup {c}
      /\ \A x, y \in Clients : <<x, y>> \in d.before =>
            x # c /\ (y = c \/ <<x, y>> \in f.before)
      /\ \A b \in Clients \ {c} : Spared(f, d, b) \/ Evicted(f, d, b, c)
  BY <1>3, <1>4, SeenOK
<1> HIDE DEF d
<1>6. \A b \in Clients : Prune(f.events[b], Day) = Prune(ips.events[b], Day)
  BY <1>2, <1>3, PruneTwice
<1>7. Prune(<<>>, Day) = <<>>
  <2>1. /\ Prune(<<>>, Day) \in Chronicle(Day) /\ Len(Prune(<<>>, Day)) \in 0..Len(<<>>)
    BY EmptyChronicle, PruneIs
  <2>2. Len(Prune(<<>>, Day)) = 0
    BY <2>1, EmptyChronicle
  <2> QED
    BY <2>1, <2>2, LatestIs
<1>8. ASSUME NEW b \in Clients \ {c}, Spared(f, d, b) PROVE Spared(ips, d, b)
  <2>1. d.events[b] = f.events[b] \/ d.events[b] = Prune(f.events[b], Day)
    BY <1>8 DEF Spared
  <2>2. d.events[b] = ips.events[b] \/ d.events[b] = Prune(ips.events[b], Day)
    BY <1>3, <1>6, <2>1
  <2>3. ASSUME b \in ips.keys \ d.keys PROVE d.events[b] = <<>>
    BY <1>3, <1>7, <1>8, <2>1, <2>3 DEF Spared
  <2> QED
    BY <2>2, <2>3 DEF Spared
<1>9. \A b \in Clients : Evicted(f, d, b, c) => Evicted(ips, d, b, c)
  BY <1>3 DEF Evicted, Crowd
<1> QED
  BY <1>1, <1>3, <1>5, <1>6, <1>8, <1>9

-----------------------------------------------------------------------------
(* The invariant *)

MapInv == MapOK(ips) /\ Known(ips) /\ Cardinality(ips.keys) <= MaxIpKeys

\* What the limiter remembers of a client is what there was: e its deque, a its admissions.
Younger(e, a) == e # <<>> /\ Latest(e, 1) < Day => a # <<>> /\ Latest(a, 1) <= Latest(e, 1)

\* It forgets a client only if nothing is left of its day, or for a crowd.
Remembered(c) ==
    /\ Quotas(admitted[c])
    /\ IF c \in ips.keys THEN admitted[c] = Prune(ips.events[c], Day)
                         ELSE admitted[c] = <<>> \/ Cardinality(since[c]) >= MaxIpKeys

HistoryInv ==
    /\ admitted \in [Clients -> Chronicle(Day)]
    /\ \A c \in Clients : \A k \in 1..Len(admitted[c]) : Latest(admitted[c], k) < Day
    /\ since \in [Clients -> SUBSET Clients]
    /\ \A c \in Clients : IsFiniteSet(since[c])
    /\ crowded \subseteq Clients
    /\ \A x, y \in Clients : <<x, y>> \in ips.before => y \in since[x]
    /\ \A c \in Clients : Younger(ips.events[c], admitted[c])
    /\ \A c \in Clients \ crowded : Remembered(c)

\* Every admission of the last hour is in the deque of all clients.
Matched(m) == /\ m \in [LastHour -> 1..Len(globalEvents)]
              /\ \A x, y \in LastHour : m[x] = m[y] => x = y
              /\ \A x \in LastHour : globalEvents[m[x]] = admitted[x[1]][x[2]]

GlobalInv == /\ globalEvents \in Chronicle(Hour)
             /\ Len(globalEvents) <= GlobalPerHour
             /\ \E m : Matched(m)

CountInv == consumeCount \in 0..(CleanupInterval - 1)

Inv == MapInv /\ HistoryInv /\ GlobalInv /\ CountInv

\* Whoever is let in has room in each of its windows, and so has everybody's hour.
LEMMA AdmittedQuotas ==
    ASSUME NEW e \in Chronicle(Day), NEW g \in Chronicle(Hour), retry_after(e, g) = 0,
           \A k \in 1..Len(e) : Latest(e, k) < Day,
           \A k \in 1..Len(g) : Latest(g, k) < Hour
    PROVE  /\ Quotas(Append(e, 0)) /\ Len(Append(e, 0)) <= PerDay
           /\ Len(Append(g, 0)) <= GlobalPerHour
<1>1. /\ window_wait(e, Minute, PerMinute) = 0
      /\ window_wait(e, Hour, PerHour) = 0
      /\ window_wait(e, Day, PerDay) = 0
      /\ window_wait(g, Hour, GlobalPerHour) = 0
  <2>1. PICK w \in Nat : /\ w = 0 <=> /\ window_wait(e, Minute, PerMinute) = 0
                                      /\ window_wait(e, Hour, PerHour) = 0
                                      /\ window_wait(e, Day, PerDay) = 0
                                      /\ window_wait(g, Hour, GlobalPerHour) = 0
                         /\ retry_after(e, g) = (w + Second - 1) \div Second
    BY RetryIs
  <2>2. w = 0
    BY <2>1, RoundedUp
  <2> QED
    BY <2>1, <2>2
<1>2. Quotas(Append(e, 0)) /\ AtMost(Append(g, 0), Hour, GlobalPerHour)
  BY <1>1, RoomForOne DEF Quotas
<1>3. ASSUME NEW w \in Nat, NEW n \in Nat \ {0}, NEW d \in Chronicle(w),
             \A k \in 1..Len(d) : Latest(d, k) < w, AtMost(Append(d, 0), w, n)
      PROVE  Len(Append(d, 0)) <= n
  <2>1. /\ Len(Append(d, 0)) = Len(d) + 1 /\ Len(d) \in Nat
        /\ \A k \in 1..Len(d) : Latest(Append(d, 0), k + 1) = Latest(d, k) /\ Latest(d, k) \in 0..w
    BY AppendIs, LatestIs
  <2>2. CASE Len(d) >= n
    <3>1. n \in 1..Len(d) /\ Len(Append(d, 0)) > n
      BY <2>1, <2>2
    <3>2. Latest(d, n) >= w /\ Latest(d, n) < w /\ Latest(d, n) \in 0..w
      BY <1>3, <2>1, <3>1 DEF AtMost
    <3> QED
      BY <3>2
  <2>3. CASE ~(Len(d) >= n)
    BY <2>1, <2>3
  <2> QED
    BY <2>2, <2>3
<1>4. Len(Append(e, 0)) <= PerDay
  BY <1>2, <1>3 DEF Quotas
<1>5. Len(Append(g, 0)) <= GlobalPerHour
  BY <1>2, <1>3
<1> QED
  BY <1>2, <1>4, <1>5

\* What a submission of c does to the map and to the history.
Submission(c) == SubmitAccepted(c) \/ SubmitRefused(c)

LEMMA SubmissionMap ==
    ASSUME MapInv, globalEvents \in Chronicle(Hour), NEW c \in Clients, Submission(c)
    PROVE  /\ MapInv'
           /\ c \in ips'.keys /\ ips'.keys \subseteq ips.keys \cup {c}
           /\ \A x, y \in Clients : <<x, y>> \in ips'.before =>
                 x # c /\ (y = c \/ <<x, y>> \in ips.before)
           /\ \A b \in Clients \ {c} : Spared(ips, ips', b) \/ Evicted(ips, ips', b, c)
           /\ LET left == Prune(ips.events[c], Day)
              IN  \/ ips'.events[c] = left /\ UNCHANGED admitted
                  \/ /\ ips'.events[c] = Append(left, 0)
                     /\ admitted' = [admitted EXCEPT ![c] = Append(@, 0)]
<1> DEFINE d == Tidied(c)
           left == Prune(ips.events[c], Day)
<1>1. /\ MapOK(d) /\ Known(d)
      /\ Cardinality(d.keys) <= MaxIpKeys
      /\ c \in d.keys /\ d.events[c] = left
      /\ d.keys \subseteq ips.keys \cup {c}
      /\ \A x, y \in Clients : <<x, y>> \in d.before =>
            x # c /\ (y = c \/ <<x, y>> \in ips.before)
      /\ \A b \in Clients \ {c} : Spared(ips, d, b) \/ Evicted(ips, d, b, c)
  BY TidiedOK DEF MapInv
<1>2. CASE SubmitRefused(c)
  <2>1. ips' = d /\ UNCHANGED admitted
    BY <1>2 DEF SubmitRefused, Refuse
  <2> HIDE DEF d
  <2> QED
    BY <1>1, <2>1 DEF MapInv, MapOK, Known
<1>3. CASE SubmitAccepted(c)
  <2>1. /\ retry_after(d.events[c], Prune(globalEvents, Hour)) = 0
        /\ ips' = [d EXCEPT !.events[c] = Append(@, 0)]
        /\ admitted' = [admitted EXCEPT ![c] = Append(@, 0)]
    BY <1>3 DEF SubmitAccepted, Admit
  <2> HIDE DEF d
  <2>2. ips.events[c] \in Chronicle(Day)
    BY DEF MapInv, MapOK, Maps
  <2>3. /\ left \in Chronicle(Day)
        /\ \A k \in 1..Len(left) : Latest(left, k) < Day
        /\ Prune(globalEvents, Hour) \in Chronicle(Hour)
        /\ \A k \in 1..Len(Prune(globalEvents, Hour)) : Latest(Prune(globalEvents, Hour), k) < Hour
    BY <2>2, PruneIs
  <2> HIDE DEF left
  <2>4. /\ Append(left, 0) \in Chronicle(Day)
        /\ Quotas(Append(left, 0)) /\ Len(Append(left, 0)) <= PerDay
    BY <1>1, <2>1, <2>3, AppendIs, AdmittedQuotas
  <2>5. /\ ips' \in Maps /\ ips'.keys = d.keys /\ ips'.before = d.before
        /\ \A b \in Clients : ips'.events[b] = IF b = c THEN Append(left, 0) ELSE d.events[b]
    <3>1. d.events \in [Clients -> Chronicle(Day)] /\ d \in Maps
      BY <1>1 DEF MapOK, Maps
    <3>2. [d.events EXCEPT ![c] = Append(left, 0)] \in [Clients -> Chronicle(Day)]
      BY <2>4, <3>1
    <3>3. ips' = [d EXCEPT !.events = [d.events EXCEPT ![c] = Append(left, 0)]]
      BY <1>1, <2>1
    <3> QED
      BY <3>1, <3>2, <3>3 DEF Maps
  <2>6. MapOK(ips') /\ Known(ips')
    BY <1>1, <2>4, <2>5 DEF MapOK, Known
  <2>7. MapInv'
    BY <1>1, <2>5, <2>6 DEF MapInv
  <2>9. ips'.events[c] = Append(left, 0)
    BY <2>5
  <2>10. /\ c \in ips'.keys /\ ips'.keys \subseteq ips.keys \cup {c}
         /\ \A x, y \in Clients : <<x, y>> \in ips'.before =>
               x # c /\ (y = c \/ <<x, y>> \in ips.before)
    BY <1>1, <2>5
  <2>11. ASSUME NEW b \in Clients \ {c} PROVE Spared(ips, ips', b) \/ Evicted(ips, ips', b, c)
    <3>1. Spared(ips, d, b) \/ Evicted(ips, d, b, c)
      BY <1>1
    <3>2. CASE Spared(ips, d, b)
      BY <2>5, <3>2 DEF Spared
    <3>3. CASE Evicted(ips, d, b, c)
      BY <2>5, <3>3 DEF Evicted
    <3> QED
      BY <3>1, <3>2, <3>3
  <2> QED
    BY <2>1, <2>7, <2>9, <2>10, <2>11 DEF left
<1> QED
  BY <1>2, <1>3 DEF Submission

LEMMA AppendRecent ==
    ASSUME NEW d \in Chronicle(Day), \A k \in 1..Len(d) : Latest(d, k) < Day
    PROVE  /\ Append(d, 0) \in Chronicle(Day)
           /\ \A k \in 1..Len(Append(d, 0)) : Latest(Append(d, 0), k) < Day
           /\ Prune(Append(d, 0), Day) = Append(d, 0)
           /\ Append(d, 0) # <<>> /\ Latest(Append(d, 0), 1) = 0
<1>1. /\ Append(d, 0) \in Chronicle(Day)
      /\ Len(Append(d, 0)) = Len(d) + 1
      /\ Latest(Append(d, 0), 1) = 0
      /\ \A k \in 1..Len(d) : Latest(Append(d, 0), k + 1) = Latest(d, k)
  BY AppendIs
<1>2. Len(d) \in Nat
  BY LatestIs
<1>3. ASSUME NEW k \in 1..Len(Append(d, 0)) PROVE Latest(Append(d, 0), k) < Day
  <2>1. CASE k = 1
    BY <1>1, <2>1
  <2>2. CASE k # 1
    <3>1. k - 1 \in 1..Len(d) /\ (k - 1) + 1 = k
      BY <1>1, <1>2, <2>2
    <3> QED
      BY <1>1, <3>1
  <2> QED
    BY <2>1, <2>2
<1>4. Prune(Append(d, 0), Day) = Append(d, 0)
  BY <1>1, <1>3, PruneAgain
<1>5. Append(d, 0) # <<>>
  <2> DEFINE e == Append(d, 0)
  <2>1. e \in Chronicle(Day) /\ Len(e) > 0
    BY <1>1, <1>2
  <2> HIDE DEF e
  <2>2. e # <<>>
    BY <2>1, LatestIs
  <2> QED
    BY <2>2 DEF e
<1> QED
  BY <1>1, <1>3, <1>4, <1>5

\* A pruned deque is as young as it was.
LEMMA PrunedYounger ==
    ASSUME NEW e \in Chronicle(Day), NEW a, Younger(e, a)
    PROVE  Younger(Prune(e, Day), a)
<1>1. /\ Prune(e, Day) \in Chronicle(Day) /\ Len(Prune(e, Day)) \in 0..Len(e)
      /\ \A k \in 1..Len(Prune(e, Day)) : Latest(Prune(e, Day), k) = Latest(e, k)
  BY PruneIs
<1>2. Len(e) \in Nat /\ (Len(e) > 0 <=> e # <<>>)
  BY LatestIs
<1>3. Prune(e, Day) # <<>> => 1 \in 1..Len(Prune(e, Day)) /\ e # <<>>
  BY <1>1, <1>2, LatestIs
<1> QED
  BY <1>1, <1>3 DEF Younger

LEMMA SubmissionHistory ==
    ASSUME MapInv, HistoryInv, GlobalInv, NEW c \in Clients, Submission(c)
    PROVE  HistoryInv'
<1> DEFINE left == Prune(ips.events[c], Day)
<1>1. /\ MapInv'
      /\ c \in ips'.keys /\ ips'.keys \subseteq ips.keys \cup {c}
      /\ \A x, y \in Clients : <<x, y>> \in ips'.before =>
            x # c /\ (y = c \/ <<x, y>> \in ips.before)
      /\ \A b \in Clients \ {c} : Spared(ips, ips', b) \/ Evicted(ips, ips', b, c)
      /\ \/ ips'.events[c] = left /\ UNCHANGED admitted
         \/ /\ ips'.events[c] = Append(left, 0)
            /\ admitted' = [admitted EXCEPT ![c] = Append(@, 0)]
  BY SubmissionMap DEF GlobalInv
<1>2. /\ since' = [d \in Clients |-> IF d = c THEN {} ELSE since[d] \cup {c}]
      /\ crowded' = IF Cardinality(since[c]) >= MaxIpKeys THEN crowded \cup {c} ELSE crowded
  BY DEF Submission, SubmitAccepted, SubmitRefused, Noted
<1>3. /\ ips.events \in [Clients -> Chronicle(Day)]
      /\ ips'.events \in [Clients -> Chronicle(Day)]
      /\ admitted \in [Clients -> Chronicle(Day)]
  BY <1>1 DEF MapInv, MapOK, Maps, HistoryInv
<1>4. /\ left \in Chronicle(Day) /\ Prune(left, Day) = left
      /\ \A k \in 1..Len(left) : Latest(left, k) < Day
  <2>1. left \in Chronicle(Day)
    BY <1>3, PruneIs
  <2>2. \A k \in 1..Len(left) : Latest(left, k) < Day
    BY <1>3, PruneIs
  <2> QED
    BY <1>3, <2>1, <2>2, PruneTwice
<1> HIDE DEF left
<1>5. \A d \in Clients : \A k \in 1..Len(admitted[d]) : Latest(admitted[d], k) < Day
  BY DEF HistoryInv
<1>6. /\ admitted' \in [Clients -> Chronicle(Day)]
      /\ \A b \in Clients \ {c} : admitted'[b] = admitted[b]
      /\ admitted'[c] = admitted[c] \/ admitted'[c] = Append(admitted[c], 0)
      /\ admitted'[c] = admitted[c] => admitted' = admitted
  BY <1>1, <1>3, <1>5, AppendRecent
<1>7. \A d \in Clients : \A k \in 1..Len(admitted'[d]) : Latest(admitted'[d], k) < Day
  <2>1. \A k \in 1..Len(admitted'[c]) : Latest(admitted'[c], k) < Day
    BY <1>3, <1>5, <1>6, AppendRecent
  <2> QED
    BY <1>5, <1>6, <2>1
<1>8. /\ since' \in [Clients -> SUBSET Clients]
      /\ \A d \in Clients : IsFiniteSet(since'[d])
      /\ \A d \in Clients \ {c} : Cardinality(since[d]) <= Cardinality(since'[d])
                                  /\ Cardinality(since[d]) \in Nat
                                  /\ Cardinality(since'[d]) \in Nat
  <2>1. \A d \in Clients : since[d] \in SUBSET Clients /\ IsFiniteSet(since[d])
    BY DEF HistoryInv
  <2>2. ASSUME NEW d \in Clients \ {c}
        PROVE  /\ IsFiniteSet(since[d] \cup {c})
               /\ Cardinality(since[d]) \in Nat
               /\ Cardinality(since[d] \cup {c}) \in Nat
               /\ Cardinality(since[d]) <= Cardinality(since[d] \cup {c})
    <3>1. IsFiniteSet(since[d])
      BY <2>1
    <3>2. /\ IsFiniteSet(since[d] \cup {c})
          /\ Cardinality(since[d] \cup {c}) =
                IF c \in since[d] THEN Cardinality(since[d]) ELSE Cardinality(since[d]) + 1
      BY <3>1, FS_AddElement
    <3>3. Cardinality(since[d]) \in Nat
      BY <3>1, FS_CardinalityType
    <3> QED
      BY <3>2, <3>3
  <2> QED
    BY <1>2, <2>1, <2>2, FS_EmptySet
<1>9. crowded' \subseteq Clients /\ crowded \subseteq crowded'
  BY <1>2 DEF HistoryInv
<1>10. \A x, y \in Clients : <<x, y>> \in ips'.before => y \in since'[x]
  BY <1>1, <1>2 DEF HistoryInv
<1>11. ASSUME NEW b \in Clients \ {c}
       PROVE  Younger(ips'.events[b], admitted'[b])
  <2>1. /\ ips.events[b] \in Chronicle(Day) /\ admitted'[b] = admitted[b]
        /\ Younger(ips.events[b], admitted[b])
    BY <1>3, <1>6 DEF HistoryInv
  <2>2. \/ ips'.events[b] = ips.events[b]
        \/ ips'.events[b] = Prune(ips.events[b], Day)
        \/ ips'.events[b] = <<>>
    BY <1>1 DEF Spared, Evicted
  <2> QED
    BY <2>1, <2>2, PrunedYounger DEF Younger
<1>12. Younger(ips'.events[c], admitted'[c])
  <2>1. ips.events[c] \in Chronicle(Day) /\ Younger(ips.events[c], admitted[c])
    BY <1>3 DEF HistoryInv
  <2>2. CASE ips'.events[c] = left /\ UNCHANGED admitted
    BY <2>1, <2>2, PrunedYounger DEF left
  <2>3. CASE /\ ips'.events[c] = Append(left, 0)
             /\ admitted' = [admitted EXCEPT ![c] = Append(@, 0)]
    <3>1. admitted'[c] = Append(admitted[c], 0)
      BY <1>3, <2>3
    <3>2. /\ admitted'[c] # <<>> /\ Latest(admitted'[c], 1) = 0
          /\ Latest(ips'.events[c], 1) = 0
      BY <1>3, <1>4, <1>5, <2>3, <3>1, AppendRecent
    <3> QED
      BY <3>2 DEF Younger
  <2> QED
    BY <1>1, <2>2, <2>3
<1>13. ASSUME NEW b \in Clients \ {c}, b \notin crowded' PROVE Remembered(b)'
  <2>1. Remembered(b) /\ admitted'[b] = admitted[b] /\ ips.events[b] \in Chronicle(Day)
    BY <1>3, <1>6, <1>9, <1>13 DEF HistoryInv
  <2>2. CASE Spared(ips, ips', b)
    <3>1. Prune(ips'.events[b], Day) = Prune(ips.events[b], Day)
      BY <2>1, <2>2, PruneTwice DEF Spared
    <3>2. CASE b \in ips.keys \ ips'.keys
      <4>1. ips'.events[b] = <<>>
        BY <2>2, <3>2 DEF Spared
      <4>2. Prune(<<>>, Day) = <<>>
        BY EmptyChronicle, PruneAgain
      <4> QED
        BY <2>1, <3>1, <3>2, <4>1, <4>2 DEF Remembered
    <3>3. CASE b \in ips.keys /\ b \in ips'.keys
      BY <2>1, <3>1, <3>3 DEF Remembered
    <3>4. CASE b \notin ips.keys
      <4>1. b \notin ips'.keys
        BY <1>1, <3>4
      <4> QED
        BY <1>8, <2>1, <3>4, <4>1 DEF Remembered
    <3> QED
      BY <3>2, <3>3, <3>4
  <2>3. CASE Evicted(ips, ips', b, c)
    <3>1. PICK S \in SUBSET Clients : /\ IsFiniteSet(S) /\ Cardinality(S) >= MaxIpKeys
                                      /\ \A y \in S : y = c \/ <<b, y>> \in ips.before
      BY <2>3 DEF Evicted, Crowd
    <3>2. S \subseteq since'[b]
      BY <1>2, <3>1 DEF HistoryInv
    <3>3. Cardinality(since'[b]) >= MaxIpKeys
      <4>1. /\ Cardinality(S) \in Nat /\ Cardinality(since'[b]) \in Nat
            /\ Cardinality(S) <= Cardinality(since'[b])
        BY <1>8, <3>1, <3>2, FS_Subset, FS_CardinalityType
      <4> QED
        BY <3>1, <4>1
    <3>4. b \notin ips'.keys
      BY <2>3 DEF Evicted
    <3> QED
      BY <2>1, <3>3, <3>4 DEF Remembered
  <2>4. Spared(ips, ips', b) \/ Evicted(ips, ips', b, c)
    BY <1>1
  <2> QED
    BY <2>2, <2>3, <2>4
<1>14. ASSUME c \notin crowded' PROVE Remembered(c)'
  <2>1. c \notin crowded /\ ~(Cardinality(since[c]) >= MaxIpKeys)
    BY <1>2, <1>14
  <2>2. Remembered(c)
    BY <2>1 DEF HistoryInv
  <2>3. admitted[c] = left
    <3>1. CASE c \in ips.keys
      BY <2>2, <3>1 DEF Remembered, left
    <3>2. CASE c \notin ips.keys
      <4>1. ips.events[c] = <<>>
        BY <3>2 DEF MapInv, Known
      <4>2. left = <<>>
        BY <4>1, EmptyChronicle, PruneAgain DEF left
      <4> QED
        BY <2>1, <2>2, <3>2, <4>2 DEF Remembered
    <3> QED
      BY <3>1, <3>2
  <2>4. admitted'[c] = ips'.events[c] /\ Prune(ips'.events[c], Day) = ips'.events[c]
    <3>1. CASE ips'.events[c] = left /\ UNCHANGED admitted
      BY <1>4, <2>3, <3>1
    <3>2. CASE /\ ips'.events[c] = Append(left, 0)
               /\ admitted' = [admitted EXCEPT ![c] = Append(@, 0)]
      BY <1>3, <1>4, <2>3, <3>2, AppendRecent
    <3> QED
      BY <1>1, <3>1, <3>2
  <2>5. Quotas(ips'.events[c])
    BY <1>1 DEF MapInv, MapOK
  <2> QED
    BY <1>1, <2>4, <2>5 DEF Remembered
<1>15. \A b \in Clients \ crowded' : Remembered(b)'
  BY <1>13, <1>14
<1> QED
  BY <1>6, <1>7, <1>8, <1>9, <1>10, <1>11, <1>12, <1>15 DEF HistoryInv

-----------------------------------------------------------------------------
(* Time *)

\* Pruned, two deques are the same if their recent events are.
LEMMA SamePruned ==
    ASSUME NEW h \in Nat, NEW d \in Chronicle(h), NEW e \in Chronicle(h), NEW w \in Nat,
           \A k \in 1..Len(d) : Latest(d, k) < w => k <= Len(e) /\ Latest(e, k) = Latest(d, k),
           \A k \in 1..Len(e) : Latest(e, k) < w => k <= Len(d) /\ Latest(d, k) = Latest(e, k)
    PROVE  Prune(d, w) = Prune(e, w)
<1> DEFINE p == Prune(d, w)
           q == Prune(e, w)
<1>1. /\ p \in Chronicle(h) /\ Len(p) \in 0..Len(d)
      /\ \A k \in 1..Len(p) : Latest(p, k) = Latest(d, k) /\ Latest(d, k) < w
      /\ \A k \in 1..Len(d) : k > Len(p) => Latest(d, k) >= w
  BY PruneIs
<1>2. /\ q \in Chronicle(h) /\ Len(q) \in 0..Len(e)
      /\ \A k \in 1..Len(q) : Latest(q, k) = Latest(e, k) /\ Latest(e, k) < w
      /\ \A k \in 1..Len(e) : k > Len(q) => Latest(e, k) >= w
  BY PruneIs
<1>3. /\ Len(d) \in Nat /\ \A k \in 1..Len(d) : Latest(d, k) \in 0..h
      /\ Len(e) \in Nat /\ \A k \in 1..Len(e) : Latest(e, k) \in 0..h
  BY LatestIs
<1> HIDE DEF p, q
<1>4. Len(p) <= Len(q)
  <2> SUFFICES ASSUME Len(q) < Len(p) PROVE FALSE
    BY <1>1, <1>2, <1>3
  <2>1. Len(p) \in 1..Len(p) /\ Len(p) \in 1..Len(d)
    BY <1>1, <1>2, <1>3
  <2>2. Latest(d, Len(p)) < w /\ Len(p) \in 1..Len(e) /\ Latest(e, Len(p)) = Latest(d, Len(p))
    BY <1>1, <1>3, <2>1
  <2>3. Latest(e, Len(p)) >= w /\ Latest(e, Len(p)) \in Nat
    BY <1>2, <1>3, <2>2
  <2> QED
    BY <2>2, <2>3
<1>5. Len(q) <= Len(p)
  <2> SUFFICES ASSUME Len(p) < Len(q) PROVE FALSE
    BY <1>1, <1>2, <1>3
  <2>1. Len(q) \in 1..Len(q) /\ Len(q) \in 1..Len(e)
    BY <1>1, <1>2, <1>3
  <2>2. Latest(e, Len(q)) < w /\ Len(q) \in 1..Len(d) /\ Latest(d, Len(q)) = Latest(e, Len(q))
    BY <1>2, <1>3, <2>1
  <2>3. Latest(d, Len(q)) >= w /\ Latest(d, Len(q)) \in Nat
    BY <1>1, <1>3, <2>2
  <2> QED
    BY <2>2, <2>3
<1>6. Len(p) = Len(q)
  BY <1>1, <1>2, <1>3, <1>4, <1>5
<1>7. \A k \in 1..Len(p) : Latest(p, k) = Latest(q, k)
  <2> SUFFICES ASSUME NEW k \in 1..Len(p) PROVE Latest(p, k) = Latest(q, k)
    OBVIOUS
  <2>1. k \in 1..Len(q) /\ k \in 1..Len(d)
    BY <1>1, <1>3, <1>6
  <2> QED
    BY <1>1, <1>2, <2>1
<1>8. p = q
  BY <1>1, <1>2, <1>6, <1>7, SameFromTheEnd
<1> QED
  BY <1>8 DEF p, q

\* It does not matter whether a deque is pruned before a tick or after it.
LEMMA OlderPruned ==
    ASSUME NEW e \in Chronicle(Day)
    PROVE  Prune(Older(Prune(e, Day), 1, Day), Day) = Prune(Older(e, 1, Day), Day)
<1> DEFINE p == Prune(e, Day)
           o == Older(p, 1, Day)
           q == Older(e, 1, Day)
<1>1. /\ p \in Chronicle(Day) /\ Len(p) \in 0..Len(e)
      /\ \A k \in 1..Len(p) : Latest(p, k) = Latest(e, k) /\ Latest(e, k) < Day
      /\ \A k \in 1..Len(e) : k > Len(p) => Latest(e, k) >= Day
  BY PruneIs
<1>2. /\ o \in Chronicle(Day) /\ Len(o) = Len(p)
      /\ \A k \in 1..Len(p) : Latest(o, k) =
            IF Latest(p, k) + 1 <= Day THEN Latest(p, k) + 1 ELSE Day
  BY <1>1, OlderIs
<1>3. /\ q \in Chronicle(Day) /\ Len(q) = Len(e)
      /\ \A k \in 1..Len(e) : Latest(q, k) =
            IF Latest(e, k) + 1 <= Day THEN Latest(e, k) + 1 ELSE Day
  BY OlderIs
<1>4. Len(e) \in Nat /\ \A k \in 1..Len(e) : Latest(e, k) \in 0..Day
  BY LatestIs
<1> HIDE DEF p, o, q
<1>5. ASSUME NEW k \in 1..Len(o) PROVE k \in 1..Len(q) /\ Latest(q, k) = Latest(o, k)
  <2>1. k \in 1..Len(p) /\ k \in 1..Len(e)
    BY <1>1, <1>2, <1>4
  <2> QED
    BY <1>1, <1>2, <1>3, <2>1
<1>6. ASSUME NEW k \in 1..Len(q), Latest(q, k) < Day PROVE k \in 1..Len(o)
  <2>1. k \in 1..Len(e) /\ Latest(e, k) \in 0..Day
    BY <1>3, <1>4
  <2>2. Latest(e, k) < Day
    BY <1>3, <1>6, <2>1
  <2>3. ~(k > Len(p))
    BY <1>1, <2>1, <2>2
  <2>4. Len(o) = Len(p) /\ Len(p) \in Nat /\ k \in Nat /\ k >= 1
    BY <1>1, <1>2, <1>4, <2>1
  <2> QED
    BY <2>3, <2>4
<1>7. \A k \in 1..Len(o) : k <= Len(q) /\ Latest(q, k) = Latest(o, k)
  BY <1>3, <1>4, <1>5
<1>8. \A k \in 1..Len(q) : Latest(q, k) < Day => k <= Len(o) /\ Latest(o, k) = Latest(q, k)
  BY <1>1, <1>2, <1>4, <1>5, <1>6
<1>9. Prune(o, Day) = Prune(q, Day)
  <2>1. o \in Chronicle(Day) /\ q \in Chronicle(Day) /\ Day \in Nat
    BY <1>2, <1>3
  <2> QED
    BY <1>7, <1>8, <2>1, SamePruned
<1> QED
  BY <1>9 DEF o, p, q

LEMMA OlderQuotas ==
    ASSUME NEW d \in Chronicle(Day), Quotas(d)
    PROVE  Quotas(Older(d, 1, Day))
<1>1. /\ Len(Older(d, 1, Day)) = Len(d)
      /\ \A k \in 1..Len(d) : Latest(Older(d, 1, Day), k) =
            IF Latest(d, k) + 1 <= Day THEN Latest(d, k) + 1 ELSE Day
  BY OlderIs
<1>2. Len(d) \in Nat /\ \A k \in 1..Len(d) : Latest(d, k) \in 0..Day
  BY LatestIs
<1>3. ASSUME NEW w \in Nat, NEW n \in Nat, w <= Day, AtMost(d, w, n)
      PROVE  AtMost(Older(d, 1, Day), w, n)
  <2> SUFFICES ASSUME Len(d) > n PROVE Latest(Older(d, 1, Day), n + 1) >= w
    BY <1>1 DEF AtMost
  <2>1. n + 1 \in 1..Len(d) /\ Latest(d, n + 1) >= w
    BY <1>2, <1>3 DEF AtMost
  <2>2. /\ Latest(d, n + 1) \in 0..Day
        /\ Latest(Older(d, 1, Day), n + 1) =
              IF Latest(d, n + 1) + 1 <= Day THEN Latest(d, n + 1) + 1 ELSE Day
    BY <1>1, <1>2, <2>1
  <2> QED
    BY <1>3, <2>1, <2>2
<1> QED
  BY <1>3 DEF Quotas

LEMMA OlderYounger ==
    ASSUME NEW e \in Chronicle(Day), NEW a \in Chronicle(Day), Younger(e, a)
    PROVE  Younger(Older(e, 1, Day), Prune(Older(a, 1, Day), Day))
<1> DEFINE f == Older(e, 1, Day)
           b == Older(a, 1, Day)
           p == Prune(b, Day)
<1>1. /\ f \in Chronicle(Day) /\ Len(f) = Len(e)
      /\ \A k \in 1..Len(e) : Latest(f, k) =
            IF Latest(e, k) + 1 <= Day THEN Latest(e, k) + 1 ELSE Day
  BY OlderIs
<1>2. /\ b \in Chronicle(Day) /\ Len(b) = Len(a)
      /\ \A k \in 1..Len(a) : Latest(b, k) =
            IF Latest(a, k) + 1 <= Day THEN Latest(a, k) + 1 ELSE Day
  BY OlderIs
<1>3. /\ Len(e) \in Nat /\ (Len(e) > 0 <=> e # <<>>) /\ Len(a) \in Nat /\ (Len(a) > 0 <=> a # <<>>)
      /\ \A k \in 1..Len(e) : Latest(e, k) \in 0..Day
      /\ \A k \in 1..Len(a) : Latest(a, k) \in 0..Day
  BY LatestIs
<1>4. /\ p \in Chronicle(Day) /\ Len(p) \in 0..Len(b)
      /\ \A k \in 1..Len(p) : Latest(p, k) = Latest(b, k)
      /\ \A k \in 1..Len(b) : k > Len(p) => Latest(b, k) >= Day
  BY <1>2, PruneIs
<1> HIDE DEF f, b, p
<1>5. (Len(f) > 0 <=> f # <<>>) /\ (Len(p) > 0 <=> p # <<>>)
  BY <1>1, <1>4, LatestIs
<1>6. ASSUME f # <<>>, Latest(f, 1) < Day PROVE p # <<>> /\ Latest(p, 1) <= Latest(f, 1)
  <2>1. 1 \in 1..Len(e) /\ e # <<>>
    BY <1>1, <1>3, <1>5, <1>6
  <2>2. Latest(e, 1) \in 0..Day /\ Latest(f, 1) = Latest(e, 1) + 1 /\ Latest(e, 1) < Day
    BY <1>1, <1>3, <1>6, <2>1
  <2>3. a # <<>> /\ Latest(a, 1) <= Latest(e, 1)
    BY <2>1, <2>2 DEF Younger
  <2>4. 1 \in 1..Len(a) /\ Latest(a, 1) \in 0..Day
    BY <1>3, <2>3
  <2>5. Latest(b, 1) = Latest(a, 1) + 1 /\ Latest(b, 1) < Day /\ Latest(b, 1) <= Latest(f, 1)
    BY <1>2, <1>6, <2>2, <2>3, <2>4
  <2>6. ~(1 > Len(p))
    BY <1>2, <1>4, <2>4, <2>5
  <2>7. 1 \in 1..Len(p)
    BY <1>2, <1>3, <1>4, <2>6
  <2> QED
    BY <1>4, <1>5, <2>5, <2>7
<1>7. Younger(f, p)
  BY <1>6 DEF Younger
<1> QED
  BY <1>7 DEF f, b, p

LEMMA TickMapHistory ==
    ASSUME MapInv, HistoryInv, Tick
    PROVE  MapInv' /\ HistoryInv'
<1> DEFINE ev == [c \in Clients |-> Older(ips.events[c], 1, Day)]
<1>1. /\ ips' = [ips EXCEPT !.events = ev]
      /\ admitted' = [c \in Clients |-> Prune(Older(admitted[c], 1, Day), Day)]
      /\ crowded' = {c \in crowded : admitted'[c] # <<>>}
      /\ since' = since
  BY DEF Tick, LimiterTick
<1>2. ips \in Maps /\ ips.events \in [Clients -> Chronicle(Day)]
      /\ admitted \in [Clients -> Chronicle(Day)]
  BY DEF MapInv, MapOK, Maps, HistoryInv
<1>3. ASSUME NEW c \in Clients
      PROVE  /\ ev[c] = Older(ips.events[c], 1, Day) /\ ev[c] \in Chronicle(Day)
             /\ Len(ev[c]) = Len(ips.events[c])
             /\ Quotas(ev[c]) /\ Len(ev[c]) <= PerDay
             /\ ev[c] # <<>> <=> ips.events[c] # <<>>
  <2>1. ips.events[c] \in Chronicle(Day) /\ Quotas(ips.events[c]) /\ Len(ips.events[c]) <= PerDay
    BY <1>2 DEF MapInv, MapOK
  <2>2. ev[c] = Older(ips.events[c], 1, Day)
    OBVIOUS
  <2> HIDE DEF ev
  <2>3. ev[c] \in Chronicle(Day) /\ Len(ev[c]) = Len(ips.events[c]) /\ Quotas(ev[c])
    BY <2>1, <2>2, OlderIs, OlderQuotas
  <2>4. (Len(ev[c]) > 0 <=> ev[c] # <<>>) /\ (Len(ips.events[c]) > 0 <=> ips.events[c] # <<>>)
    BY <2>1, <2>3, LatestIs
  <2> QED
    BY <2>1, <2>2, <2>3, <2>4
<1>4. ev \in [Clients -> Chronicle(Day)]
  BY <1>3
<1> HIDE DEF ev
<1>5. ips' \in Maps /\ ips'.keys = ips.keys /\ ips'.before = ips.before /\ ips'.events = ev
  BY <1>1, <1>2, <1>4 DEF Maps
<1>6. MapInv'
  <2>1. MapOK(ips') /\ Known(ips')
    BY <1>3, <1>5 DEF MapInv, MapOK, Known
  <2> QED
    BY <1>5, <2>1 DEF MapInv
<1>7. ASSUME NEW c \in Clients
      PROVE  /\ admitted'[c] = Prune(Older(admitted[c], 1, Day), Day)
             /\ admitted'[c] \in Chronicle(Day)
             /\ \A k \in 1..Len(admitted'[c]) : Latest(admitted'[c], k) < Day
             /\ Quotas(admitted[c]) => Quotas(admitted'[c])
             /\ Younger(ev[c], admitted'[c])
  <2> DEFINE o == Older(admitted[c], 1, Day)
  <2>1. admitted'[c] = Prune(o, Day)
    BY <1>1
  <2>2. admitted[c] \in Chronicle(Day) /\ o \in Chronicle(Day)
    BY <1>2, OlderIs
  <2>3. Quotas(admitted[c]) => Quotas(o)
    BY <2>2, OlderQuotas
  <2>4. Younger(ips.events[c], admitted[c]) /\ ips.events[c] \in Chronicle(Day)
    BY <1>2 DEF HistoryInv
  <2>5. Younger(ev[c], Prune(o, Day))
    BY <1>3, <2>2, <2>4, OlderYounger
  <2> HIDE DEF o
  <2>6. Quotas(o) => Quotas(Prune(o, Day))
    BY <2>2, PruneQuotas
  <2>7. /\ Prune(o, Day) \in Chronicle(Day)
        /\ \A k \in 1..Len(Prune(o, Day)) : Latest(Prune(o, Day), k) < Day
    BY <2>2, PruneIs
  <2> QED
    BY <2>1, <2>3, <2>5, <2>6, <2>7 DEF o
<1>8. admitted' \in [Clients -> Chronicle(Day)]
  BY <1>1, <1>7
<1>9. ASSUME NEW c \in Clients \ crowded' PROVE Remembered(c)'
  <2>1. CASE c \in crowded
    <3>1. admitted'[c] = <<>>
      BY <1>1, <1>9, <2>1
    <3>2. Quotas(admitted'[c])
      BY <3>1, EmptyChronicle
    <3>3. Prune(ev[c], Day) = <<>>
      <4> SUFFICES ASSUME Prune(ev[c], Day) # <<>> PROVE FALSE
        OBVIOUS
      <4>1. /\ Prune(ev[c], Day) \in Chronicle(Day) /\ Len(Prune(ev[c], Day)) \in 0..Len(ev[c])
            /\ \A k \in 1..Len(Prune(ev[c], Day)) : Latest(ev[c], k) < Day
        BY <1>3, PruneIs
      <4>2. Len(Prune(ev[c], Day)) > 0 /\ Len(ev[c]) \in Nat /\ (Len(ev[c]) > 0 => ev[c] # <<>>)
        BY <1>3, <4>1, LatestIs
      <4>3. ev[c] # <<>> /\ Latest(ev[c], 1) < Day
        BY <4>1, <4>2
      <4> QED
        BY <1>7, <3>1, <4>3 DEF Younger
    <3> QED
      BY <1>5, <3>1, <3>2, <3>3 DEF Remembered
  <2>2. CASE c \notin crowded
    <3>1. Remembered(c)
      BY <2>2 DEF HistoryInv
    <3>2. CASE c \in ips.keys
      <4>1. admitted[c] = Prune(ips.events[c], Day) /\ ips.events[c] \in Chronicle(Day)
        BY <1>2, <3>1, <3>2 DEF Remembered
      <4>2. admitted'[c] = Prune(ev[c], Day)
        BY <1>3, <1>7, <4>1, OlderPruned
      <4> QED
        BY <1>5, <1>7, <3>1, <3>2, <4>2 DEF Remembered
    <3>3. CASE c \notin ips.keys
      <4>1. CASE admitted[c] = <<>>
        <5>1. /\ Older(<<>>, 1, Day) \in Chronicle(Day) /\ Len(Older(<<>>, 1, Day)) = 0
          BY EmptyChronicle, OlderIs
        <5>2. Older(<<>>, 1, Day) = <<>>
          BY <5>1, LatestIs
        <5>3. Prune(<<>>, Day) = <<>>
          BY EmptyChronicle, PruneAgain
        <5> QED
          BY <1>5, <1>7, <3>1, <3>3, <4>1, <5>2, <5>3 DEF Remembered
      <4>2. CASE Cardinality(since[c]) >= MaxIpKeys
        BY <1>1, <1>5, <1>7, <3>1, <3>3, <4>2 DEF Remembered
      <4> QED
        BY <3>1, <3>3, <4>1, <4>2 DEF Remembered
    <3> QED
      BY <3>2, <3>3
  <2> QED
    BY <2>1, <2>2
<1>10. HistoryInv'
  <2>1. /\ since' \in [Clients -> SUBSET Clients]
        /\ \A c \in Clients : IsFiniteSet(since'[c])
        /\ crowded' \subseteq Clients
        /\ \A x, y \in Clients : <<x, y>> \in ips'.before => y \in since'[x]
    BY <1>1, <1>5 DEF HistoryInv
  <2>2. \A c \in Clients : Younger(ips'.events[c], admitted'[c])
    BY <1>5, <1>7
  <2>3. \A c \in Clients : \A k \in 1..Len(admitted'[c]) : Latest(admitted'[c], k) < Day
    BY <1>7
  <2> QED
    BY <1>8, <1>9, <2>1, <2>2, <2>3 DEF HistoryInv
<1> QED
  BY <1>6, <1>10

-----------------------------------------------------------------------------
(* Everybody's hour *)

\* Prune and Older, seen from the beginning.
LEMMA PrunePlaces ==
    ASSUME NEW h \in Nat, NEW d \in Chronicle(h), NEW w \in Nat
    PROVE  \E n \in 0..Len(d) : /\ Len(Prune(d, w)) = Len(d) - n
                                /\ \A i \in 1..(Len(d) - n) : Prune(d, w)[i] = d[n + i]
                                /\ \A i \in 1..n : d[i] >= w
<1> DEFINE n == Outdated(d, w)
<1>1. d \in Seq(0..h)
  BY DEF Chronicle
<1>2. n \in 0..Len(d) /\ \A i \in 1..n : d[i] >= w
  BY <1>1, OutdatedIs
<1>3. Prune(d, w) = SubSeq(d, n + 1, Len(d))
  BY DEF Prune
<1> HIDE DEF n
<1>4. /\ Len(Prune(d, w)) = Len(d) - n
      /\ \A i \in 1..(Len(d) - n) : Prune(d, w)[i] = d[n + i]
  BY <1>1, <1>2, <1>3
<1> QED
  BY <1>2, <1>4

LEMMA OlderPlaces ==
    ASSUME NEW h \in Nat, NEW d \in Chronicle(h), NEW t \in Nat
    PROVE  \A i \in 1..Len(d) : /\ d[i] \in 0..h
                                /\ Older(d, t, h)[i] = IF d[i] + t <= h THEN d[i] + t ELSE h
<1>1. d \in Seq(0..h)
  BY DEF Chronicle
<1>2. ASSUME NEW a \in Nat PROVE Min({a, h}) = IF a <= h THEN a ELSE h
  BY DEF Min
<1>3. DOMAIN d = 1..Len(d) /\ \A i \in 1..Len(d) : d[i] \in 0..h
  BY <1>1
<1>4. \A i \in 1..Len(d) : d[i] + t \in Nat
  BY <1>3
<1> QED
  BY <1>2, <1>3, <1>4 DEF Older

LEMMA LastHourIs ==
    ASSUME HistoryInv, NEW x
    PROVE  x \in LastHour <=> \E c \in Clients : \E i \in 1..Len(admitted[c]) :
                                 x = <<c, i>> /\ admitted[c][i] < Hour
<1>1. \A c \in Clients : DOMAIN admitted[c] = 1..Len(admitted[c])
  BY DEF HistoryInv, Chronicle
<1> QED
  BY <1>1 DEF LastHour

LEMMA Shifted ==
    ASSUME NEW n \in Nat, NEW i \in Nat
    PROVE  /\ n + (i - n) = i
           /\ \A l \in Nat : n < i /\ i <= l => i - n \in 1..(l - n)
           /\ \A j \in Nat : i - n = j - n => i = j
OBVIOUS

\* What is left of the deque of all clients still has every admission of the last hour.
LEMMA MatchedPruned ==
    ASSUME HistoryInv, globalEvents \in Chronicle(Hour), NEW m, Matched(m)
    PROVE  \E n \in Nat : \A x \in LastHour :
              /\ m[x] \in Nat /\ m[x] - n \in 1..Len(Prune(globalEvents, Hour))
              /\ Prune(globalEvents, Hour)[m[x] - n] = admitted[x[1]][x[2]]
<1> DEFINE p == Prune(globalEvents, Hour)
<1>1. PICK n \in 0..Len(globalEvents) :
         /\ Len(p) = Len(globalEvents) - n
         /\ \A i \in 1..(Len(globalEvents) - n) : p[i] = globalEvents[n + i]
         /\ \A i \in 1..n : globalEvents[i] >= Hour
  BY PrunePlaces
<1>2. /\ Len(globalEvents) \in Nat
      /\ \A i \in 1..Len(globalEvents) : globalEvents[i] \in 0..Hour
  BY DEF Chronicle
<1> HIDE DEF p
<1>3. ASSUME NEW x \in LastHour
      PROVE  /\ m[x] \in Nat /\ m[x] - n \in 1..Len(p)
             /\ p[m[x] - n] = admitted[x[1]][x[2]]
  <2>1. m[x] \in 1..Len(globalEvents) /\ globalEvents[m[x]] = admitted[x[1]][x[2]]
    BY DEF Matched
  <2>2. admitted[x[1]][x[2]] < Hour
    BY LastHourIs
  <2>3. m[x] \notin 1..n
    <3> SUFFICES ASSUME m[x] \in 1..n PROVE FALSE
      OBVIOUS
    <3>1. globalEvents[m[x]] >= Hour
      BY <1>1
    <3>2. globalEvents[m[x]] < Hour
      BY <2>1, <2>2
    <3>3. globalEvents[m[x]] \in Nat /\ Hour \in Nat
      BY <1>2, <2>1
    <3> QED
      BY <3>1, <3>2, <3>3
  <2>4. m[x] - n \in 1..(Len(globalEvents) - n) /\ n + (m[x] - n) = m[x]
    <3>1. /\ m[x] \in Nat /\ n \in Nat /\ Len(globalEvents) \in Nat
          /\ m[x] <= Len(globalEvents) /\ m[x] > n
      BY <1>2, <2>1, <2>3
    <3> QED
      BY <3>1, Shifted
  <2>5. p[m[x] - n] = globalEvents[n + (m[x] - n)]
    BY <1>1, <2>4
  <2>6. m[x] \in Nat /\ m[x] - n \in 1..Len(p)
    BY <1>1, <2>1, <2>4
  <2> QED
    BY <2>1, <2>4, <2>5, <2>6
<1>4. n \in Nat
  BY <1>2
<1>5. \E k \in Nat : \A x \in LastHour : /\ m[x] \in Nat /\ m[x] - k \in 1..Len(p)
                                        /\ p[m[x] - k] = admitted[x[1]][x[2]]
  BY <1>3, <1>4
<1> QED
  BY <1>5 DEF p

LEMMA RefusedGlobal ==
    ASSUME HistoryInv, GlobalInv, NEW c \in Clients, SubmitRefused(c)
    PROVE  GlobalInv'
<1> DEFINE p == Prune(globalEvents, Hour)
<1>1. globalEvents' = p /\ admitted' = admitted /\ LastHour' = LastHour
  BY DEF SubmitRefused, Refuse, LastHour
<1>2. p \in Chronicle(Hour) /\ Len(p) <= GlobalPerHour
  <2>1. p \in Chronicle(Hour) /\ Len(p) \in 0..Len(globalEvents) /\ Len(globalEvents) \in Nat
        /\ Len(globalEvents) <= GlobalPerHour
    BY PruneIs, LatestIs DEF GlobalInv
  <2> QED
    BY <2>1
<1>3. PICK m : Matched(m)
  BY DEF GlobalInv
<1>4. PICK n \in Nat :
         \A x \in LastHour : /\ m[x] \in Nat /\ m[x] - n \in 1..Len(p)
                             /\ p[m[x] - n] = admitted[x[1]][x[2]]
  <2>1. globalEvents \in Chronicle(Hour)
    BY DEF GlobalInv
  <2> QED
    BY <1>3, <2>1, MatchedPruned
<1> DEFINE f == [x \in LastHour |-> m[x] - n]
<1> HIDE DEF p
<1>5. \A x, y \in LastHour : f[x] = f[y] => x = y
  <2> SUFFICES ASSUME NEW x \in LastHour, NEW y \in LastHour, f[x] = f[y] PROVE x = y
    OBVIOUS
  <2>1. m[x] \in Nat /\ m[y] \in Nat
    BY <1>4
  <2>2. m[x] - n = m[y] - n
    OBVIOUS
  <2>3. m[x] = m[y]
    BY <2>1, <2>2
  <2> QED
    BY <1>3, <2>3 DEF Matched
<1>6. Matched(f)'
  BY <1>1, <1>4, <1>5 DEF Matched
<1> QED
  BY <1>1, <1>2, <1>6 DEF GlobalInv

LEMMA AcceptedGlobal ==
    ASSUME MapInv, HistoryInv, HistoryInv', GlobalInv, NEW c \in Clients, SubmitAccepted(c)
    PROVE  GlobalInv'
<1> DEFINE p == Prune(globalEvents, Hour)
           d == Tidied(c)
           e == Prune(ips.events[c], Day)
<1>1. /\ globalEvents' = Append(p, 0)
      /\ admitted' = [admitted EXCEPT ![c] = Append(@, 0)]
      /\ retry_after(d.events[c], p) = 0
  BY DEF SubmitAccepted, Admit
<1>2. /\ p \in Chronicle(Hour) /\ Len(p) \in Nat
      /\ \A k \in 1..Len(p) : Latest(p, k) < Hour
  <2>1. globalEvents \in Chronicle(Hour)
    BY DEF GlobalInv
  <2>2. p \in Chronicle(Hour) /\ \A k \in 1..Len(p) : Latest(p, k) < Hour
    BY <2>1, PruneIs
  <2> QED
    BY <2>2, LatestIs
<1>3. /\ e \in Chronicle(Day)
      /\ \A k \in 1..Len(e) : Latest(e, k) < Day
  <2>1. ips.events[c] \in Chronicle(Day)
    BY DEF MapInv, MapOK, Maps
  <2> QED
    BY <2>1, PruneIs
<1>4. d.events[c] = e
  BY TidiedOK DEF MapInv
<1> HIDE DEF d, e
<1>5. globalEvents' \in Chronicle(Hour) /\ Len(globalEvents') <= GlobalPerHour
  <2> HIDE DEF p
  <2> QED
    BY <1>1, <1>2, <1>3, <1>4, AppendIs, AdmittedQuotas
<1>6. PICK m : Matched(m)
  BY DEF GlobalInv
<1>7. PICK n \in Nat :
         \A x \in LastHour : /\ m[x] \in Nat /\ m[x] - n \in 1..Len(p)
                             /\ p[m[x] - n] = admitted[x[1]][x[2]]
  <2>1. globalEvents \in Chronicle(Hour)
    BY DEF GlobalInv
  <2> QED
    BY <1>6, <2>1, MatchedPruned
<1> HIDE DEF p
<1> DEFINE new == <<c, Len(admitted[c]) + 1>>
<1>8. /\ admitted \in [Clients -> Chronicle(Day)]
      /\ \A b \in Clients : admitted[b] \in Seq(0..Day) /\ Len(admitted[b]) \in Nat
  BY DEF HistoryInv, Chronicle
<1>9. /\ admitted'[c] = Append(admitted[c], 0)
      /\ \A b \in Clients \ {c} : admitted'[b] = admitted[b]
      /\ Len(admitted'[c]) = Len(admitted[c]) + 1
      /\ \A i \in 1..Len(admitted[c]) : admitted'[c][i] = admitted[c][i]
      /\ admitted'[c][Len(admitted[c]) + 1] = 0
  <2>1. admitted'[c] = Append(admitted[c], 0) /\ \A b \in Clients \ {c} : admitted'[b] = admitted[b]
    BY <1>1, <1>8
  <2> QED
    BY <1>8, <2>1
<1>10. ASSUME NEW x \in LastHour'
       PROVE  x = new \/ (x # new /\ x \in LastHour /\ admitted'[x[1]][x[2]] = admitted[x[1]][x[2]])
  <2>1. \E b \in Clients : \E i \in 1..Len(admitted'[b]) :
           x = <<b, i>> /\ admitted'[b][i] < Hour
    <3>1. \A b \in Clients : DOMAIN admitted'[b] = 1..Len(admitted'[b])
      BY DEF HistoryInv, Chronicle
    <3> QED
      BY <3>1 DEF LastHour
  <2>2. PICK b \in Clients : \E i \in 1..Len(admitted'[b]) :
           x = <<b, i>> /\ admitted'[b][i] < Hour
    BY <2>1
  <2>3. PICK i \in 1..Len(admitted'[b]) : x = <<b, i>> /\ admitted'[b][i] < Hour
    BY <2>2
  <2>4. CASE b # c
    <3>1. admitted'[b] = admitted[b] /\ x # new
      BY <1>9, <2>3, <2>4
    <3> QED
      BY <2>3, <3>1, LastHourIs
  <2>5. CASE b = c
    <3>1. CASE i = Len(admitted[c]) + 1
      BY <2>3, <2>5, <3>1
    <3>2. CASE i # Len(admitted[c]) + 1
      <4>1. i \in 1..Len(admitted[c]) /\ x # new
        BY <1>8, <1>9, <2>3, <2>5, <3>2
      <4>2. admitted[c][i] < Hour /\ admitted'[c][i] = admitted[c][i]
        BY <1>9, <2>3, <2>5, <4>1
      <4> QED
        BY <2>3, <2>5, <4>1, <4>2, LastHourIs
    <3> QED
      BY <3>1, <3>2
  <2> QED
    BY <2>4, <2>5
<1> HIDE DEF new
<1> DEFINE f == [x \in LastHour' |-> IF x = new THEN Len(p) + 1 ELSE m[x] - n]
<1>11. /\ Len(globalEvents') = Len(p) + 1
       /\ \A i \in 1..Len(p) : globalEvents'[i] = p[i]
       /\ globalEvents'[Len(p) + 1] = 0
  <2>1. p \in Seq(0..Hour)
    BY <1>2 DEF Chronicle
  <2> QED
    BY <1>1, <2>1
<1>12. ASSUME NEW x \in LastHour'
       PROVE  /\ f[x] \in 1..Len(globalEvents')
              /\ globalEvents'[f[x]] = admitted'[x[1]][x[2]]
  <2>1. CASE x = new
    <3>1. f[x] = Len(p) + 1 /\ admitted'[x[1]][x[2]] = 0
      BY <1>9, <2>1 DEF new
    <3> QED
      BY <1>2, <1>11, <3>1
  <2>2. CASE x # new
    <3>1. x \in LastHour /\ admitted'[x[1]][x[2]] = admitted[x[1]][x[2]] /\ f[x] = m[x] - n
      BY <1>10, <2>2
    <3>2. f[x] \in 1..Len(p) /\ p[f[x]] = admitted[x[1]][x[2]]
      BY <1>7, <3>1
    <3> HIDE DEF f
    <3> QED
      BY <1>2, <1>11, <3>1, <3>2
  <2> QED
    BY <2>1, <2>2
<1>13. \A x, y \in LastHour' : f[x] = f[y] => x = y
  <2> SUFFICES ASSUME NEW x \in LastHour', NEW y \in LastHour', f[x] = f[y] PROVE x = y
    OBVIOUS
  <2>1. ASSUME NEW z \in LastHour', z # new
        PROVE  z \in LastHour /\ m[z] \in Nat /\ f[z] = m[z] - n /\ f[z] <= Len(p) /\ f[z] \in Int
    <3>1. z \in LastHour /\ f[z] = m[z] - n
      BY <1>10, <2>1
    <3> HIDE DEF f
    <3>2. m[z] \in Nat /\ m[z] - n \in 1..Len(p)
      BY <1>7, <3>1
    <3> QED
      BY <1>2, <3>1, <3>2
  <2>2. \A z \in LastHour' : z = new => f[z] = Len(p) + 1
    OBVIOUS
  <2> HIDE DEF f
  <2>3. CASE x = new \/ y = new
    BY <1>2, <2>1, <2>2, <2>3
  <2>4. CASE x # new /\ y # new
    <3>1. x \in LastHour /\ m[x] \in Nat /\ f[x] = m[x] - n
      BY <2>1, <2>4
    <3>2. y \in LastHour /\ m[y] \in Nat /\ f[y] = m[y] - n
      BY <2>1, <2>4
    <3>3. m[x] - n = m[y] - n
      BY <3>1, <3>2
    <3>4. m[x] = m[y]
      BY <3>1, <3>2, <3>3, Shifted
    <3> QED
      BY <1>6, <3>1, <3>2, <3>4 DEF Matched
  <2> QED
    BY <2>3, <2>4
<1>14. f \in [LastHour' -> 1..Len(globalEvents')]
  BY <1>12
<1> HIDE DEF f
<1>15. (\E g : Matched(g))'
  BY <1>12, <1>13, <1>14 DEF Matched
<1> QED
  BY <1>5, <1>15 DEF GlobalInv

\* Time: an admission has the same place in the deque of all clients, and is found further
\* ahead in the history, which loses what is a day old.
LEMMA TickGlobal ==
    ASSUME HistoryInv, HistoryInv', GlobalInv, Tick
    PROVE  GlobalInv'
<1>1. /\ globalEvents' = Older(globalEvents, 1, Hour)
      /\ admitted' = [c \in Clients |-> Prune(Older(admitted[c], 1, Day), Day)]
  BY DEF Tick, LimiterTick
<1>2. globalEvents \in Chronicle(Hour)
  BY DEF GlobalInv
<1>3. /\ globalEvents' \in Chronicle(Hour)
      /\ Len(globalEvents') = Len(globalEvents)
      /\ Len(globalEvents') <= GlobalPerHour
      /\ \A i \in 1..Len(globalEvents) :
            /\ globalEvents[i] \in 0..Hour
            /\ globalEvents'[i] = IF globalEvents[i] + 1 <= Hour THEN globalEvents[i] + 1 ELSE Hour
  <2>1. /\ globalEvents' \in Chronicle(Hour)
        /\ Len(globalEvents') = Len(globalEvents)
    BY <1>1, <1>2, OlderIs
  <2>2. \A i \in 1..Len(globalEvents) :
           /\ globalEvents[i] \in 0..Hour
           /\ globalEvents'[i] = IF globalEvents[i] + 1 <= Hour THEN globalEvents[i] + 1 ELSE Hour
    <3>1. \A i \in 1..Len(globalEvents) :
             /\ globalEvents[i] \in 0..Hour
             /\ Older(globalEvents, 1, Hour)[i] =
                   IF globalEvents[i] + 1 <= Hour THEN globalEvents[i] + 1 ELSE Hour
      BY <1>2, OlderPlaces
    <3> QED
      BY <1>1, <3>1
  <2>3. Len(globalEvents) <= GlobalPerHour
    BY DEF GlobalInv
  <2> QED
    BY <2>1, <2>2, <2>3
<1> DEFINE Off(c) == Len(admitted[c]) - Len(admitted'[c])
<1>4. ASSUME NEW c \in Clients
      PROVE  /\ Off(c) \in Nat /\ Len(admitted[c]) \in Nat /\ Len(admitted'[c]) \in Nat
             /\ \A i \in 1..Len(admitted'[c]) :
                   /\ Off(c) + i \in 1..Len(admitted[c])
                   /\ admitted[c][Off(c) + i] \in 0..Day
                   /\ admitted'[c][i] = IF admitted[c][Off(c) + i] + 1 <= Day
                                        THEN admitted[c][Off(c) + i] + 1 ELSE Day
  <2> DEFINE o == Older(admitted[c], 1, Day)
  <2>1. admitted[c] \in Chronicle(Day) /\ admitted'[c] = Prune(o, Day)
    BY <1>1 DEF HistoryInv
  <2>2. /\ o \in Chronicle(Day) /\ Len(o) = Len(admitted[c]) /\ Len(o) \in Nat
        /\ \A i \in 1..Len(admitted[c]) :
              /\ admitted[c][i] \in 0..Day
              /\ o[i] = IF admitted[c][i] + 1 <= Day THEN admitted[c][i] + 1 ELSE Day
    BY <2>1, OlderIs, OlderPlaces, LatestIs
  <2> HIDE DEF o
  <2>3. PICK n \in 0..Len(o) : /\ Len(Prune(o, Day)) = Len(o) - n
                               /\ \A i \in 1..(Len(o) - n) : Prune(o, Day)[i] = o[n + i]
                               /\ \A i \in 1..n : o[i] >= Day
    BY <2>2, PrunePlaces
  <2>4. n = Off(c) /\ n \in Nat /\ Len(admitted'[c]) = Len(o) - n /\ Len(admitted'[c]) \in Nat
    BY <2>1, <2>2, <2>3
  <2>5. ASSUME NEW i \in 1..Len(admitted'[c])
        PROVE  n + i \in 1..Len(admitted[c]) /\ admitted'[c][i] = o[n + i]
    <3>1. i \in 1..(Len(o) - n)
      BY <2>4
    <3>2. Prune(o, Day)[i] = o[n + i]
      BY <2>3, <3>1
    <3>3. n + i \in 1..Len(admitted[c])
      <4>1. Len(o) \in Nat /\ Len(admitted[c]) = Len(o) /\ n \in Nat /\ i \in Nat
        BY <2>2, <2>4
      <4> HIDE DEF Off
      <4>2. n + i \in 1..Len(o)
        BY <3>1, <4>1
      <4> QED
        BY <4>1, <4>2
    <3> QED
      BY <2>1, <3>2, <3>3
  <2> QED
    BY <2>2, <2>4, <2>5
<1> DEFINE Back(x) == <<x[1], Off(x[1]) + x[2]>>
<1>5. ASSUME NEW x \in LastHour'
      PROVE  \E c \in Clients : \E i \in 1..Len(admitted'[c]) :
                x = <<c, i>> /\ admitted'[c][i] < Hour
  <2>1. \A c \in Clients : DOMAIN admitted'[c] = 1..Len(admitted'[c])
    BY DEF HistoryInv, Chronicle
  <2> QED
    BY <2>1 DEF LastHour
<1> HIDE DEF Off
<1>6. ASSUME NEW x \in LastHour'
      PROVE  /\ Back(x) \in LastHour
             /\ admitted[x[1]][Off(x[1]) + x[2]] \in Nat
             /\ admitted[x[1]][Off(x[1]) + x[2]] < Hour
             /\ admitted'[x[1]][x[2]] = admitted[x[1]][Off(x[1]) + x[2]] + 1
  <2>0. PICK c \in Clients : \E i \in 1..Len(admitted'[c]) :
           x = <<c, i>> /\ admitted'[c][i] < Hour
    BY <1>5
  <2>1. PICK i \in 1..Len(admitted'[c]) : x = <<c, i>> /\ admitted'[c][i] < Hour
    BY <2>0
  <2>2. /\ Off(c) + i \in 1..Len(admitted[c])
        /\ admitted[c][Off(c) + i] \in 0..Day
        /\ admitted'[c][i] = IF admitted[c][Off(c) + i] + 1 <= Day
                             THEN admitted[c][Off(c) + i] + 1 ELSE Day
    BY <1>4
  <2>3. admitted'[c][i] = admitted[c][Off(c) + i] + 1 /\ admitted[c][Off(c) + i] < Hour
    BY <2>1, <2>2
  <2>4. Back(x) = <<c, Off(c) + i>> /\ x[1] = c /\ x[2] = i
    BY <2>1
  <2>5. Back(x) \in LastHour
    BY <2>2, <2>3, <2>4, LastHourIs
  <2> QED
    BY <2>2, <2>3, <2>4, <2>5
<1>7. ASSUME NEW x \in LastHour', NEW y \in LastHour', Back(x) = Back(y)
      PROVE  x = y
  <2>1. PICK c \in Clients : \E i \in 1..Len(admitted'[c]) : x = <<c, i>>
    BY <1>5
  <2>2. PICK i \in 1..Len(admitted'[c]) : x = <<c, i>>
    BY <2>1
  <2>3. PICK b \in Clients : \E j \in 1..Len(admitted'[b]) : y = <<b, j>>
    BY <1>5
  <2>4. PICK j \in 1..Len(admitted'[b]) : y = <<b, j>>
    BY <2>3
  <2>5. c = b /\ Off(c) + i = Off(c) + j
    BY <1>7, <2>2, <2>4
  <2>6. i \in Nat /\ j \in Nat /\ Off(c) \in Nat
    BY <1>4
  <2> QED
    BY <2>2, <2>4, <2>5, <2>6
<1>8. PICK m : Matched(m)
  BY DEF GlobalInv
<1> DEFINE f == [x \in LastHour' |-> m[Back(x)]]
<1>9. ASSUME NEW x \in LastHour'
      PROVE  /\ f[x] \in 1..Len(globalEvents')
             /\ globalEvents'[f[x]] = admitted'[x[1]][x[2]]
  <2>1. /\ Back(x) \in LastHour
        /\ admitted[x[1]][Off(x[1]) + x[2]] \in Nat
        /\ admitted[x[1]][Off(x[1]) + x[2]] < Hour
        /\ admitted'[x[1]][x[2]] = admitted[x[1]][Off(x[1]) + x[2]] + 1
    BY <1>6
  <2>2. m[Back(x)] \in 1..Len(globalEvents)
        /\ globalEvents[m[Back(x)]] = admitted[Back(x)[1]][Back(x)[2]]
    BY <1>8, <2>1 DEF Matched
  <2>3. globalEvents[f[x]] = admitted[x[1]][Off(x[1]) + x[2]] /\ f[x] \in 1..Len(globalEvents)
    BY <2>2
  <2> HIDE DEF f
  <2>4. f[x] \in 1..Len(globalEvents')
    BY <1>3, <2>3
  <2>5. globalEvents'[f[x]] = IF globalEvents[f[x]] + 1 <= Hour THEN globalEvents[f[x]] + 1 ELSE Hour
    BY <1>3, <2>3
  <2> QED
    BY <2>1, <2>3, <2>4, <2>5
<1>10. \A x, y \in LastHour' : f[x] = f[y] => x = y
  <2> SUFFICES ASSUME NEW x \in LastHour', NEW y \in LastHour', f[x] = f[y] PROVE x = y
    OBVIOUS
  <2>1. Back(x) \in LastHour /\ Back(y) \in LastHour /\ m[Back(x)] = m[Back(y)]
    BY <1>6
  <2>2. Back(x) = Back(y)
    <3> HIDE DEF Back
    <3> QED
      BY <1>8, <2>1 DEF Matched
  <2> QED
    BY <1>7, <2>2
<1>11. f \in [LastHour' -> 1..Len(globalEvents')]
  BY <1>9
<1> HIDE DEF f
<1>12. (\E g : Matched(g))'
  BY <1>9, <1>10, <1>11 DEF Matched
<1> QED
  BY <1>3, <1>12 DEF GlobalInv

-----------------------------------------------------------------------------
(* The theorems *)

LEMMA InitInv ==
    Init => Inv
<1> SUFFICES ASSUME Init PROVE Inv
  OBVIOUS
<1>1. /\ ips = NoIps /\ globalEvents = <<>> /\ consumeCount = 0
      /\ admitted = [c \in Clients |-> <<>>] /\ since = [c \in Clients |-> {}] /\ crowded = {}
  BY DEF Init, LimiterInit, NoHistory
<1>2. <<>> \in Chronicle(Day) /\ <<>> \in Chronicle(Hour) /\ Len(<<>>) = 0 /\ Quotas(<<>>)
  BY EmptyChronicle
<1>3. /\ ips.keys = {} /\ ips.before = {} /\ ips.events = [c \in Clients |-> <<>>]
      /\ ips \in Maps
  <2>1. [c \in Clients |-> <<>>] \in [Clients -> Chronicle(Day)]
    BY <1>2
  <2> QED
    BY <1>1, <2>1 DEF NoIps, Maps
<1>4. IsFiniteSet({}) /\ Cardinality({}) = 0
  BY FS_EmptySet
<1>5. MapInv
  <2>1. MapOK(ips) /\ Known(ips)
    BY <1>2, <1>3, <1>4 DEF MapOK, Known
  <2> QED
    BY <1>3, <1>4, <2>1 DEF MapInv
<1>6. HistoryInv
  <2>1. admitted \in [Clients -> Chronicle(Day)] /\ since \in [Clients -> SUBSET Clients]
    BY <1>1, <1>2
  <2>2. \A c \in Clients : admitted[c] = <<>> /\ since[c] = {} /\ ips.events[c] = <<>>
    BY <1>1, <1>3
  <2>3. Prune(<<>>, Day) = <<>>
    BY <1>2, PruneAgain
  <2>4. \A c \in Clients : Younger(ips.events[c], admitted[c]) /\ Remembered(c)
    BY <1>2, <2>2, <2>3 DEF Younger, Remembered
  <2>5. \A c \in Clients : \A k \in 1..Len(admitted[c]) : Latest(admitted[c], k) < Day
    BY <1>2, <2>2
  <2> QED
    BY <1>1, <1>3, <1>4, <2>1, <2>2, <2>4, <2>5 DEF HistoryInv
<1>7. GlobalInv
  <2>1. LastHour = {}
    BY <1>1 DEF LastHour
  <2>2. [x \in {} |-> 1] \in [{} -> 1..Len(globalEvents)]
    OBVIOUS
  <2>3. \E m : Matched(m)
    BY <2>1, <2>2 DEF Matched
  <2> QED
    BY <1>1, <1>2, <2>3 DEF GlobalInv
<1>8. CountInv
  BY <1>1 DEF CountInv
<1> QED
  BY <1>5, <1>6, <1>7, <1>8 DEF Inv

LEMMA CountedInv ==
    ASSUME CountInv, Counted
    PROVE  CountInv'
<1>1. CleanupInterval \in Nat \ {0} /\ consumeCount + 1 \in Nat
  BY DEF CountInv
<1>2. (consumeCount + 1) % CleanupInterval \in 0..(CleanupInterval - 1)
  BY <1>1
<1> QED
  BY <1>2 DEF CountInv, Counted

LEMMA StepInv ==
    Inv /\ [Next]_vars => Inv'
<1> SUFFICES ASSUME Inv, [Next]_vars PROVE Inv'
  OBVIOUS
<1>1. MapInv /\ HistoryInv /\ GlobalInv /\ CountInv
  BY DEF Inv
<1>2. ASSUME NEW c \in Clients, Submission(c) PROVE Inv'
  <2>1. MapInv'
    BY <1>1, <1>2, SubmissionMap DEF GlobalInv
  <2>2. HistoryInv'
    BY <1>1, <1>2, SubmissionHistory
  <2>3. GlobalInv'
    <3>1. CASE SubmitAccepted(c)
      BY <1>1, <2>2, <3>1, AcceptedGlobal
    <3>2. CASE SubmitRefused(c)
      BY <1>1, <3>2, RefusedGlobal
    <3> QED
      BY <1>2, <3>1, <3>2 DEF Submission
  <2>4. Counted
    BY <1>2 DEF Submission, SubmitAccepted, SubmitRefused, Admit, Refuse
  <2>5. CountInv'
    BY <1>1, <2>4, CountedInv
  <2> QED
    BY <2>1, <2>2, <2>3, <2>5 DEF Inv
<1>3. CASE Restart
  <2>1. Init'
    BY <1>3 DEF Restart, LimiterForgets, Init, LimiterInit
  <2>2. (Init => Inv)'
    BY InitInv, PTL
  <2> QED
    BY <2>1, <2>2
<1>4. CASE Tick
  <2>1. MapInv' /\ HistoryInv'
    BY <1>1, <1>4, TickMapHistory
  <2>2. GlobalInv'
    BY <1>1, <1>4, <2>1, TickGlobal
  <2>3. CountInv'
    BY <1>1, <1>4 DEF Tick, LimiterTick, CountInv
  <2> QED
    BY <2>1, <2>2, <2>3 DEF Inv
<1>5. CASE UNCHANGED vars
  <2>1. /\ ips' = ips /\ globalEvents' = globalEvents /\ consumeCount' = consumeCount
        /\ admitted' = admitted /\ since' = since /\ crowded' = crowded
    BY <1>5 DEF vars
  <2>2. MapInv' /\ CountInv'
    BY <1>1, <2>1 DEF MapInv, CountInv
  <2>3. \A c \in Clients : Remembered(c) => Remembered(c)'
    BY <2>1 DEF Remembered
  <2>4. HistoryInv'
    BY <1>1, <2>1, <2>3 DEF HistoryInv
  <2>5. GlobalInv'
    <3>1. LastHour' = LastHour
      BY <2>1 DEF LastHour
    <3> QED
      BY <1>1, <2>1, <3>1 DEF GlobalInv, Matched
  <2> QED
    BY <2>2, <2>4, <2>5 DEF Inv
<1> QED
  BY <1>2, <1>3, <1>4, <1>5 DEF Next, Submission

\* The invariant of backend/app/feedback_rate_limit.py, with the history of one process: the
\* map of clients keeps its bound and its order, what it knows of a client is what there was,
\* it forgets a client only for a crowd, and the deque of all clients has every admission of
\* the last hour.
THEOREM LimiterInvariant ==
    Spec => []Inv
<1> QED
  BY InitInv, StepInv, PTL DEF Spec

\* The memory of the limiter is bounded, for any number of clients: no more than MaxIpKeys
\* addresses, sorted deques, and none longer than the policy of FeedbackRateLimiter allows.
THEOREM LimiterTyped ==
    Spec => []TypeOK
<1>1. Inv => TypeOK
  <2> SUFFICES ASSUME Inv PROVE TypeOK
    OBVIOUS
  <2>1. MapOK(ips) /\ Known(ips) /\ Cardinality(ips.keys) <= MaxIpKeys
    BY DEF Inv, MapInv
  <2>2. ips.keys \subseteq Clients /\ ips.before \subseteq ips.keys \X ips.keys
    BY <2>1 DEF MapOK, Maps
  <2>3. ASSUME NEW c \in Clients
        PROVE  /\ Deque(ips.events[c], Day, PerDay)
               /\ ips.events[c] # <<>> => c \in ips.keys
               /\ admitted[c] \in Seq(0..Day)
               /\ since[c] \subseteq Clients
    <3>1. ips.events[c] \in Chronicle(Day) /\ Len(ips.events[c]) <= PerDay
      BY <2>1 DEF MapOK, Maps
    <3>2. Deque(ips.events[c], Day, PerDay)
      BY <3>1 DEF Chronicle, Deque
    <3>3. admitted[c] \in Chronicle(Day) /\ since[c] \in SUBSET Clients
      BY DEF Inv, HistoryInv
    <3> QED
      BY <2>1, <3>2, <3>3 DEF Chronicle, Known
  <2>4. Deque(globalEvents, Hour, GlobalPerHour)
    BY DEF Inv, GlobalInv, Chronicle, Deque
  <2>5. consumeCount \in 0..(CleanupInterval - 1) /\ crowded \subseteq Clients
    BY DEF Inv, CountInv, HistoryInv
  <2> QED
    BY <2>1, <2>2, <2>3, <2>4, <2>5 DEF TypeOK
<1> QED
  BY <1>1, LimiterInvariant, PTL

\* However many clients there are, and however they are refused, forgotten or evicted, an
\* hour of a process sees no more admissions than _global_per_hour: FeedbackRateLimiter.consume
\* asks the deque of all clients before it admits one, and that deque forgets none of them.
THEOREM GlobalQuotaProved ==
    Spec => []GlobalQuotaHolds
<1>1. Inv => GlobalQuotaHolds
  <2> SUFFICES ASSUME Inv PROVE GlobalQuotaHolds
    OBVIOUS
  <2>1. PICK m : Matched(m)
    BY DEF Inv, GlobalInv
  <2>2. Len(globalEvents) \in Nat /\ Len(globalEvents) <= GlobalPerHour
    BY DEF Inv, GlobalInv, Chronicle
  <2>3. m \in Injection(LastHour, 1..Len(globalEvents))
    BY <2>1 DEF Matched, Injection, IsInjective
  <2>4. /\ IsFiniteSet(1..Len(globalEvents))
        /\ Cardinality(1..Len(globalEvents)) = Len(globalEvents)
    <3>1. ASSUME NEW n \in Nat PROVE IsFiniteSet(1..n) /\ Cardinality(1..n) = n
      <4>1. /\ IsFiniteSet(1..n)
            /\ Cardinality(1..n) = IF 1 > n THEN 0 ELSE n - 1 + 1
        <5>1. 1 \in Int /\ n \in Int
          OBVIOUS
        <5> QED
          BY <5>1, FS_Interval, Zenon
      <4> QED
        BY <4>1
    <3> QED
      BY <2>2, <3>1
  <2>5. IsFiniteSet(LastHour) /\ Cardinality(LastHour) <= Len(globalEvents)
    BY <2>3, <2>4, FS_Injection
  <2>6. Cardinality(LastHour) \in Nat
    BY <2>5, FS_CardinalityType
  <2> QED
    BY <2>2, <2>5, <2>6 DEF GlobalQuotaHolds
<1> QED
  BY <1>1, LimiterInvariant, PTL

\* A client exceeds the limits of a minute, an hour or a day only if MaxIpKeys others came
\* in between its own submissions: _make_room_for_ip evicts the key that has not been seen
\* for longest, and consume makes a client the most recent key even when it refuses it.
THEOREM ClientQuotaProved ==
    Spec => []ClientQuotaLostOnlyToACrowd
<1>1. Inv => ClientQuotaLostOnlyToACrowd
  <2> SUFFICES ASSUME Inv, NEW c \in Clients \ crowded
               PROVE  /\ Within(Minute, admitted[c]) <= PerMinute
                      /\ Within(Hour, admitted[c]) <= PerHour
                      /\ Within(Day, admitted[c]) <= PerDay
    BY DEF ClientQuotaLostOnlyToACrowd
  <2>1. admitted[c] \in Chronicle(Day) /\ Remembered(c)
    BY DEF Inv, HistoryInv
  <2> QED
    BY <2>1, WithinIs DEF Remembered, Quotas
<1> QED
  BY <1>1, LimiterInvariant, PTL

\* Retry-After is exact: whoever comes back after the announced seconds is let in if no one
\* else came, and a second earlier is not. consume takes the longest of the four waits and
\* rounds it up to whole seconds.
THEOREM RetryAfterProved ==
    Spec => []RetryAfterIsHonest
<1>1. Inv => RetryAfterIsHonest
  <2> SUFFICES ASSUME Inv, NEW c \in Clients, WaitAfter(c, 0) # 0
               PROVE  /\ WaitAfter(c, WaitAfter(c, 0) * Second) = 0
                      /\ WaitAfter(c, (WaitAfter(c, 0) - 1) * Second) # 0
    BY DEF RetryAfterIsHonest
  <2>1. ips.events[c] \in Chronicle(Day) /\ globalEvents \in Chronicle(Hour)
    BY DEF Inv, MapInv, MapOK, Maps, GlobalInv
  <2>2. PICK w \in Nat : \A t \in Nat : /\ WaitAfter(c, t) \in Nat
                                        /\ WaitAfter(c, t) = 0 <=> w <= t
                                        /\ t = 0 => WaitAfter(c, t) = (w + Second - 1) \div Second
    BY <2>1, WaitAfterIs DEF WaitAfter
  <2> DEFINE q == WaitAfter(c, 0)
  <2>3. q \in Nat /\ q = (w + Second - 1) \div Second /\ q # 0
    BY <2>2
  <2> HIDE DEF q
  <2>4. w <= q * Second /\ (q - 1) * Second \in Nat /\ (q - 1) * Second < w
    <3>1. Second \in Nat \ {0}
      OBVIOUS
    <3>2. w <= q * Second
      BY <2>3, <3>1, RoundedUp
    <3>3. (q - 1) * Second \in Nat
      BY <2>3, <3>1, RoundedUp
    <3>4. (q - 1) * Second < w
      BY <2>3, <3>1, RoundedUp
    <3> QED
      BY <3>2, <3>3, <3>4
  <2>5. q * Second \in Nat
    BY <2>3
  <2>6. WaitAfter(c, q * Second) = 0
    BY <2>2, <2>4, <2>5
  <2>7. WaitAfter(c, (q - 1) * Second) # 0
    BY <2>2, <2>4
  <2> QED
    BY <2>6, <2>7 DEF q
<1> QED
  BY <1>1, LimiterInvariant, PTL
=============================================================================
