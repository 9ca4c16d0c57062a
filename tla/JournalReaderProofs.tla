-------------------------- MODULE JournalReaderProofs --------------------------
(***************************************************************************)
(* The journal reader, for every query, kind of entry and length of the    *)
(* journal: read() keeps the contract of bounded_page(), the pages a       *)
(* client turns go back without gaps, and follow() leaves nothing out and  *)
(* gives nothing twice without cause.                                      *)
(***************************************************************************)
EXTENDS JournalReader, FiniteSetTheorems, TLAPS

-----------------------------------------------------------------------------
(* The order of a page.  Rank is a bijection between a finite set of numbers *)
(* and the places of its sequence.                                           *)

LEMMA RankType ==
  ASSUME NEW S, IsFiniteSet(S), S \subseteq Nat, NEW i \in S
  PROVE  Rank(S, i) \in 1..Cardinality(S)
<1> DEFINE T == {j \in S : j <= i}
<1>1. T \in SUBSET S /\ i \in T
  OBVIOUS
<1>2. IsFiniteSet(T) /\ Cardinality(T) <= Cardinality(S)
  BY <1>1, FS_Subset
<1>3. Cardinality(S) \in Nat /\ Cardinality(T) \in Nat /\ Cardinality(T) # 0
  BY <1>1, <1>2, FS_CardinalityType, FS_EmptySet
<1> QED BY <1>2, <1>3 DEF Rank

LEMMA RankOrder ==
  ASSUME NEW S, IsFiniteSet(S), S \subseteq Nat, NEW i \in S, NEW j \in S, i < j
  PROVE  Rank(S, i) < Rank(S, j)
<1> DEFINE T == {k \in S : k <= i}
           U == {k \in S : k <= j}
<1>0. i \in Nat /\ j \in Nat /\ \A k \in S : k \in Nat
  OBVIOUS
<1>1. T \in SUBSET U /\ j \in U /\ j \notin T /\ U \in SUBSET S
  <2>1. \A k \in S : k <= i => k <= j
    BY <1>0
  <2>2. ~(j <= i) /\ j <= j
    BY <1>0
  <2> QED BY <2>1, <2>2
<1>2. IsFiniteSet(U)
  BY <1>1, FS_Subset
<1>3. IsFiniteSet(T) /\ Cardinality(T) <= Cardinality(U) /\ Cardinality(U) # Cardinality(T)
  BY <1>1, <1>2, FS_Subset
<1>4. Cardinality(T) \in Nat /\ Cardinality(U) \in Nat
  BY <1>2, <1>3, FS_CardinalityType
<1>5. Cardinality(T) < Cardinality(U)
  BY <1>3, <1>4
<1> QED BY <1>5 DEF Rank

LEMMA RankReaches ==
  ASSUME NEW S, IsFiniteSet(S), S \subseteq Nat, NEW k \in 1..Cardinality(S)
  PROVE  \E i \in S : Rank(S, i) = k
<1> DEFINE T == 1..Cardinality(S)
           r == [i \in S |-> Rank(S, i)]
<1>1. Cardinality(S) \in Nat
  BY FS_CardinalityType
<1>2. IsFiniteSet(T) /\ Cardinality(T) = Cardinality(S)
  BY <1>1, FS_Interval
<1>3. r \in [S -> T]
  BY RankType
<1>4. \A i, j \in S : r[i] = r[j] => i = j
  <2> SUFFICES ASSUME NEW i \in S, NEW j \in S, i # j PROVE Rank(S, i) # Rank(S, j)
    OBVIOUS
  <2>1. Rank(S, i) \in 1..Cardinality(S) /\ Rank(S, j) \in 1..Cardinality(S)
    BY RankType
  <2>2. CASE i < j
    <3>1. Rank(S, i) < Rank(S, j)
      BY <2>2, RankOrder
    <3> QED BY <1>1, <2>1, <3>1
  <2>3. CASE j < i
    <3>1. Rank(S, j) < Rank(S, i)
      BY <2>3, RankOrder
    <3> QED BY <1>1, <2>1, <3>1
  <2>4. i \in Nat /\ j \in Nat
    OBVIOUS
  <2> QED BY <2>2, <2>3, <2>4
<1>5. r \in Injection(S, T)
  BY <1>3, <1>4 DEF Injection, IsInjective
<1> HIDE DEF r, T
<1>6. r \in Surjection(S, T)
  BY <1>2, <1>5, FS_Injection
<1>7. \E i \in S : r[i] = k
  BY <1>6 DEF Surjection, T
<1> QED BY <1>7 DEF r

\* What Ascending() is.
LEMMA AscendingOrder ==
  ASSUME NEW S, IsFiniteSet(S), S \subseteq Nat
  PROVE  /\ Ascending(S) \in Seq(S) /\ Len(Ascending(S)) = Cardinality(S)
         /\ \A k, l \in 1..Len(Ascending(S)) : k < l => Ascending(S)[k] < Ascending(S)[l]
         /\ \A i \in S : \E k \in 1..Len(Ascending(S)) : Ascending(S)[k] = i
<1> DEFINE A == Ascending(S)
           n == Cardinality(S)
<1>1. n \in Nat
  BY FS_CardinalityType
<1>2. \A k \in 1..n : A[k] \in S /\ Rank(S, A[k]) = k
  BY RankReaches DEF Ascending
<1>3. A \in [1..n -> S]
  BY <1>2 DEF Ascending
<1> HIDE DEF A, n
<1>4. A \in Seq(S) /\ Len(A) = n
  BY <1>1, <1>3
<1>5. ASSUME NEW k \in 1..n, NEW l \in 1..n, k < l PROVE A[k] < A[l]
  <2>1. A[k] \in S /\ A[l] \in S /\ A[k] \in Nat /\ A[l] \in Nat
    BY <1>2
  <2>2. A[k] # A[l]
    BY <1>2, <1>5
  <2>3. ~(A[l] < A[k])
    <3> SUFFICES ASSUME A[l] < A[k] PROVE FALSE
      OBVIOUS
    <3>1. Rank(S, A[l]) < Rank(S, A[k])
      BY <2>1, RankOrder
    <3> QED BY <1>2, <1>5, <3>1
  <2> QED BY <2>1, <2>2, <2>3
<1>6. ASSUME NEW i \in S PROVE \E k \in 1..n : A[k] = i
  <2> DEFINE k == Rank(S, i)
  <2>1. k \in 1..n
    BY RankType DEF n
  <2>2. A[k] \in S /\ Rank(S, A[k]) = Rank(S, i)
    BY <1>2, <2>1
  <2>3. ~(A[k] < i) /\ ~(i < A[k])
    <3>1. Rank(S, i) \in Nat
      BY <1>1, <2>1
    <3> DEFINE a == A[k]
    <3>0. a \in S /\ Rank(S, a) = Rank(S, i)
      BY <2>2
    <3> HIDE DEF a
    <3>2. ASSUME a < i PROVE FALSE
      <4>1. Rank(S, a) < Rank(S, i)
        BY <3>0, <3>2, RankOrder
      <4> QED BY <3>0, <3>1, <4>1
    <3>3. ASSUME i < a PROVE FALSE
      <4>1. Rank(S, i) < Rank(S, a)
        BY <3>0, <3>3, RankOrder
      <4> QED BY <3>0, <3>1, <4>1
    <3> USE DEF a
    <3> QED BY <3>2, <3>3
  <2>4. A[k] \in Nat /\ i \in Nat
    BY <2>2
  <2>5. A[k] = i
    BY <2>3, <2>4
  <2> QED BY <2>1, <2>5
<1> QED BY <1>4, <1>5, <1>6 DEF A, n

\* Sequences in the order of the journal, and in the opposite one.
Up(s) == \A k, l \in 1..Len(s) : k < l => s[k] < s[l]
Down(s) == \A k, l \in 1..Len(s) : k < l => s[l] < s[k]

\* A page in the order of the journal, and one newest first: what is wanted and
\* not on it lies beyond it.
Upward(p, M) == /\ p \in Seq(M) /\ Up(p)
                /\ \A i \in M : (\E k \in 1..Len(p) : p[k] = i) \/ \A k \in 1..Len(p) : p[k] < i
Downward(p, M) == /\ p \in Seq(M) /\ Down(p) /\ (p = <<>> => M = {})
                  /\ \A i \in M : (\E k \in 1..Len(p) : p[k] = i) \/ \A k \in 1..Len(p) : i < p[k]

LEMMA TakeFacts ==
  ASSUME NEW M, NEW s \in Seq(M), NEW n \in Nat
  PROVE  /\ Take(s, n) \in Seq(M) /\ Len(Take(s, n)) = (IF Len(s) <= n THEN Len(s) ELSE n)
         /\ \A k \in 1..Len(Take(s, n)) : k \in 1..Len(s) /\ Take(s, n)[k] = s[k]
  BY DEF Take

LEMMA MatchingFinite ==
  ASSUME NEW S, IsFiniteSet(S), S \subseteq Nat, NEW q
  PROVE  IsFiniteSet(Matching(S, q)) /\ Matching(S, q) \subseteq S
<1>1. Matching(S, q) \subseteq S
  BY DEF Matching
<1> QED BY <1>1, FS_Subset

LEMMA OldestFirst ==
  ASSUME NEW S, IsFiniteSet(S), S \subseteq Nat, NEW q, q.limit \in Nat, ~q.newest_first
  PROVE  Upward(InOrder(S, q), Matching(S, q))
<1> DEFINE M == Matching(S, q)
           s == Ascending(M)
           p == Take(s, q.limit)
<1>1. IsFiniteSet(M) /\ M \subseteq Nat
  BY MatchingFinite
<1>2. /\ s \in Seq(M) /\ \A k, l \in 1..Len(s) : k < l => s[k] < s[l]
      /\ \A i \in M : \E k \in 1..Len(s) : s[k] = i
  <2> HIDE DEF M
  <2> QED BY <1>1, AscendingOrder
<1>3. InOrder(S, q) = p
  BY DEF InOrder
<1> HIDE DEF M, s
<1>4. /\ p \in Seq(M) /\ Len(p) = (IF Len(s) <= q.limit THEN Len(s) ELSE q.limit)
      /\ \A k \in 1..Len(p) : k \in 1..Len(s) /\ p[k] = s[k]
  BY <1>2, TakeFacts
<1>5. Len(s) \in Nat /\ Len(p) \in Nat
  BY <1>2, <1>4
<1> HIDE DEF p
<1>6. Up(p)
  BY <1>2, <1>4 DEF Up
<1>7. ASSUME NEW i \in M
      PROVE  (\E k \in 1..Len(p) : p[k] = i) \/ \A k \in 1..Len(p) : p[k] < i
  <2>1. PICK l \in 1..Len(s) : s[l] = i
    BY <1>2
  <2>2. CASE l <= Len(p)
    BY <1>4, <1>5, <2>1, <2>2
  <2>3. CASE ~(l <= Len(p))
    <3>1. \A k \in 1..Len(p) : k < l
      BY <1>5, <2>3
    <3> QED BY <1>2, <1>4, <2>1, <3>1
  <2> QED BY <2>2, <2>3
<1> QED BY <1>3, <1>4, <1>6, <1>7 DEF Upward, M

LEMMA TakeNewest ==
  ASSUME NEW M, IsFiniteSet(M), M \subseteq Nat, NEW n \in Nat \ {0}
  PROVE  Downward(Take(Descending(M), n), M)
<1> DEFINE s == Ascending(M)
           r == Descending(M)
           p == Take(r, n)
<1>2. /\ s \in Seq(M) /\ \A k, l \in 1..Len(s) : k < l => s[k] < s[l]
      /\ \A i \in M : \E k \in 1..Len(s) : s[k] = i
  BY AscendingOrder
<1>3. Len(s) \in Nat /\ r = [k \in 1..Len(s) |-> s[Len(s) - k + 1]]
  <2>1. Len(s) \in Nat
    BY <1>2
  <2>2. Len(s) = Cardinality(M)
    BY AscendingOrder
  <2> QED BY <2>1, <2>2 DEF Descending
<1> HIDE DEF s, r
<1>4. /\ r \in Seq(M) /\ Len(r) = Len(s) /\ Len(s) \in Nat
      /\ \A k \in 1..Len(s) : Len(s) - k + 1 \in 1..Len(s) /\ r[k] = s[Len(s) - k + 1]
  <2>1. \A k \in 1..Len(s) : Len(s) - k + 1 \in 1..Len(s)
    BY <1>3
  <2>2. \A k \in 1..Len(s) : s[Len(s) - k + 1] \in M
    BY <1>2, <2>1
  <2>3. r \in [1..Len(s) -> M]
    BY <1>3, <2>2
  <2> QED BY <1>3, <2>1, <2>3
<1> HIDE DEF r
<1>5. /\ p \in Seq(M) /\ Len(p) = (IF Len(s) <= n THEN Len(s) ELSE n)
      /\ \A k \in 1..Len(p) : k \in 1..Len(s) /\ p[k] = r[k]
  BY <1>4, TakeFacts
<1>6. Len(p) \in Nat
  BY <1>5
<1> HIDE DEF p
<1>7. \A k, l \in 1..Len(s) : k < l => r[l] < r[k]
  <2> SUFFICES ASSUME NEW k \in 1..Len(s), NEW l \in 1..Len(s), k < l PROVE r[l] < r[k]
    OBVIOUS
  <2>1. Len(s) - l + 1 < Len(s) - k + 1
    BY <1>4
  <2> QED BY <1>2, <1>4, <2>1
<1>8. Down(p)
  BY <1>5, <1>7 DEF Down
<1>9. \A i \in M : \E l \in 1..Len(s) : r[l] = i
  <2> SUFFICES ASSUME NEW i \in M PROVE \E l \in 1..Len(s) : r[l] = i
    OBVIOUS
  <2>1. PICK k \in 1..Len(s) : s[k] = i
    BY <1>2
  <2>2. Len(s) - k + 1 \in 1..Len(s) /\ Len(s) - (Len(s) - k + 1) + 1 = k
    BY <1>4
  <2> QED BY <1>4, <2>1, <2>2
<1>10. ASSUME NEW i \in M
       PROVE  (\E k \in 1..Len(p) : p[k] = i) \/ \A k \in 1..Len(p) : i < p[k]
  <2>1. PICK l \in 1..Len(s) : r[l] = i
    BY <1>9
  <2>2. CASE l <= Len(p)
    <3>1. l \in 1..Len(p)
      BY <1>4, <1>6, <2>2
    <3> QED BY <1>5, <2>1, <3>1
  <2>3. CASE ~(l <= Len(p))
    <3>1. \A k \in 1..Len(p) : k < l
      BY <1>4, <1>6, <2>3
    <3> QED BY <1>5, <1>7, <2>1, <3>1
  <2> QED BY <2>2, <2>3
<1>11. p = <<>> => M = {}
  <2> SUFFICES ASSUME p = <<>>, NEW i \in M PROVE FALSE
    OBVIOUS
  <2>1. Len(p) = 0
    OBVIOUS
  <2>2. Len(s) = 0
    BY <1>4, <1>5, <2>1
  <2> QED BY <1>9, <2>2
<1>12. Downward(p, M)
  BY <1>5, <1>8, <1>10, <1>11 DEF Downward
<1> QED BY <1>12 DEF p, r

LEMMA NewestFirst ==
  ASSUME NEW S, IsFiniteSet(S), S \subseteq Nat, NEW q, q.limit \in Nat \ {0}, q.newest_first
  PROVE  Downward(InOrder(S, q), Matching(S, q))
<1> DEFINE M == Matching(S, q)
<1>1. IsFiniteSet(M) /\ M \subseteq Nat
  BY MatchingFinite
<1>2. InOrder(S, q) = Take(Descending(M), q.limit)
  BY DEF InOrder
<1> HIDE DEF M
<1> QED BY <1>1, <1>2, TakeNewest DEF M

-----------------------------------------------------------------------------
(* The journal.                                                            *)

\* Entries carry a time, in the order of their numbers until the clock is set
\* back.
LogOK ==
  /\ log \in Seq([time : Nat \ {0}, kind : Kinds])
  /\ low \in Nat \ {0} /\ low <= Len(log) + 1
  /\ clock \in Nat \ {0} /\ setback \in BOOLEAN
  /\ ~setback => /\ \A i, j \in 1..Len(log) : i <= j => log[i].time <= log[j].time
                 /\ \A i \in 1..Len(log) : log[i].time <= clock

LEMMA LiveFacts ==
  ASSUME LogOK
  PROVE  /\ IsFiniteSet(Live) /\ Live \subseteq Nat /\ Len(log) \in Nat
         /\ \A i : i \in Live <=> i \in 1..Len(log) /\ low <= i
         /\ \A i \in 1..Len(log) : log[i].time \in Nat \ {0}
<1>1. low \in Nat \ {0} /\ Len(log) \in Nat
  BY DEF LogOK
<1>2. IsFiniteSet(low..Len(log))
  BY <1>1, FS_Interval
<1>3. \A i \in 1..Len(log) : log[i] \in [time : Nat \ {0}, kind : Kinds]
  <2> DEFINE Entry == [time : Nat \ {0}, kind : Kinds]
  <2>1. log \in Seq(Entry)
    BY DEF LogOK
  <2> HIDE DEF Entry
  <2>2. \A i \in 1..Len(log) : log[i] \in Entry
    BY <2>1
  <2> QED BY <2>2 DEF Entry
<1>4. \A i \in 1..Len(log) : log[i].time \in Nat \ {0}
  BY <1>3
<1> QED BY <1>1, <1>2, <1>4 DEF Live

\* The native match leaves every entry that the query wants.
LEMMA MatchingShown ==
  ASSUME NEW i, NEW q, matches_query(log[i], q)
  PROVE  Shown(i, q)
  BY DEF matches_query, Shown, Public

\* The journal only grows, and a clock set back stays so.
LogGrows ==
  /\ Len(log) <= Len(log') /\ \A i \in 1..Len(log) : i \in 1..Len(log') /\ log'[i] = log[i]
  /\ (setback => setback') /\ low <= low'

LEMMA LogOKInit ==
  JournalInit => LogOK
<1> SUFFICES ASSUME JournalInit PROVE LogOK
  OBVIOUS
<1>1. log = <<>> /\ low = 1 /\ clock = 1 /\ setback = FALSE
  BY DEF JournalInit
<1>2. Len(log) = 0 /\ log \in Seq([time : Nat \ {0}, kind : Kinds])
  BY <1>1
<1>3. \A i \in 1..Len(log) : FALSE
  BY <1>2
<1>4. low \in Nat \ {0} /\ low <= Len(log) + 1 /\ clock \in Nat \ {0}
  BY <1>1, <1>2
<1>5. setback \in BOOLEAN
  BY <1>1
<1> QED BY <1>2, <1>3, <1>4, <1>5 DEF LogOK

LEMMA LogSame ==
  ASSUME LogOK, UNCHANGED journal
  PROVE  LogOK' /\ LogGrows
<1>1. log' = log /\ low' = low /\ clock' = clock /\ setback' = setback
  BY DEF journal
<1>2. Len(log) \in Nat
  BY LiveFacts
<1> QED BY <1>1, <1>2 DEF LogOK, LogGrows

LEMMA LogAppend ==
  ASSUME LogOK, NEW k \in Kinds, Append1(k)
  PROVE  LogOK' /\ LogGrows
<1> DEFINE Entry == [time : Nat \ {0}, kind : Kinds]
           e == [time |-> clock, kind |-> k]
<1>1. log \in Seq(Entry) /\ clock \in Nat \ {0} /\ low \in Nat \ {0} /\ low <= Len(log) + 1
  BY DEF LogOK
<1>2. e \in Entry /\ e.time = clock
  BY <1>1
<1>3. log' = Append(log, e) /\ low' = low /\ clock' = clock /\ setback' = setback
  BY DEF Append1
<1> HIDE DEF Entry, e
<1>4. /\ log' \in Seq(Entry) /\ Len(log') = Len(log) + 1 /\ Len(log) \in Nat
      /\ log'[Len(log) + 1] = e /\ \A i \in 1..Len(log) : log'[i] = log[i]
  BY <1>1, <1>2, <1>3
<1>5. LogGrows
  <2>1. Len(log) <= Len(log') /\ low <= low' /\ \A i \in 1..Len(log) : i \in 1..Len(log')
    BY <1>1, <1>3, <1>4
  <2> QED BY <1>3, <1>4, <2>1 DEF LogGrows
<1>6. ASSUME ~setback
      PROVE  /\ \A i, j \in 1..Len(log') : i <= j => log'[i].time <= log'[j].time
             /\ \A i \in 1..Len(log') : log'[i].time <= clock
  <2>1. /\ \A i, j \in 1..Len(log) : i <= j => log[i].time <= log[j].time
        /\ \A i \in 1..Len(log) : log[i].time <= clock
    BY <1>6 DEF LogOK
  <2>2. \A i \in 1..Len(log') : i \in 1..Len(log) \/ i = Len(log) + 1
    BY <1>4
  <2>3. \A i \in 1..Len(log') : log'[i].time <= clock
    BY <1>1, <1>2, <1>4, <2>1, <2>2
  <2>4. ASSUME NEW i \in 1..Len(log'), NEW j \in 1..Len(log'), i <= j
        PROVE  log'[i].time <= log'[j].time
    <3>1. CASE j = Len(log) + 1
      BY <1>2, <1>4, <2>3, <3>1
    <3>2. CASE j \in 1..Len(log)
      <4>1. i \in 1..Len(log)
        BY <1>4, <2>4, <3>2
      <4> QED BY <1>4, <2>1, <2>4, <3>2, <4>1
    <3> QED BY <2>2, <3>1, <3>2
  <2> QED BY <2>3, <2>4
<1>7. low <= Len(log') + 1 /\ setback \in BOOLEAN
  BY <1>1, <1>4 DEF LogOK
<1> QED BY <1>1, <1>3, <1>4, <1>5, <1>6, <1>7 DEF LogOK, Entry

LEMMA LogStep ==
  ASSUME LogOK, [JournalNext]_journalVars
  PROVE  LogOK' /\ LogGrows
<1>1. CASE UNCHANGED journal
  BY <1>1, LogSame
<1>2. ASSUME NEW k \in Kinds, Append1(k) PROVE LogOK' /\ LogGrows
  BY <1>2, LogAppend
<1>3. CASE Vacuum
  <2>1. low' = low + 1 /\ low < Len(log) /\ log' = log /\ clock' = clock /\ setback' = setback
    BY <1>3 DEF Vacuum
  <2>2. Len(log) \in Nat
    BY LiveFacts
  <2> QED BY <2>1, <2>2 DEF LogOK, LogGrows
<1>4. CASE Tick
  <2>1. /\ clock' \in 1..MaxTime /\ setback' = (setback \/ clock' < clock)
        /\ log' = log /\ low' = low
    BY <1>4 DEF Tick
  <2>2. Len(log) \in Nat /\ clock' \in Nat \ {0} /\ setback' \in BOOLEAN
    BY <2>1, LiveFacts, ReaderAssumption DEF LogOK
  <2>3. ~setback' => clock <= clock' /\ ~setback
    <3>1. clock \in Nat /\ clock' \in Nat
      BY <2>2 DEF LogOK
    <3>2. ~(clock' < clock) => clock <= clock'
      BY <3>1
    <3> QED BY <2>1, <3>2
  <2>4. ~setback' => \A i \in 1..Len(log) : log[i].time <= clock'
    BY <2>2, <2>3, LiveFacts DEF LogOK
  <2> QED BY <2>1, <2>2, <2>3, <2>4 DEF LogOK, LogGrows
<1> QED BY <1>1, <1>2, <1>3, <1>4 DEF JournalNext, Follow, Follower, FollowRead, Deliver, Wake,
           FollowStops, TurnPage, journalVars

-----------------------------------------------------------------------------
(* The contract of read().                                                 *)

\* On one journal, for any query the contract is about.
LEMMA StrictPage ==
  ASSUME NEW q, q.strict = TRUE, q.newest_first \in BOOLEAN, q.newest_first \/ q.after # 0, LogOK
  PROVE  read(q) = {IF q.limit # 0 /\ Hidden(q) THEN Expired ELSE bounded_page(q)}
<1>1. CASE q.limit = 0
  BY <1>1 DEF read, bounded_page
<1>2. CASE q.limit # 0 /\ q.after = 0
  <2>1. q.after \notin Live
    BY <1>2 DEF Live, LogOK
  <2> QED BY <1>2, <2>1 DEF read, bounded_page, Hidden
<1>3. CASE q.limit # 0 /\ q.after # 0
  <2>1. Visible(q) \subseteq Live
    BY DEF Visible
  <2> QED BY <1>3, <2>1 DEF read, bounded_page, Continue, Hidden
<1> QED BY <1>1, <1>2, <1>3

\* bounded_page() of journal_query.hpp keeps the contract of JournalReader::read()
\* on every strict query that is newest first or continues from a cursor, whatever
\* journald appended or vacuumed, except exactly for the cursor of an entry that
\* the native match of the query hides, which read() calls expired.
THEOREM StrictContractAlways == JournalSpec => []StrictContract
<1>1. LogOK => StrictContract
  <2> SUFFICES ASSUME LogOK, NEW a, NEW n, NEW t, NEW b \in BOOLEAN, b \/ a # 0, NEW q, q = StrictQuery(a, n, t, b)
               PROVE  read(q) = {IF n # 0 /\ Hidden(q) THEN Expired ELSE bounded_page(q)}
    BY DEF StrictContract
  <2>1. q.strict = TRUE /\ q.newest_first = b /\ q.after = a /\ q.limit = n
    BY ReaderAssumption DEF IsQuery, StrictQuery
  <2>2. q.newest_first \in BOOLEAN
    BY <2>1
  <2>3. q.newest_first \/ q.after # 0
    BY <2>1
  <2>4. read(q) = {IF q.limit # 0 /\ Hidden(q) THEN Expired ELSE bounded_page(q)}
    BY <2>1, <2>2, <2>3, StrictPage, Zenon
  <2> QED BY <2>1, <2>4
<1>2. JournalSpec => []LogOK
  BY LogOKInit, LogStep, PTL DEF JournalSpec
<1> QED BY <1>1, <1>2, PTL

-----------------------------------------------------------------------------
(* The client that turns pages.                                            *)

\* The pages go back, and nothing at or after the last entry is left out.
PagesInv ==
  /\ turn \in {"none", "start", "more", "done", "expired"}
  /\ top \in Nat /\ top <= Len(log)
  /\ got \in Seq(1..Len(log)) /\ Down(got)
  /\ turn = "start" => got = <<>>
  /\ turn = "more" =>
       /\ got # <<>> /\ Shown(LastOf(got), PageQuery)
       /\ \A i \in Live : i <= top /\ matches_query(log[i], PageQuery) /\ LastOf(got) <= i =>
            \E k \in 1..Len(got) : got[k] = i

LEMMA PageFields ==
  ASSUME NEW c \in Nat
  PROVE  LET q == [PageQuery EXCEPT !.after = c] IN
         /\ q.limit = PageQuery.limit /\ q.limit \in Nat /\ q.newest_first = PageQuery.newest_first
         /\ q.after = c /\ \A e : matches_query(e, q) = matches_query(e, PageQuery)
         /\ \A i : Shown(i, q) = Shown(i, PageQuery)
<1> DEFINE q == [PageQuery EXCEPT !.after = c]
<1>1. /\ q.limit = PageQuery.limit /\ q.limit \in Nat /\ q.newest_first = PageQuery.newest_first
      /\ q.after = c /\ q.since = PageQuery.since /\ q.until = PageQuery.until
      /\ q.equal = PageQuery.equal /\ q.maximum = PageQuery.maximum
      /\ q.components = PageQuery.components /\ q.units = PageQuery.units
  BY ReaderAssumption DEF IsQuery
<1> HIDE DEF q
<1>2. ASSUME NEW e PROVE matches_query(e, q) = matches_query(e, PageQuery)
  BY <1>1 DEF matches_query, NotBefore
<1>3. ASSUME NEW i PROVE Shown(i, q) = Shown(i, PageQuery)
  BY <1>1 DEF Shown, Public
<1> QED BY <1>1, <1>2, <1>3 DEF q

\* A page that is not an error: entries before the last one, none left out.
NextPage(p) ==
  /\ p \in Seq(Live) /\ Down(p) /\ \A k \in 1..Len(p) : Shown(p[k], PageQuery)
  /\ got # <<>> => \A k \in 1..Len(p) : p[k] < LastOf(got)
  /\ \A i \in Live : matches_query(log[i], PageQuery) /\ (got # <<>> => i < LastOf(got)) =>
       (\E k \in 1..Len(p) : p[k] = i) \/ (p # <<>> /\ \A k \in 1..Len(p) : i < p[k])

LEMMA PageReads ==
  ASSUME LogOK, got \in Seq(1..Len(log)), got # <<>> => Shown(LastOf(got), PageQuery),
         PageQuery.newest_first, PageQuery.limit # 0,
         NEW p \in read([PageQuery EXCEPT !.after = IF got = <<>> THEN 0 ELSE LastOf(got)])
  PROVE  \/ p = Expired /\ got # <<>> /\ \A i \in Live : LastOf(got) < i
         \/ p # Expired /\ NextPage(p)
<1> DEFINE c == IF got = <<>> THEN 0 ELSE LastOf(got)
           q == [PageQuery EXCEPT !.after = c]
<1>1. /\ got # <<>> => c \in 1..Len(log) /\ c = LastOf(got)
      /\ got = <<>> => c = 0
      /\ c \in Nat
  <2>1. got # <<>> => LastOf(got) \in 1..Len(log)
    BY DEF LastOf
  <2> QED BY <2>1
<1>2. /\ q.limit \in Nat \ {0} /\ q.newest_first
      /\ q.after = c /\ \A e : matches_query(e, q) = matches_query(e, PageQuery)
      /\ \A i : Shown(i, q) = Shown(i, PageQuery)
  BY <1>1, PageFields
<1>3. p \in read(q)
  OBVIOUS
<1> HIDE DEF c, q
<1>4. ASSUME NEW S, S \subseteq Live, p = InOrder(S, q),
             \A i \in S : got # <<>> => i < LastOf(got),
             \A i \in Visible(q) : (got # <<>> => i < LastOf(got)) => i \in S
      PROVE  p # Expired /\ NextPage(p)
  <2>1. IsFiniteSet(S) /\ S \subseteq Nat
    BY <1>4, LiveFacts, FS_Subset
  <2>2. Downward(p, Matching(S, q))
    BY <1>2, <1>4, <2>1, NewestFirst
  <2> DEFINE M == Matching(S, q)
  <2>3. \A i \in M : i \in S /\ i \in Live
    BY <1>4 DEF Matching
  <2>4. \A i \in Live : matches_query(log[i], PageQuery) /\ (got # <<>> => i < LastOf(got)) => i \in M
    <3>1. \A i \in S : matches_query(log[i], PageQuery) => i \in M
      BY <1>2 DEF Matching
    <3>2. \A i \in Live : matches_query(log[i], PageQuery) => i \in Visible(q)
      BY <1>2, MatchingShown DEF Visible
    <3> QED BY <1>4, <3>1, <3>2
  <2>5. Downward(p, M)
    BY <2>2
  <2> HIDE DEF M
  <2>6. p \in Seq(M) /\ \A k \in 1..Len(p) : p[k] \in M
    BY <2>5 DEF Downward
  <2>7. p \in Seq(Live)
    BY <2>3, <2>6
  <2>8. \A k \in 1..Len(p) : Shown(p[k], PageQuery)
    <3>1. \A i \in Matching(S, q) : Shown(i, q)
      BY MatchingShown DEF Matching
    <3> QED BY <1>2, <2>6, <3>1 DEF M
  <2>9. p # Expired
    <3>1. \A k \in 1..Len(p) : p[k] # 0
      BY <2>3, <2>6, LiveFacts
    <3> QED BY <3>1 DEF Expired
  <2> QED BY <1>4, <2>3, <2>4, <2>5, <2>6, <2>7, <2>8, <2>9 DEF Downward, NextPage
<1>5. CASE got = <<>>
  <2>1. p = InOrder(Live, q)
    BY <1>1, <1>2, <1>3, <1>5 DEF read
  <2>2. Visible(q) \subseteq Live
    BY DEF Visible
  <2> QED BY <1>4, <1>5, <2>1, <2>2
<1>6. CASE got # <<>>
  <2>1. c # 0 /\ c \in Nat /\ Len(log) \in Nat /\ low \in Nat
    BY <1>1, <1>6, LiveFacts DEF LogOK
  <2>2. p = Continue(q)
    BY <1>2, <1>3, <2>1 DEF read
  <2>3. c \in Visible(q) <=> c \in Live
    BY <1>1, <1>2, <1>6 DEF Visible
  <2>4. CASE c \in Live
    <3> DEFINE S == Beyond(c, q)
    <3>1. p = InOrder(S, q)
      BY <1>2, <2>2, <2>3, <2>4 DEF Continue
    <3>2. S \subseteq Live /\ \A i : i \in S <=> i \in Live /\ i < c
      BY <1>2 DEF Beyond
    <3>3. Visible(q) \subseteq Live
      BY DEF Visible
    <3> HIDE DEF S
    <3> QED BY <1>1, <1>4, <1>6, <3>1, <3>2, <3>3
  <2>5. CASE c \notin Live
    <3>1. \A i \in Live : c < i
      <4>1. c \in 1..Len(log) /\ ~(low <= c)
        BY <1>1, <1>6, <2>5, LiveFacts
      <4> QED BY <2>1, <4>1, LiveFacts
    <3>2. CASE q.strict
      BY <1>1, <1>2, <1>6, <2>2, <2>3, <2>5, <3>1, <3>2 DEF Continue
    <3>3. CASE ~q.strict
      <4> DEFINE S == {i \in Visible(q) : i < c}
      <4>1. p = InOrder(S, q)
        BY <1>2, <2>2, <2>3, <2>5, <3>3 DEF Continue
      <4>2. Visible(q) \subseteq Live /\ S \subseteq Live
        BY DEF Visible
      <4>3. (\A i \in S : i < c) /\ \A i \in Visible(q) : i < c => i \in S
        OBVIOUS
      <4> HIDE DEF S
      <4> QED BY <1>1, <1>4, <1>6, <4>1, <4>2, <4>3
    <3> QED BY <3>2, <3>3
  <2> QED BY <2>4, <2>5
<1> QED BY <1>5, <1>6

\* Where a page ends, what is at or after its last entry was on a page.
LEMMA PageJoins ==
  ASSUME LogOK, PagesInv, turn \in {"start", "more"}, NEW p, NextPage(p), p # <<>>
  PROVE  /\ got \o p \in Seq(1..Len(log)) /\ Down(got \o p) /\ got \o p # <<>>
         /\ LastOf(got \o p) = LastOf(p)
         /\ \A i : (\E k \in 1..Len(got) : got[k] = i) \/ (\E k \in 1..Len(p) : p[k] = i) =>
              \E k \in 1..Len(got \o p) : (got \o p)[k] = i
<1> DEFINE g == got \o p
           n == Len(got)
<1>1. /\ got \in Seq(1..Len(log)) /\ p \in Seq(Live) /\ Len(log) \in Nat
      /\ \A i \in Live : i \in 1..Len(log)
  BY LiveFacts DEF PagesInv, NextPage
<1>2. p \in Seq(1..Len(log)) /\ n \in Nat /\ Len(p) \in Nat \ {0}
  BY <1>1
<1>3. /\ g \in Seq(1..Len(log)) /\ Len(g) = n + Len(p)
      /\ \A k \in 1..n : g[k] = got[k]
      /\ \A k \in 1..Len(p) : g[n + k] = p[k]
  BY <1>1, <1>2
<1> HIDE DEF g
<1>4. \A k \in 1..n : k \in 1..Len(g)
  BY <1>2, <1>3
<1>5. \A k \in 1..Len(p) : n + k \in 1..Len(g)
  BY <1>2, <1>3
<1>6. \A k \in 1..Len(g) : k \in 1..n \/ (k - n \in 1..Len(p) /\ g[k] = p[k - n] /\ ~(k <= n))
  <2> SUFFICES ASSUME NEW k \in 1..Len(g), k \notin 1..n
               PROVE  k - n \in 1..Len(p) /\ g[k] = p[k - n] /\ ~(k <= n)
    OBVIOUS
  <2>1. k - n \in 1..Len(p) /\ n + (k - n) = k /\ ~(k <= n)
    BY <1>2, <1>3
  <2> QED BY <1>3, <2>1
<1>7. ASSUME n # 0, NEW k \in 1..n, NEW l \in 1..Len(p) PROVE p[l] < got[k]
  <2>1. n \in 1..n /\ got # <<>>
    BY <1>2, <1>7
  <2>2. p[l] < got[n]
    BY <1>7, <2>1 DEF NextPage, LastOf
  <2>3. k < n => got[n] < got[k]
    BY <1>7, <2>1 DEF PagesInv, Down
  <2>4. p[l] \in Nat /\ got[k] \in Nat /\ got[n] \in Nat
    <3>1. \A i \in 1..n : got[i] \in 1..Len(log)
      BY <1>1, SMTT(30)
    <3>2. \A i \in 1..Len(p) : p[i] \in 1..Len(log)
      BY <1>2, SMTT(30)
    <3>3. \A i \in 1..Len(log) : i \in Nat
      BY <1>1
    <3> QED BY <2>1, <3>1, <3>2, <3>3
  <2>5. k < n \/ k = n
    BY <1>2, <1>7
  <2> QED BY <2>2, <2>3, <2>4, <2>5
<1>8. Down(g)
  <2> SUFFICES ASSUME NEW k \in 1..Len(g), NEW l \in 1..Len(g), k < l PROVE g[l] < g[k]
    BY DEF Down
  <2>1. CASE l \in 1..n
    <3>1. k \in 1..n
      BY <1>2, <1>3, <2>1
    <3> QED BY <1>3, <2>1, <3>1 DEF PagesInv, Down
  <2>2. CASE k \in 1..n /\ l \notin 1..n
    <3>1. l - n \in 1..Len(p) /\ g[l] = p[l - n] /\ g[k] = got[k]
      BY <1>3, <1>6, <2>2
    <3>2. n # 0
      BY <1>2, <2>2
    <3> QED BY <1>7, <2>2, <3>1, <3>2
  <2>3. CASE k \notin 1..n /\ l \notin 1..n
    <3>1. /\ l - n \in 1..Len(p) /\ g[l] = p[l - n] /\ k - n \in 1..Len(p) /\ g[k] = p[k - n]
      BY <1>6, <2>3
    <3>2. k - n < l - n
      BY <1>2, <1>3
    <3> QED BY <3>1, <3>2 DEF NextPage, Down
  <2> QED BY <2>1, <2>2, <2>3
<1>9. g # <<>> /\ LastOf(g) = LastOf(p)
  <2>1. Len(p) \in 1..Len(p) /\ g[n + Len(p)] = p[Len(p)] /\ Len(g) # 0
    BY <1>2, <1>3
  <2> QED BY <1>3, <2>1 DEF LastOf
<1>10. \A i : (\E k \in 1..n : got[k] = i) \/ (\E k \in 1..Len(p) : p[k] = i) =>
         \E k \in 1..Len(g) : g[k] = i
  BY <1>3, <1>4, <1>5
<1> QED BY <1>3, <1>8, <1>9, <1>10 DEF g

LEMMA PagesUndisturbed ==
  ASSUME LogOK, LogOK', LogGrows, PagesInv, UNCHANGED pager
  PROVE  PagesInv'
<1>1. turn' = turn /\ got' = got /\ top' = top
  BY DEF pager
<1>2. /\ Len(log) \in Nat /\ Len(log') \in Nat /\ Len(log) <= Len(log') /\ low <= low'
      /\ low \in Nat /\ low' \in Nat /\ \A i \in 1..Len(log) : i \in 1..Len(log') /\ log'[i] = log[i]
  BY LiveFacts DEF LogGrows, LogOK
<1>3. got \in Seq(1..Len(log)) /\ top \in Nat /\ top <= Len(log)
  BY DEF PagesInv
<1>4. got \in Seq(1..Len(log')) /\ top <= Len(log')
  BY <1>2, <1>3
<1>5. \A i \in Live' : i <= top => i \in Live /\ log'[i] = log[i]
  <2> SUFFICES ASSUME NEW i \in low'..Len(log'), i <= top PROVE i \in low..Len(log) /\ i \in 1..Len(log)
    BY <1>2 DEF Live
  <2>1. low # 0
    BY DEF LogOK
  <2> QED BY <1>2, <1>3, <2>1
<1>6. ASSUME turn = "more", NEW i \in Live', i <= top, matches_query(log'[i], PageQuery), LastOf(got) <= i
      PROVE  \E k \in 1..Len(got) : got[k] = i
  BY <1>5, <1>6 DEF PagesInv
<1>7. Down(got)'
  BY <1>1 DEF PagesInv, Down
<1>8. turn = "more" => Shown(LastOf(got), PageQuery)'
  <2> SUFFICES ASSUME turn = "more" PROVE Shown(LastOf(got), PageQuery)'
    OBVIOUS
  <2>1. got # <<>> /\ Shown(LastOf(got), PageQuery)
    BY DEF PagesInv
  <2>2. LastOf(got) \in 1..Len(log) /\ LastOf(got)' = LastOf(got)
    BY <1>1, <1>3, <2>1 DEF LastOf
  <2>3. log'[LastOf(got)] = log[LastOf(got)]
    BY <1>2, <2>2
  <2> QED BY <2>1, <2>2, <2>3 DEF Shown, Public
<1> QED BY <1>1, <1>3, <1>4, <1>6, <1>7, <1>8 DEF PagesInv

LEMMA TurnPageOK ==
  ASSUME LogOK, PagesInv, TurnPage, PageQuery.newest_first, PageQuery.limit # 0
  PROVE  /\ PagesInv'
         /\ turn' \in {"done", "expired"} =>
              \A i \in Live : i <= top' /\ matches_query(log[i], PageQuery) =>
                \E k \in 1..Len(got') : got'[k] = i
<1>1. PICK p \in read([PageQuery EXCEPT !.after = IF got = <<>> THEN 0 ELSE LastOf(got)]) :
        /\ got' = IF p = Expired THEN got ELSE got \o p
        /\ turn' = CASE p = Expired -> "expired" [] p = <<>> -> "done" [] OTHER -> "more"
  BY DEF TurnPage
<1>2. /\ turn \in {"start", "more"} /\ top' = (IF turn = "start" THEN Len(log) ELSE top)
      /\ log' = log /\ low' = low
  BY DEF TurnPage, journal
<1>3. /\ got \in Seq(1..Len(log)) /\ top \in Nat /\ top <= Len(log) /\ Len(log) \in Nat /\ Down(got)
      /\ got = <<>> <=> turn = "start"
      /\ got # <<>> => Shown(LastOf(got), PageQuery)
  BY <1>2, LiveFacts DEF PagesInv
<1>4. top' \in Nat /\ top' <= Len(log) /\ (got # <<>> => top' = top)
  BY <1>2, <1>3
<1>5. Live' = Live /\ Len(log') = Len(log)
  BY <1>2 DEF Live
<1>6. \/ p = Expired /\ got # <<>> /\ \A i \in Live : LastOf(got) < i
      \/ p # Expired /\ NextPage(p)
  BY <1>3, PageReads
<1>7. \A i \in Live : i \in Nat /\ (got # <<>> => LastOf(got) \in Nat)
  <2>1. got # <<>> => LastOf(got) \in 1..Len(log)
    BY <1>3 DEF LastOf
  <2> QED BY <1>3, <2>1, LiveFacts
<1>8. ASSUME got # <<>>, NEW i \in Live, i <= top', matches_query(log[i], PageQuery), LastOf(got) <= i
      PROVE  \E k \in 1..Len(got) : got[k] = i
  BY <1>2, <1>3, <1>4, <1>8 DEF PagesInv
<1>9. CASE p = Expired
  <2>a. got' = got /\ turn' = "expired"
    <3>1. p # <<>>
      BY <1>9 DEF Expired
    <3> QED BY <1>1, <1>9, <3>1
  <2>1. got' = got /\ turn' = "expired" /\ got # <<>> /\ \A i \in Live : LastOf(got) < i
    BY <1>6, <1>9, <2>a
  <2>2. \A i \in Live : LastOf(got) <= i
    BY <1>7, <2>1
  <2>3. Down(got)'
    BY <1>3, <2>1 DEF Down
  <2> QED BY <1>2, <1>3, <1>4, <1>8, <2>1, <2>2, <2>3 DEF PagesInv
<1>10. CASE p # Expired /\ p = <<>>
  <2>1. got' = got /\ turn' = "done" /\ NextPage(p) /\ Len(p) = 0
    BY <1>1, <1>3, <1>6, <1>10
  <2>2. Down(got)'
    BY <1>3, <2>1 DEF Down
  <2>3. ASSUME NEW i \in Live, i <= top', matches_query(log[i], PageQuery)
        PROVE  \E k \in 1..Len(got) : got[k] = i
    <3>1. ~(got # <<>> => i < LastOf(got))
      BY <1>10, <2>1, <2>3 DEF NextPage
    <3>2. got # <<>> /\ LastOf(got) <= i
      BY <1>7, <3>1
    <3> QED BY <1>8, <2>3, <3>2
  <2> QED BY <1>2, <1>3, <1>4, <2>1, <2>2, <2>3 DEF PagesInv
<1>11. CASE p # Expired /\ p # <<>>
  <2>1. got' = got \o p /\ turn' = "more" /\ NextPage(p)
    BY <1>1, <1>6, <1>11
  <2>2. /\ got' \in Seq(1..Len(log)) /\ Down(got') /\ got' # <<>> /\ LastOf(got') = LastOf(p)
        /\ \A i : (\E k \in 1..Len(got) : got[k] = i) \/ (\E k \in 1..Len(p) : p[k] = i) =>
             \E k \in 1..Len(got') : got'[k] = i
    <3> DEFINE g == got \o p
    <3>1. /\ g \in Seq(1..Len(log)) /\ Down(g) /\ g # <<>> /\ LastOf(g) = LastOf(p)
          /\ \A i : (\E k \in 1..Len(got) : got[k] = i) \/ (\E k \in 1..Len(p) : p[k] = i) =>
               \E k \in 1..Len(g) : g[k] = i
      BY <1>2, <1>11, <2>1, PageJoins
    <3>2. got' = g
      BY <2>1
    <3> HIDE DEF g
    <3> QED BY <3>1, <3>2
  <2>3. ASSUME NEW i \in Live, i <= top', matches_query(log[i], PageQuery), LastOf(p) <= i
        PROVE  \E k \in 1..Len(got') : got'[k] = i
    <3>1. CASE got # <<>> /\ LastOf(got) <= i
      BY <1>8, <2>2, <2>3, <3>1
    <3>2. CASE got # <<>> => i < LastOf(got)
      <4>1. p \in Seq(Live) /\ Len(p) \in 1..Len(p) /\ LastOf(p) = p[Len(p)] /\ LastOf(p) \in Nat
        BY <1>7, <1>11, <2>1 DEF NextPage, LastOf
      <4>2. ~(i < p[Len(p)])
        BY <1>7, <2>3, <4>1
      <4>3. \E k \in 1..Len(p) : p[k] = i
        BY <2>1, <2>3, <3>2, <4>1, <4>2 DEF NextPage
      <4> QED BY <2>2, <4>3
    <3> QED BY <1>7, <3>1, <3>2
  <2>4. Down(got)'
    BY <2>2 DEF Down
  <2>5. Shown(LastOf(got), PageQuery)'
    <3>1. Len(p) \in 1..Len(p) /\ LastOf(p) = p[Len(p)]
      BY <1>11, <2>1 DEF NextPage, LastOf
    <3>2. Shown(LastOf(p), PageQuery)
      BY <2>1, <3>1 DEF NextPage
    <3>3. LastOf(got)' = LastOf(p) /\ log' = log
      BY <1>2, <2>2 DEF LastOf
    <3> QED BY <3>2, <3>3 DEF Shown, Public
  <2> QED BY <1>2, <1>4, <1>5, <2>1, <2>2, <2>3, <2>4, <2>5 DEF PagesInv
<1> QED BY <1>9, <1>10, <1>11

LEMMA PagesInvAlways ==
  PageQuery.newest_first /\ PageQuery.limit # 0 /\ JournalSpec => [](LogOK /\ PagesInv)
<1> SUFFICES ASSUME PageQuery.newest_first, PageQuery.limit # 0
             PROVE  JournalSpec => [](LogOK /\ PagesInv)
  OBVIOUS
<1>1. JournalInit => LogOK /\ PagesInv
  <2> SUFFICES ASSUME JournalInit PROVE LogOK /\ PagesInv
    OBVIOUS
  <2>1. log = <<>> /\ got = <<>> /\ top = 0 /\ turn \in {"start", "none"}
    BY DEF JournalInit
  <2>2. Len(log) = 0 /\ got \in Seq(1..Len(log)) /\ Len(got) = 0
    BY <2>1
  <2>3. Down(got)
    BY <2>2 DEF Down
  <2> QED BY <2>1, <2>2, <2>3, LogOKInit DEF PagesInv
<1>2. LogOK /\ PagesInv /\ [JournalNext]_journalVars => LogOK' /\ PagesInv'
  <2> SUFFICES ASSUME LogOK, PagesInv, [JournalNext]_journalVars PROVE LogOK' /\ PagesInv'
    OBVIOUS
  <2>1. LogOK' /\ LogGrows
    BY LogStep
  <2>2. CASE UNCHANGED pager
    BY <2>1, <2>2, PagesUndisturbed
  <2>3. CASE TurnPage
    BY <2>1, <2>3, TurnPageOK
  <2> QED BY <2>2, <2>3 DEF JournalNext, Append1, Vacuum, Tick, Follow, Follower, FollowRead, Deliver,
             Wake, FollowStops, journalVars
<1> QED BY <1>1, <1>2, PTL DEF JournalSpec

\* The pages of a newest-first query with a limit (read() of journal_reader.cpp,
\* turned with the cursor of the last entry) go strictly back, and when they end
\* no wanted entry of the journal of the first page is missing.
THEOREM StablePagesAlways ==
  PageQuery.newest_first /\ PageQuery.limit # 0 /\ JournalSpec => StablePages
<1> SUFFICES ASSUME PageQuery.newest_first, PageQuery.limit # 0 PROVE JournalSpec => StablePages
  OBVIOUS
<1> DEFINE Back == \A i, j \in 1..Len(got') : i < j => got'[i] > got'[j]
           Complete == turn' # turn /\ turn' \in {"done", "expired"} =>
             \A i \in Live : i <= top' /\ matches_query(log[i], PageQuery) => i \in Range(got')
<1>1. ASSUME LogOK', PagesInv' PROVE Back
  <2> SUFFICES ASSUME NEW i \in 1..Len(got'), NEW j \in 1..Len(got'), i < j PROVE got'[i] > got'[j]
    OBVIOUS
  <2>a. Len(log') \in Nat
    BY <1>1 DEF LogOK
  <2>1. got'[j] < got'[i] /\ got' \in Seq(1..Len(log')) /\ Len(log') \in Nat
    BY <1>1, <2>a DEF PagesInv, Down
  <2>2. got'[i] \in Nat /\ got'[j] \in Nat
    BY <2>1
  <2> QED BY <2>1, <2>2
<1>2. ASSUME LogOK, PagesInv, [JournalNext]_journalVars PROVE Complete
  <2> SUFFICES ASSUME turn' # turn, turn' \in {"done", "expired"},
                      NEW i \in Live, i <= top', matches_query(log[i], PageQuery)
               PROVE  i \in Range(got')
    OBVIOUS
  <2>1. TurnPage
    BY <1>2 DEF JournalNext, Append1, Vacuum, Tick, Follow, Follower, FollowRead, Deliver,
             Wake, FollowStops, journalVars, pager
  <2>2. PagesInv' /\ \E k \in 1..Len(got') : got'[k] = i
    BY <1>2, <2>1, TurnPageOK
  <2>3. DOMAIN got' = 1..Len(got')
    BY <2>2 DEF PagesInv
  <2> QED BY <2>2, <2>3 DEF Range
<1>3. LogOK /\ PagesInv /\ LogOK' /\ PagesInv' /\ [JournalNext]_journalVars => [Back /\ Complete]_journalVars
  BY <1>1, <1>2
<1> QED BY <1>3, PagesInvAlways, PTL DEF JournalSpec, StablePages

-----------------------------------------------------------------------------
(* follow().                                                               *)

Given == {delivered[k] : k \in 1..Len(delivered)}
IsTop(m) == m \in Given /\ \A i \in Given : i <= m

\* The continuation is the last entry delivered; without a failed seek that is
\* the newest one delivered, and only newer ones are on the page.
FollowOK ==
  /\ at \in {"none", "called", "first", "read", "deliver", "wait", "stopped"}
  /\ delivered \in Seq(1..Len(log)) /\ page \in Seq(1..Len(log)) /\ Up(page)
  /\ losses \in Nat /\ after \in Nat /\ since \in Nat
  /\ page # <<>> <=> at = "deliver"
  /\ delivered = <<>> => after = 0 /\ since = 0
  /\ delivered # <<>> =>
       /\ after \in {0, LastOf(delivered)} /\ since = log[LastOf(delivered)].time
       /\ after = 0 => losses > 0
       /\ losses = 0 => IsTop(LastOf(delivered))
       /\ \E m \in Given : IsTop(m) /\ (~setback => since = log[m].time)
  /\ losses = 0 => \A k \in 1..Len(page), i \in Given : i < page[k]
  /\ ~setback => \A k \in 1..Len(page) : since <= log[page[k]].time

FollowInv == LogOK /\ FollowOK

LEMMA RecentUpward ==
  ASSUME IsFiniteSet(Live), Live \subseteq Nat, NEW q, q.limit \in Nat \ {0}
  PROVE  Recent(q) \in Seq(Matching(Live, q)) /\ Up(Recent(q))
<1> DEFINE M == Matching(Live, q)
           s == Ascending(M)
           b == Len(s) - q.limit
<1>1. IsFiniteSet(M) /\ M \subseteq Nat
  BY MatchingFinite
<1>2. s \in Seq(M) /\ \A k, l \in 1..Len(s) : k < l => s[k] < s[l]
  <2> HIDE DEF M
  <2> QED BY <1>1, AscendingOrder
<1>3. Recent(q) = IF Len(s) <= q.limit THEN s ELSE SubSeq(s, b + 1, Len(s))
  BY DEF Recent
<1> HIDE DEF M, s
<1>4. CASE Len(s) <= q.limit
  BY <1>2, <1>3, <1>4 DEF Up, M
<1>5. CASE ~(Len(s) <= q.limit)
  <2> DEFINE p == SubSeq(s, b + 1, Len(s))
  <2>1. b \in Nat /\ Len(s) \in Nat /\ b < Len(s)
    BY <1>2, <1>5
  <2> HIDE DEF b
  <2>2. /\ p \in Seq(M) /\ Len(p) = Len(s) - b
        /\ \A k \in 1..Len(p) : b + k \in 1..Len(s) /\ p[k] = s[b + k]
    BY <1>2, <2>1
  <2> HIDE DEF p
  <2>3. ASSUME NEW k \in 1..Len(p), NEW l \in 1..Len(p), k < l PROVE p[k] < p[l]
    <3>1. b + k < b + l
      BY <2>1, <2>2, <2>3
    <3> QED BY <1>2, <2>2, <3>1
  <2> QED BY <1>3, <1>5, <2>2, <2>3 DEF Up, M, p
<1> QED BY <1>4, <1>5

LEMMA ContinuationFields ==
  ASSUME after \in Nat, since \in Nat
  PROVE  /\ Continuation.limit \in Nat /\ ~Continuation.newest_first
         /\ Continuation.after = after
         /\ Continuation.since = (IF since = 0 THEN FollowQuery.since ELSE since)
         /\ Continuation.equal = FollowQuery.equal /\ Continuation.until = FollowQuery.until
         /\ Continuation.components = FollowQuery.components /\ Continuation.units = FollowQuery.units
         /\ Continuation.maximum = FollowQuery.maximum
  BY ReaderAssumption DEF IsQuery, Continuation

\* The native match shows what follow() wants.
LEMMA FollowShown ==
  ASSUME after \in Nat, since \in Nat, NEW i \in Live, matches_query(log[i], FollowQuery)
  PROVE  i \in Visible(Continuation)
<1>1. Shown(i, FollowQuery)
  BY MatchingShown
<1> QED BY <1>1, ContinuationFields DEF Visible, Shown, Public

LEMMA ContinuationMatches ==
  ASSUME after \in Nat, since \in Nat, NEW e, e.time \in Nat
  PROVE  /\ since # 0 /\ matches_query(e, Continuation) => since <= e.time
         /\ matches_query(e, FollowQuery) /\ since <= e.time => matches_query(e, Continuation)
<1> USE ContinuationFields
<1>1. since # 0 /\ matches_query(e, Continuation) => since <= e.time
  BY DEF matches_query, NotBefore
<1>2. ASSUME matches_query(e, FollowQuery), since <= e.time PROVE matches_query(e, Continuation)
  <2>1. NotBefore(e, Continuation)
    BY <1>2 DEF matches_query, NotBefore
  <2> QED BY <1>2, <2>1 DEF matches_query
<1> QED BY <1>1, <1>2

\* A page in order of a part of the journal.
LEMMA PartRead ==
  ASSUME LogOK, after \in Nat, since \in Nat, NEW S, S \subseteq Live
  PROVE  LET p == InOrder(S, Continuation) IN
         /\ p \in Seq(Live) /\ Up(p) /\ \A k \in 1..Len(p) : p[k] \in S
         /\ since # 0 => \A k \in 1..Len(p) : since <= log[p[k]].time
         /\ \A i \in S : matches_query(log[i], FollowQuery) /\ since <= log[i].time =>
              (\E k \in 1..Len(p) : p[k] = i) \/ \A k \in 1..Len(p) : p[k] < i
<1> DEFINE p == InOrder(S, Continuation)
           M == Matching(S, Continuation)
<1>1. IsFiniteSet(S) /\ S \subseteq Nat
  BY LiveFacts, FS_Subset
<1>2. Upward(p, M)
  BY <1>1, ContinuationFields, OldestFirst
<1>3. \A i \in S : log[i].time \in Nat
  BY LiveFacts
<1>4. \A i \in M : i \in S /\ i \in Live /\ (since # 0 => since <= log[i].time)
  BY <1>3, ContinuationMatches DEF Matching
<1>5. \A i \in S : matches_query(log[i], FollowQuery) /\ since <= log[i].time => i \in M
  BY <1>3, ContinuationMatches DEF Matching
<1> HIDE DEF p, M
<1>6. p \in Seq(M) /\ \A k \in 1..Len(p) : p[k] \in M
  BY <1>2 DEF Upward
<1>7. p \in Seq(Live)
  BY <1>4, <1>6
<1> QED BY <1>2, <1>4, <1>5, <1>6, <1>7 DEF Upward, p

\* What a read of follow() may return.
ReadOK(p) ==
  /\ p \in Seq(Live) /\ Up(p)
  /\ since # 0 => \A k \in 1..Len(p) : since <= log[p[k]].time
  /\ after # 0 => \A k \in 1..Len(p) : after < p[k]
  /\ since # 0 /\ ~setback =>
       \A i \in Live : matches_query(log[i], FollowQuery) /\ since <= log[i].time /\ after < i =>
         (\E k \in 1..Len(p) : p[k] = i) \/ \A k \in 1..Len(p) : p[k] < i

LEMMA FollowReads ==
  ASSUME LogOK, after \in Nat, since \in Nat, after <= Len(log),
         NEW p \in read(Continuation), p # Expired
  PROVE  ReadOK(p)
<1> USE ContinuationFields, LiveFacts
<1>1. CASE Continuation.limit = 0
  <2>1. p = <<>>
    BY <1>1 DEF read
  <2>2. p \in Seq(Live) /\ Len(p) = 0
    BY <2>1
  <2> QED BY <2>2 DEF ReadOK, Up
<1>2. CASE Continuation.limit # 0 /\ after # 0
  <2>1. p = Continue(Continuation)
    BY <1>2 DEF read
  <2>2. CASE after \in Visible(Continuation)
    <3> DEFINE S == Beyond(after, Continuation)
    <3>1. p = InOrder(S, Continuation)
      BY <2>1, <2>2 DEF Continue
    <3>2. S \subseteq Live /\ \A i : i \in S <=> i \in Live /\ i > after
      BY DEF Beyond
    <3> HIDE DEF S
    <3>3. \A i \in S : after < i
      BY <3>2
    <3>4. \A i \in Live : after < i => i \in S
      BY <3>2
    <3> QED BY <3>1, <3>2, <3>3, <3>4, PartRead DEF ReadOK
  <2>3. CASE after \notin Visible(Continuation)
    <3> DEFINE S == {i \in Visible(Continuation) : i >= after}
    <3>1. p = InOrder(S, Continuation)
      BY <2>1, <2>3 DEF Continue
    <3>2. S \subseteq Live
      BY DEF Visible
    <3>3. \A i \in S : after < i
      <4>1. \A i \in S : i \in Nat /\ i >= after /\ i # after
        BY <2>3, <3>2
      <4> HIDE DEF S
      <4> QED BY <4>1
    <3>4. \A i \in Live : matches_query(log[i], FollowQuery) /\ after < i => i \in S
      <4>1. \A i \in Live : i \in Nat
        OBVIOUS
      <4>2. \A i \in Live : matches_query(log[i], FollowQuery) => i \in Visible(Continuation)
        BY FollowShown
      <4> QED BY <4>1, <4>2
    <3> HIDE DEF S
    <3> QED BY <3>1, <3>2, <3>3, <3>4, PartRead DEF ReadOK
  <2> QED BY <2>2, <2>3
<1>3. CASE Continuation.limit # 0 /\ after = 0 /\ Continuation.since = 0
  <2>1. p = Recent(Continuation)
    BY <1>3 DEF read
  <2>2. p \in Seq(Matching(Live, Continuation)) /\ Up(p)
    BY <1>3, <2>1, RecentUpward
  <2>3. p \in Seq(Live)
    BY <2>2 DEF Matching
  <2>4. since = 0
    BY <1>3
  <2> QED BY <1>3, <2>2, <2>3, <2>4 DEF ReadOK
<1>4. CASE Continuation.limit # 0 /\ after = 0 /\ Continuation.since # 0
  <2>1. PICK b \in SeekTime(Continuation) : p = InOrder({i \in Live : i >= b}, Continuation)
    BY <1>4 DEF read
  <2> DEFINE S == {i \in Live : i >= b}
             V == Visible(Continuation)
  <2>2. S \subseteq Live
    OBVIOUS
  <2>3. ASSUME since # 0, ~setback, NEW i \in Live, since <= log[i].time,
               matches_query(log[i], FollowQuery)
        PROVE  i \in S
    <3>1. Continuation.since = since
      BY <2>3
    <3>2. i \in V /\ V \subseteq Live
      BY <2>3, FollowShown DEF Visible
    <3> HIDE DEF V
    <3>3. \/ b \in V /\ \A j \in V : b <= j
          \/ b \in V /\ \E j \in V : /\ j < b /\ log[j].time < since
                                    /\ \A k \in V : k <= j \/ b <= k
          \/ \A j \in V : log[j].time < since
      BY <2>1, <3>1 DEF SeekTime, V
    <3>4. log[i].time \in Nat /\ since \in Nat
      OBVIOUS
    <3>5. ~ \A j \in V : log[j].time < since
      BY <2>3, <3>2, <3>4
    <3>6. CASE b \in V /\ \A j \in V : b <= j
      BY <3>2, <3>6
    <3>7. CASE b \in V /\ \E j \in V : /\ j < b /\ log[j].time < since
                                      /\ \A k \in V : k <= j \/ b <= k
      <4>1. PICK j \in V : log[j].time < since /\ (i <= j \/ b <= i)
        BY <3>2, <3>7
      <4>2. i \in 1..Len(log) /\ j \in 1..Len(log) /\ log[j].time \in Nat
        BY <3>2
      <4>3. CASE i <= j
        <5>1. log[i].time <= log[j].time
          BY <2>3, <4>2, <4>3 DEF LogOK
        <5> QED BY <2>3, <3>4, <4>1, <4>2, <5>1
      <4>4. CASE b <= i
        <5>1. b \in Nat /\ i \in Nat
          BY <3>2, <3>7
        <5> QED BY <4>4, <5>1
      <4> QED BY <4>1, <4>3, <4>4
    <3> QED BY <3>3, <3>5, <3>6, <3>7
  <2> HIDE DEF S
  <2>4. p = InOrder(S, Continuation)
    BY <2>1 DEF S
  <2> QED BY <1>4, <2>2, <2>3, <2>4, PartRead DEF ReadOK
<1> QED BY <1>1, <1>2, <1>3, <1>4

LEMMA FollowOKInit ==
  JournalInit => FollowOK
<1> SUFFICES ASSUME JournalInit PROVE FollowOK
  OBVIOUS
<1>1. /\ after = 0 /\ since = 0 /\ page = <<>> /\ delivered = <<>> /\ losses = 0
      /\ at \in {"called", "none"}
  BY DEF JournalInit
<1>2. /\ page \in Seq(1..Len(log)) /\ delivered \in Seq(1..Len(log)) /\ Len(page) = 0
  BY <1>1
<1> QED BY <1>1, <1>2 DEF FollowOK, Up

\* journald, the clock and the client that turns pages.
LEMMA FollowUndisturbed ==
  ASSUME FollowInv, LogGrows, UNCHANGED follower
  PROVE  FollowOK'
<1>1. /\ at' = at /\ after' = after /\ since' = since /\ page' = page /\ delivered' = delivered
      /\ losses' = losses
  BY DEF follower
<1>2. Len(log) \in Nat /\ Len(log') >= Len(log) /\ 1..Len(log) \subseteq 1..Len(log')
  BY LiveFacts DEF FollowInv, LogGrows
<1>3. delivered \in Seq(1..Len(log)) /\ page \in Seq(1..Len(log))
  BY DEF FollowInv, FollowOK
<1>4. delivered \in Seq(1..Len(log')) /\ page \in Seq(1..Len(log'))
  BY <1>2, <1>3
<1>5. /\ \A k \in 1..Len(page) : page[k] \in 1..Len(log) /\ log'[page[k]] = log[page[k]]
      /\ \A i \in Given : i \in 1..Len(log) /\ log'[i] = log[i]
      /\ delivered # <<>> => log'[LastOf(delivered)] = log[LastOf(delivered)]
  <2>1. /\ \A k \in 1..Len(page) : page[k] \in 1..Len(log)
        /\ \A k \in 1..Len(delivered) : delivered[k] \in 1..Len(log)
        /\ delivered # <<>> => LastOf(delivered) \in 1..Len(log)
    BY <1>3, SMTT(30) DEF LastOf
  <2>2. \A i \in 1..Len(log) : log'[i] = log[i]
    BY DEF LogGrows
  <2> QED BY <2>1, <2>2 DEF Given
<1>6. ~setback' => ~setback
  BY DEF LogGrows
<1>7. Given' = Given
  BY <1>1 DEF Given
<1>8. ASSUME delivered # <<>>
      PROVE  \E m \in Given : IsTop(m) /\ (~setback' => since = log'[m].time)
  <2>1. PICK m \in Given : IsTop(m) /\ (~setback => since = log[m].time)
    BY <1>8 DEF FollowInv, FollowOK
  <2> QED BY <1>5, <1>6, <2>1
<1>9. ~setback' => \A k \in 1..Len(page) : since <= log'[page[k]].time
  BY <1>5, <1>6 DEF FollowInv, FollowOK
<1>10. Up(page)' /\ \A m : IsTop(m)' = IsTop(m)
  BY <1>1, <1>7 DEF FollowInv, FollowOK, Up, IsTop
<1> QED BY <1>1, <1>4, <1>5, <1>7, <1>8, <1>9, <1>10 DEF FollowInv, FollowOK, IsTop

LEMMA FollowReadOK ==
  ASSUME FollowInv, FollowRead
  PROVE  FollowOK' /\ ReadOK(page')
<1> USE DEF FollowInv
<1>1. /\ at \in {"first", "read"} /\ page' \in read(Continuation) /\ page' # Expired
      /\ at' = (IF page' # <<>> THEN "deliver" ELSE IF at = "first" THEN "read" ELSE "wait")
      /\ log' = log /\ setback' = setback /\ after' = after /\ since' = since
      /\ delivered' = delivered /\ losses' = losses
  BY DEF FollowRead, journal
<1>2. /\ after \in Nat /\ since \in Nat /\ losses \in Nat /\ delivered \in Seq(1..Len(log))
      /\ Len(log) \in Nat
  BY LiveFacts DEF FollowOK
<1>3. after <= Len(log) /\ (delivered # <<>> => LastOf(delivered) \in 1..Len(log))
  <2>1. delivered # <<>> => LastOf(delivered) \in 1..Len(log)
    BY <1>2 DEF LastOf
  <2>2. after = 0 \/ (delivered # <<>> /\ after = LastOf(delivered))
    BY DEF FollowOK
  <2> QED BY <1>2, <2>1, <2>2
<1>4. ReadOK(page')
  BY <1>1, <1>2, <1>3, FollowReads
<1>5. page' \in Seq(1..Len(log)) /\ \A k \in 1..Len(page') : page'[k] \in 1..Len(log)
  <2>1. page' \in Seq(Live) /\ \A i \in Live : i \in 1..Len(log)
    BY <1>4, LiveFacts DEF ReadOK
  <2> QED BY <2>1
<1>6. Up(page)'
  BY <1>4 DEF ReadOK, Up
<1>7. Given' = Given /\ \A m : IsTop(m)' = IsTop(m)
  BY <1>1 DEF Given, IsTop
<1>8. losses = 0 => \A k \in 1..Len(page'), i \in Given : i < page'[k]
  <2>1. CASE delivered = <<>>
    BY <2>1 DEF Given
  <2>2. CASE delivered # <<>> /\ losses = 0
    <3>1. after # 0 /\ after = LastOf(delivered) /\ IsTop(LastOf(delivered))
      BY <2>2 DEF FollowOK
    <3>2. \A k \in 1..Len(page') : after < page'[k]
      BY <3>1, <1>4 DEF ReadOK
    <3>3. \A i \in Given : i \in 1..Len(log)
      BY <1>2 DEF Given
    <3> QED BY <1>2, <1>5, <3>1, <3>2, <3>3 DEF IsTop
  <2> QED BY <2>1, <2>2
<1>9. \A k \in 1..Len(page') : since <= log[page'[k]].time
  <2>1. CASE since = 0
    BY <1>5, <2>1, LiveFacts
  <2>2. CASE since # 0
    BY <1>4, <2>2 DEF ReadOK
  <2> QED BY <2>1, <2>2
<1>10. at' \in {"read", "deliver", "wait"} /\ (page' # <<>> <=> at' = "deliver")
  BY <1>1
<1> HIDE DEF FollowInv
<1>11. FollowOK
  BY DEF FollowInv
<1>12. FollowOK'
  BY <1>1, <1>2, <1>5, <1>6, <1>7, <1>8, <1>9, <1>10, <1>11 DEF FollowOK
<1> QED BY <1>4, <1>12

\* The entry that is given to the handler, and the rest of the page.
LEMMA DeliverShape ==
  ASSUME FollowInv, Deliver
  PROVE  /\ Head(page) \in 1..Len(log) /\ Head(page) = page[1] /\ 1 \in 1..Len(page)
         /\ delivered' \in Seq(1..Len(log)) /\ delivered' # <<>> /\ LastOf(delivered') = Head(page)
         /\ Given' = Given \cup {Head(page)}
         /\ page' \in Seq(1..Len(log)) /\ Up(page')
         /\ \A k \in 1..Len(page') : Head(page) < page'[k] /\ k + 1 \in 1..Len(page) /\ page'[k] = page[k + 1]
<1> DEFINE h == Head(page)
<1>1. /\ page \in Seq(1..Len(log)) /\ page # <<>> /\ delivered \in Seq(1..Len(log)) /\ Len(log) \in Nat
      /\ \A k, l \in 1..Len(page) : k < l => page[k] < page[l]
  BY LiveFacts DEF FollowInv, FollowOK, Deliver, Up
<1>2. delivered' = Append(delivered, h) /\ page' = Tail(page)
  BY DEF Deliver
<1>3. h \in 1..Len(log) /\ h = page[1] /\ 1 \in 1..Len(page)
  BY <1>1
<1> HIDE DEF h
<1>4. /\ delivered' \in Seq(1..Len(log)) /\ delivered' # <<>> /\ Len(delivered') = Len(delivered) + 1
      /\ delivered'[Len(delivered) + 1] = h /\ Len(delivered) \in Nat
      /\ \A k \in 1..Len(delivered) : delivered'[k] = delivered[k]
  <2>1. delivered \in Seq(1..Len(log)) /\ h \in 1..Len(log) /\ Len(delivered) \in Nat
    BY <1>1, <1>3
  <2>2. Append(delivered, h) \in Seq(1..Len(log)) /\ Len(Append(delivered, h)) = Len(delivered) + 1
    BY <2>1
  <2>3. /\ Append(delivered, h)[Len(delivered) + 1] = h
        /\ \A k \in 1..Len(delivered) : Append(delivered, h)[k] = delivered[k]
    BY <2>1
  <2>4. Append(delivered, h) # <<>>
    BY <2>1, <2>2
  <2> QED BY <1>2, <2>1, <2>2, <2>3, <2>4
<1>5. Given' = Given \cup {h}
  <2>1. \A k \in 1..Len(delivered') : k \in 1..Len(delivered) \/ k = Len(delivered) + 1
    BY <1>4
  <2>2. \A k \in 1..Len(delivered) : k \in 1..Len(delivered')
    BY <1>4
  <2>3. Len(delivered) + 1 \in 1..Len(delivered')
    BY <1>4
  <2> QED BY <1>4, <2>1, <2>2, <2>3 DEF Given
<1>6. /\ page' \in Seq(1..Len(log)) /\ Len(page') \in Nat
      /\ \A k \in 1..Len(page') : k + 1 \in 1..Len(page) /\ 1 < k + 1 /\ page'[k] = page[k + 1]
  BY <1>1, <1>2
<1>7. Up(page')
  <2> SUFFICES ASSUME NEW k \in 1..Len(page'), NEW l \in 1..Len(page'), k < l PROVE page'[k] < page'[l]
    BY DEF Up
  <2>1. k + 1 < l + 1
    BY <1>6
  <2> QED BY <1>1, <1>6, <2>1
<1>8. \A k \in 1..Len(page') : h < page'[k]
  BY <1>1, <1>3, <1>6
<1> QED BY <1>3, <1>4, <1>5, <1>6, <1>7, <1>8 DEF h, LastOf

LEMMA DeliverOK ==
  ASSUME FollowInv, Deliver
  PROVE  FollowOK'
<1>0. PICK h \in 1..Len(log) : h = Head(page)
  BY DeliverShape
<1>1. /\ at = "deliver" /\ after' = h /\ since' = log[h].time
      /\ at' = (IF page' = <<>> THEN "read" ELSE "deliver")
      /\ log' = log /\ setback' = setback /\ losses' = losses
  BY <1>0 DEF Deliver, Advance, Since, journal
<1>2. /\ h \in 1..Len(log) /\ h = page[1] /\ 1 \in 1..Len(page)
      /\ delivered' \in Seq(1..Len(log)) /\ delivered' # <<>> /\ LastOf(delivered') = h
      /\ Given' = Given \cup {h}
      /\ page' \in Seq(1..Len(log)) /\ Up(page')
      /\ \A k \in 1..Len(page') : h < page'[k] /\ k + 1 \in 1..Len(page) /\ page'[k] = page[k + 1]
  BY <1>0, DeliverShape
<1>3. Len(log) \in Nat /\ log[h].time \in Nat \ {0}
  BY <1>2, LiveFacts DEF FollowInv
<1>4. /\ losses \in Nat /\ \A i \in Given : i \in 1..Len(log)
      /\ \A k \in 1..Len(page') : page'[k] \in 1..Len(log)
  <2>1. losses \in Nat /\ delivered \in Seq(1..Len(log))
    BY DEF FollowInv, FollowOK
  <2>2. \A k \in 1..Len(delivered) : delivered[k] \in 1..Len(log)
    BY <2>1
  <2>a. page' \in Seq(1..Len(log))
    BY <1>2
  <2>3. \A k \in 1..Len(page') : page'[k] \in 1..Len(log)
    BY <2>a
  <2> QED BY <2>1, <2>2, <2>3 DEF Given
<1>5. losses = 0 => (\A i \in Given : i < h) /\ \A k \in 1..Len(page'), i \in Given : i < page'[k]
  BY <1>2 DEF FollowInv, FollowOK
<1>6. losses = 0 => \A k \in 1..Len(page'), i \in Given' : i < page'[k]
  BY <1>2, <1>5
<1>7. losses = 0 => IsTop(h)'
  <2>1. h <= h
    BY <1>2
  <2>2. losses = 0 => \A i \in Given : i <= h
    BY <1>2, <1>4, <1>5
  <2> QED BY <1>2, <2>1, <2>2 DEF IsTop
<1>8. ASSUME ~setback
      PROVE  /\ \A i, j \in 1..Len(log) : i <= j => log[i].time <= log[j].time
             /\ since <= log[h].time
  BY <1>2, <1>8 DEF FollowInv, LogOK, FollowOK
<1>9. \E m \in Given' : IsTop(m)' /\ (~setback => log[h].time = log[m].time)
  <2>1. CASE delivered = <<>>
    <3>1. Given = {}
      BY <2>1 DEF Given
    <3>2. h \in Given' /\ IsTop(h)'
      BY <1>2, <3>1 DEF IsTop
    <3> QED BY <3>2
  <2>2. CASE delivered # <<>>
    <3>1. PICK m \in Given : IsTop(m) /\ (~setback => since = log[m].time)
      BY <2>2 DEF FollowInv, FollowOK
    <3>2. m \in 1..Len(log) /\ m \in Given' /\ h \in Given'
      BY <1>2, <1>4, <3>1
    <3>3. CASE m < h
      <4>1. IsTop(h)'
        <5>1. \A i \in Given : i <= h
          BY <1>2, <1>4, <3>1, <3>2, <3>3 DEF IsTop
        <5> QED BY <1>2, <5>1 DEF IsTop
      <4> QED BY <3>2, <4>1
    <3>4. CASE h <= m
      <4>1. IsTop(m)'
        BY <1>2, <3>1, <3>2, <3>4 DEF IsTop
      <4>2. ~setback => log[h].time = log[m].time
        <5> SUFFICES ASSUME ~setback PROVE log[h].time = log[m].time
          OBVIOUS
        <5>1. log[h].time <= log[m].time /\ log[m].time <= log[h].time
          BY <1>2, <1>8, <3>1, <3>2, <3>4
        <5>2. log[m].time \in Nat
          BY <3>2, LiveFacts DEF FollowInv
        <5> QED BY <1>3, <5>1, <5>2
      <4> QED BY <3>2, <4>1, <4>2
    <3> QED BY <1>2, <3>2, <3>3, <3>4
  <2> QED BY <2>1, <2>2
<1>10. ASSUME ~setback, NEW k \in 1..Len(page') PROVE log[h].time <= log[page'[k]].time
  <2>1. h < page'[k] /\ page'[k] \in 1..Len(log)
    BY <1>2, <1>4
  <2>2. h <= page'[k]
    BY <1>3, <2>1
  <2> QED BY <1>8, <1>10, <2>1, <2>2
<1>11. Up(page)' /\ at' \in {"read", "deliver"} /\ (page' # <<>> <=> at' = "deliver") /\ h \in Nat /\ h # 0
  BY <1>1, <1>2, <1>3, SMTT(30) DEF Up
<1> QED BY <1>1, <1>2, <1>3, <1>4, <1>6, <1>7, <1>9, <1>10, <1>11 DEF FollowOK

\* The steps that leave the page and what was delivered alone, or drop the page.
LEMMA WakeOK ==
  ASSUME FollowInv, Wake
  PROVE  FollowOK'
<1>1. /\ at = "wait" /\ at' = "read" /\ log' = log /\ setback' = setback
      /\ since' = since /\ page' = page /\ delivered' = delivered
      /\ \/ after' = after /\ losses' = losses
         \/ after # 0 /\ after' = 0 /\ losses' = losses + 1
  BY DEF Wake, journal
<1>2. Given' = Given /\ (\A m : IsTop(m)' = IsTop(m)) /\ Up(page)' = Up(page)
  BY <1>1 DEF Given, IsTop, Up
<1>3. FollowOK
  BY DEF FollowInv
<1>4. losses \in Nat /\ losses' \in Nat /\ (losses' = 0 => losses = 0)
  BY <1>1, <1>3 DEF FollowOK
<1>5. after' \in Nat /\ (delivered = <<>> => after' = 0)
  BY <1>1, <1>3 DEF FollowOK
<1>6. delivered # <<>> => after' \in {0, LastOf(delivered)} /\ (after' = 0 => losses' > 0)
  BY <1>1, <1>3, <1>4 DEF FollowOK
<1> QED BY <1>1, <1>2, <1>3, <1>4, <1>5, <1>6 DEF FollowOK

LEMMA FollowElseOK ==
  ASSUME FollowInv, Follow \/ FollowStops
  PROVE  FollowOK'
<1>1. /\ at' \in {"first", "stopped"} /\ page' = <<>> /\ log' = log /\ setback' = setback
      /\ since' = since /\ delivered' = delivered /\ losses' = losses /\ after' = after
  BY DEF Follow, FollowStops, journal, FollowInv, FollowOK
<1>2. Given' = Given /\ \A m : IsTop(m)' = IsTop(m)
  BY <1>1 DEF Given, IsTop
<1>3. page' \in Seq(1..Len(log)) /\ Len(page') = 0 /\ \A k \in 1..Len(page') : FALSE
  BY <1>1
<1>4. FollowOK
  BY DEF FollowInv
<1>5. Up(page)'
  BY <1>3 DEF Up
<1> QED BY <1>1, <1>2, <1>3, <1>4, <1>5 DEF FollowOK

LEMMA FollowInvStep ==
  ASSUME FollowInv, [JournalNext]_journalVars
  PROVE  FollowInv'
<1>1. LogOK' /\ LogGrows
  BY LogStep DEF FollowInv
<1>2. CASE UNCHANGED follower
  BY <1>1, <1>2, FollowUndisturbed DEF FollowInv
<1>3. CASE FollowRead
  BY <1>1, <1>3, FollowReadOK DEF FollowInv
<1>4. CASE Deliver
  BY <1>1, <1>4, DeliverOK DEF FollowInv
<1>5. CASE Wake
  BY <1>1, <1>5, WakeOK DEF FollowInv
<1>6. CASE Follow \/ FollowStops
  BY <1>1, <1>6, FollowElseOK DEF FollowInv
<1> QED BY <1>2, <1>3, <1>4, <1>5, <1>6
        DEF JournalNext, Append1, Vacuum, Tick, TurnPage, Follower, journalVars

LEMMA FollowInvAlways ==
  JournalSpec => []FollowInv
<1>1. JournalInit => FollowInv
  BY LogOKInit, FollowOKInit DEF FollowInv
<1> QED BY <1>1, FollowInvStep, PTL DEF JournalSpec

LEMMA LatestTop ==
  ASSUME FollowInv, delivered # <<>>
  PROVE  /\ IsTop(Latest) /\ Latest \in 1..Len(log)
         /\ ~setback => since = log[Latest].time
<1>1. PICK m \in Given : IsTop(m) /\ (~setback => since = log[m].time)
  BY DEF FollowInv, FollowOK
<1>2. delivered \in Seq(1..Len(log)) /\ Len(log) \in Nat
  BY LiveFacts DEF FollowInv, FollowOK
<1>3. Range(delivered) = Given
  BY <1>2 DEF Range, Given
<1>4. \A i \in Given : i \in 1..Len(log)
  BY <1>2 DEF Given
<1>5. \A i \in Given : m >= i
  BY <1>1, <1>4 DEF IsTop
<1>6. Latest = Max(Given)
  BY <1>3 DEF Latest
<1>7. Latest \in Given /\ \A i \in Given : Latest >= i
  BY <1>1, <1>5, <1>6 DEF Max
<1>8. Latest = m
  BY <1>1, <1>4, <1>5, <1>7
<1> QED BY <1>1, <1>4, <1>8

\* Once it has delivered an entry, follow() (journal_reader.cpp) leaves none out
\* that is in the journal when it reads, and goes back only after a failed seek
\* and only to the time of its last entry, unless the clock was set back.
THEOREM FollowExactAlways ==
  JournalSpec => FollowExact
<1> DEFINE NoGap == page' # page /\ page' # <<>> /\ at # "deliver" /\ delivered # <<>> /\ ~setback =>
             \A i \in Live : Latest < i /\ i < LastOf(page') /\ Wanted(i) => i \in Range(page')
           NoReturn == delivered' # delivered /\ LastOf(delivered') <= Latest =>
             losses > 0 /\ (log[LastOf(delivered')].time = since \/ setback)
<1>1. ASSUME FollowInv, [JournalNext]_journalVars PROVE NoGap
  <2> SUFFICES ASSUME page' # page, page' # <<>>, at # "deliver", delivered # <<>>, ~setback,
                      NEW i \in Live, Latest < i, i < LastOf(page'), Wanted(i)
               PROVE  i \in Range(page')
    OBVIOUS
  <2>1. FollowRead
    BY <1>1 DEF JournalNext, Append1, Vacuum, Tick, TurnPage, Follow, Follower, Deliver, Wake,
                FollowStops, follower, journalVars
  <2>2. ReadOK(page')
    BY <1>1, <2>1, FollowReadOK
  <2>3. page' \in Seq(Live) /\ page' # <<>>
    BY <2>2 DEF ReadOK
  <2>4. Len(page') \in 1..Len(page') /\ LastOf(page') = page'[Len(page')] /\ DOMAIN page' = 1..Len(page')
    BY <2>3 DEF LastOf
  <2>5. /\ IsTop(Latest) /\ Latest \in 1..Len(log) /\ since = log[Latest].time
        /\ i \in 1..Len(log) /\ page'[Len(page')] \in 1..Len(log)
    BY <1>1, <2>3, <2>4, LatestTop, LiveFacts DEF FollowInv
  <2>6. since # 0 /\ since <= log[i].time
    <3>1. \A k, l \in 1..Len(log) : k <= l => log[k].time <= log[l].time
      BY <1>1 DEF FollowInv, LogOK
    <3>2. Len(log) \in Nat /\ log[Latest].time \in Nat \ {0}
      BY <1>1, <2>5, LiveFacts DEF FollowInv
    <3>3. Latest <= i
      BY <2>5
    <3> QED BY <2>5, <3>1, <3>2, <3>3
  <2>7. after < i
    <3>1. after = 0 \/ after = LastOf(delivered)
      BY <1>1 DEF FollowInv, FollowOK
    <3>2. LastOf(delivered) \in Given /\ LastOf(delivered) \in Nat
      <4>1. delivered \in Seq(1..Len(log)) /\ Len(delivered) \in 1..Len(delivered)
        BY <1>1 DEF FollowInv, FollowOK
      <4> QED BY <4>1 DEF Given, LastOf
    <3>3. LastOf(delivered) <= Latest
      BY <2>5, <3>2 DEF IsTop
    <3> QED BY <2>5, <3>1, <3>2, <3>3
  <2>8. (\E k \in 1..Len(page') : page'[k] = i) \/ \A k \in 1..Len(page') : page'[k] < i
    BY <2>2, <2>6, <2>7 DEF ReadOK, Wanted
  <2>9. ~(page'[Len(page')] < i)
    BY <2>4, <2>5
  <2> QED BY <2>4, <2>8, <2>9 DEF Range
<1>2. ASSUME FollowInv, [JournalNext]_journalVars PROVE NoReturn
  <2> SUFFICES ASSUME delivered' # delivered, LastOf(delivered') <= Latest
               PROVE  losses > 0 /\ (~setback => log[LastOf(delivered')].time = since)
    OBVIOUS
  <2>1. Deliver
    BY <1>2 DEF JournalNext, Append1, Vacuum, Tick, TurnPage, Follow, Follower, FollowRead, Wake,
                FollowStops, follower, journalVars
  <2>2. PICK h \in 1..Len(log) : h = LastOf(delivered') /\ h = page[1] /\ 1 \in 1..Len(page)
    BY <1>2, <2>1, DeliverShape
  <2>3. delivered # <<>>
    <3>1. Len(log) \in Nat
      BY <1>2, LiveFacts DEF FollowInv
    <3> QED BY <2>2, <3>1 DEF Latest
  <2>4. IsTop(Latest) /\ Latest \in 1..Len(log) /\ (~setback => since = log[Latest].time)
    BY <1>2, <2>3, LatestTop
  <2>5. Len(log) \in Nat /\ log[h].time \in Nat /\ log[Latest].time \in Nat
    BY <1>2, <2>2, <2>4, LiveFacts DEF FollowInv
  <2>6. losses \in Nat /\ losses # 0
    <3>1. losses \in Nat /\ (losses = 0 => Latest < h)
      BY <1>2, <2>2, <2>4 DEF FollowInv, FollowOK, IsTop
    <3> QED BY <2>2, <2>4, <2>5, <3>1
  <2>7. ~setback => since <= log[h].time /\ log[h].time <= log[Latest].time
    BY <1>2, <2>2, <2>4 DEF FollowInv, FollowOK, LogOK
  <2> QED BY <2>2, <2>4, <2>5, <2>6, <2>7
<1>3. FollowInv /\ [JournalNext]_journalVars => [NoGap /\ NoReturn]_journalVars
  BY <1>1, <1>2
<1> QED BY <1>3, FollowInvAlways, PTL DEF JournalSpec, FollowExact
================================================================================
