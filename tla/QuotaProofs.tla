----------------------------- MODULE QuotaProofs -----------------------------
(***************************************************************************)
(* The invariants of QuotaCards, for all answers the readers may get.      *)
(*                                                                         *)
(* The readers fold over arrays.  A fold is unrolled into its results, one *)
(* for every entry (AntigravityFold, ArrayFold, NewestFold), about which   *)
(* one argues by induction over the naturals as a set (Induction, from the *)
(* least element of a set).  Sorting is a matter of places: in a strict    *)
(* order each element of a finite set has its own (Places).                *)
(*                                                                         *)
(*   PoolShowsLowest     GeminiInv: what the buckets visited so far leave  *)
(*                       of each pool, in whatever order they came         *)
(*   CodexShowsNewest    LocalNewest: the event the local rows come from   *)
(*   CardsShowExhausted  ModelInv: every row of the model can be told, and *)
(*   RowsStayInReach     what was heard of a reader is in the model        *)
(***************************************************************************)
EXTENDS QuotaCards, WellFoundedInduction, FiniteSetTheorems, SequenceTheorems, TLAPS

-----------------------------------------------------------------------------
(* Induction over the naturals, and what a fold computes *)

\* Every non-empty set of naturals has a least element.
LEMMA LeastNatural ==
    ASSUME NEW T, T \subseteq Nat, T # {}
    PROVE  \E n \in T : \A m \in T : n <= m
<1>1. IsWellFoundedOn(OpToRel(<, Nat), Nat)
  BY NatLessThanWellFounded
<1>2. PICK n \in T : \A m \in T : <<m, n>> \notin OpToRel(<, Nat)
  BY <1>1, WFMin
<1>3. \A m \in T : ~(m < n)
  BY <1>2 DEF OpToRel
<1> QED
  BY <1>3

LEMMA Induction ==
    ASSUME NEW S, 0 \in S, \A n \in Nat : n \in S => n + 1 \in S
    PROVE  Nat \subseteq S
<1> SUFFICES ASSUME ~(Nat \subseteq S) PROVE FALSE
  OBVIOUS
<1>1. PICK n \in Nat \ S : \A m \in Nat \ S : n <= m
  BY LeastNatural
<1>2. n # 0 /\ n - 1 \in Nat
  OBVIOUS
<1>3. n - 1 \in S
  BY <1>1, <1>2
<1> QED
  BY <1>2, <1>3

LEMMA LeastOf ==
    ASSUME NEW S, S \subseteq Int, NEW x \in S, \A y \in S : x <= y
    PROVE  Min(S) = x
<1>1. \E z \in S : \A y \in S : z <= y
  OBVIOUS
<1>2. Min(S) \in S /\ \A y \in S : Min(S) <= y
  BY <1>1 DEF Min
<1>3. Min(S) \in Int /\ x \in Int
  BY <1>2
<1> QED
  BY <1>2, <1>3

\* The indices a fold visits: it takes the last one off.
LEMMA LastIndex ==
    ASSUME NEW m \in Nat, NEW s \in SUBSET (1..m + 1), m + 1 \in s
    PROVE  Max(s) = m + 1 /\ s \ {Max(s)} \in SUBSET (1..m)
<1>1. \E x \in s : \A y \in s : x >= y
  <2>1. \A y \in s : m + 1 >= y
    OBVIOUS
  <2> QED
    BY <2>1
<1>2. Max(s) \in s /\ \A y \in s : Max(s) >= y
  BY <1>1 DEF Max
<1> DEFINE x == Max(s)
<1> HIDE DEF x
<1>3. x \in 1..m + 1 /\ x >= m + 1
  BY <1>2 DEF x
<1>4. x = m + 1
  BY <1>3
<1>5. Max(s) = m + 1
  BY <1>4 DEF x
<1>6. \A y \in s \ {m + 1} : y \in 1..m
  OBVIOUS
<1> QED
  BY <1>5, <1>6


AntigravityRows(base, configs) == FoldLeft(AntigravityRow, base, configs)
LEMMA AntigravityFold ==
    ASSUME NEW configs, NEW n \in Nat, DOMAIN configs = 1..n, NEW base
    PROVE  \E h : /\ h[0] = base
                  /\ \A k \in 1..n : h[k] = AntigravityRow(h[k - 1], configs[k])
                  /\ h[n] = AntigravityRows(base, configs)
<1> DEFINE Body(g, m) ==
             [s \in SUBSET (1..m) |->
                IF s = {} THEN base
                ELSE AntigravityRow(g[s \ {Max(s)}], configs[Max(s)])]
           S == {m \in Nat : \E g : g = Body(g, m)}
<1>1. 0 \in S
  <2> DEFINE g == [s \in SUBSET (1..0) |-> base]
  <2>1. g = Body(g, 0)
    OBVIOUS
  <2> QED
    BY <2>1
<1>2. ASSUME NEW m \in Nat, m \in S PROVE m + 1 \in S
  <2>1. PICK g : g = Body(g, m)
    BY <1>2
  <2> DEFINE h == [s \in SUBSET (1..m + 1) |->
                     IF m + 1 \in s THEN AntigravityRow(g[s \ {m + 1}], configs[m + 1])
                     ELSE g[s]]
  <2>2. ASSUME NEW s \in SUBSET (1..m + 1) PROVE h[s] = Body(h, m + 1)[s]
    <3>1. CASE m + 1 \in s
      <4>1. Max(s) = m + 1 /\ s \ {m + 1} \in SUBSET (1..m)
        BY <3>1, LastIndex
      <4>2. s \ {m + 1} \in SUBSET (1..m + 1) /\ m + 1 \notin s \ {m + 1}
        OBVIOUS
      <4>3. h[s \ {m + 1}] = g[s \ {m + 1}]
        BY <4>2
      <4> QED
        BY <3>1, <4>1, <4>3
    <3>2. CASE m + 1 \notin s
      <4>1. s \in SUBSET (1..m)
        BY <3>2
      <4>2. /\ s \ {Max(s)} \in SUBSET (1..m + 1) /\ m + 1 \notin s \ {Max(s)}
        BY <3>2
      <4>3. h[s] = g[s] /\ h[s \ {Max(s)}] = g[s \ {Max(s)}]
        BY <3>2, <4>2
      <4>4. g[s] = IF s = {} THEN base
                   ELSE AntigravityRow(g[s \ {Max(s)}], configs[Max(s)])
        BY <2>1, <4>1
      <4> QED
        BY <4>3, <4>4
    <3> QED
      BY <3>1, <3>2
  <2>3. h = Body(h, m + 1)
    BY <2>2
  <2> HIDE DEF h, Body
  <2>4. \E f : f = Body(f, m + 1)
    BY <2>3
  <2> QED
    BY <2>4
<1>3. \E g : g = Body(g, n)
  <2> HIDE DEF Body
  <2> QED
    BY <1>1, <1>2, Induction
<1> DEFINE iter == CHOOSE g : g = Body(g, n)
<1>4. AntigravityRows(base, configs) = iter[1..n]
  BY DEF AntigravityRows, FoldLeft, MapThenFoldSet
<1>5. iter = Body(iter, n)
  <2> HIDE DEF Body
  <2> QED
    BY <1>3
<1> HIDE DEF iter
<1> DEFINE h == [k \in 0..n |-> iter[1..k]]
<1>6. iter[{}] = base /\ 1..0 = {}
  BY <1>5
<1>7. ASSUME NEW k \in 1..n PROVE iter[1..k] = AntigravityRow(iter[1..k - 1], configs[k])
  <2>1. 1..k \in SUBSET (1..n) /\ 1..k # {}
    <3>1. k \in Nat /\ 1 <= k /\ k <= n
      OBVIOUS
    <3>2. 1 \in 1..k /\ \A i \in 1..k : i \in 1..n
      BY <3>1
    <3> QED
      BY <3>2
  <2>2. Max(1..k) = k
    <3> DEFINE j == k - 1
    <3>1. j \in Nat /\ j + 1 = k
      OBVIOUS
    <3> HIDE DEF j
    <3>2. j + 1 \in 1..j + 1
      BY <3>1
    <3>3. Max(1..j + 1) = j + 1
      BY <3>1, <3>2, LastIndex
    <3> QED
      BY <3>1, <3>3
  <2>3. (1..k) \ {k} = 1..k - 1
    OBVIOUS
  <2> QED
    BY <1>5, <2>1, <2>2, <2>3
<1>8. \A k \in 1..n : k - 1 \in 0..n /\ k \in 0..n
  OBVIOUS
<1>9. h[0] = base
  BY <1>6
<1>10. \A k \in 1..n : h[k] = AntigravityRow(h[k - 1], configs[k])
  BY <1>7, <1>8
<1>11. h[n] = AntigravityRows(base, configs)
  BY <1>4
<1> HIDE DEF h
<1> QED
  BY <1>9, <1>10, <1>11

ArrayRows(base, quotas) == FoldLeft(ArrayEntry, base, quotas)
LEMMA ArrayFold ==
    ASSUME NEW quotas, NEW n \in Nat, DOMAIN quotas = 1..n, NEW base
    PROVE  \E h : /\ h[0] = base
                  /\ \A k \in 1..n : h[k] = ArrayEntry(h[k - 1], quotas[k])
                  /\ h[n] = ArrayRows(base, quotas)
<1> DEFINE Body(g, m) ==
             [s \in SUBSET (1..m) |->
                IF s = {} THEN base
                ELSE ArrayEntry(g[s \ {Max(s)}], quotas[Max(s)])]
           S == {m \in Nat : \E g : g = Body(g, m)}
<1>1. 0 \in S
  <2> DEFINE g == [s \in SUBSET (1..0) |-> base]
  <2>1. g = Body(g, 0)
    OBVIOUS
  <2> QED
    BY <2>1
<1>2. ASSUME NEW m \in Nat, m \in S PROVE m + 1 \in S
  <2>1. PICK g : g = Body(g, m)
    BY <1>2
  <2> DEFINE h == [s \in SUBSET (1..m + 1) |->
                     IF m + 1 \in s THEN ArrayEntry(g[s \ {m + 1}], quotas[m + 1])
                     ELSE g[s]]
  <2>2. ASSUME NEW s \in SUBSET (1..m + 1) PROVE h[s] = Body(h, m + 1)[s]
    <3>1. CASE m + 1 \in s
      <4>1. Max(s) = m + 1 /\ s \ {m + 1} \in SUBSET (1..m)
        BY <3>1, LastIndex
      <4>2. s \ {m + 1} \in SUBSET (1..m + 1) /\ m + 1 \notin s \ {m + 1}
        OBVIOUS
      <4>3. h[s \ {m + 1}] = g[s \ {m + 1}]
        BY <4>2
      <4> QED
        BY <3>1, <4>1, <4>3
    <3>2. CASE m + 1 \notin s
      <4>1. s \in SUBSET (1..m)
        BY <3>2
      <4>2. /\ s \ {Max(s)} \in SUBSET (1..m + 1) /\ m + 1 \notin s \ {Max(s)}
        BY <3>2
      <4>3. h[s] = g[s] /\ h[s \ {Max(s)}] = g[s \ {Max(s)}]
        BY <3>2, <4>2
      <4>4. g[s] = IF s = {} THEN base
                   ELSE ArrayEntry(g[s \ {Max(s)}], quotas[Max(s)])
        BY <2>1, <4>1
      <4> QED
        BY <4>3, <4>4
    <3> QED
      BY <3>1, <3>2
  <2>3. h = Body(h, m + 1)
    BY <2>2
  <2> HIDE DEF h, Body
  <2>4. \E f : f = Body(f, m + 1)
    BY <2>3
  <2> QED
    BY <2>4
<1>3. \E g : g = Body(g, n)
  <2> HIDE DEF Body
  <2> QED
    BY <1>1, <1>2, Induction
<1> DEFINE iter == CHOOSE g : g = Body(g, n)
<1>4. ArrayRows(base, quotas) = iter[1..n]
  BY DEF ArrayRows, FoldLeft, MapThenFoldSet
<1>5. iter = Body(iter, n)
  <2> HIDE DEF Body
  <2> QED
    BY <1>3
<1> HIDE DEF iter
<1> DEFINE h == [k \in 0..n |-> iter[1..k]]
<1>6. iter[{}] = base /\ 1..0 = {}
  BY <1>5
<1>7. ASSUME NEW k \in 1..n PROVE iter[1..k] = ArrayEntry(iter[1..k - 1], quotas[k])
  <2>1. 1..k \in SUBSET (1..n) /\ 1..k # {}
    <3>1. k \in Nat /\ 1 <= k /\ k <= n
      OBVIOUS
    <3>2. 1 \in 1..k /\ \A i \in 1..k : i \in 1..n
      BY <3>1
    <3> QED
      BY <3>2
  <2>2. Max(1..k) = k
    <3> DEFINE j == k - 1
    <3>1. j \in Nat /\ j + 1 = k
      OBVIOUS
    <3> HIDE DEF j
    <3>2. j + 1 \in 1..j + 1
      BY <3>1
    <3>3. Max(1..j + 1) = j + 1
      BY <3>1, <3>2, LastIndex
    <3> QED
      BY <3>1, <3>3
  <2>3. (1..k) \ {k} = 1..k - 1
    OBVIOUS
  <2> QED
    BY <1>5, <2>1, <2>2, <2>3
<1>8. \A k \in 1..n : k - 1 \in 0..n /\ k \in 0..n
  OBVIOUS
<1>9. h[0] = base
  BY <1>6
<1>10. \A k \in 1..n : h[k] = ArrayEntry(h[k - 1], quotas[k])
  BY <1>7, <1>8
<1>11. h[n] = ArrayRows(base, quotas)
  BY <1>4
<1> HIDE DEF h
<1> QED
  BY <1>9, <1>10, <1>11

NewestOf(base, events) == FoldLeft(Newer, base, events)
LEMMA NewestFold ==
    ASSUME NEW events, NEW n \in Nat, DOMAIN events = 1..n, NEW base
    PROVE  \E h : /\ h[0] = base
                  /\ \A k \in 1..n : h[k] = Newer(h[k - 1], events[k])
                  /\ h[n] = NewestOf(base, events)
<1> DEFINE Body(g, m) ==
             [s \in SUBSET (1..m) |->
                IF s = {} THEN base
                ELSE Newer(g[s \ {Max(s)}], events[Max(s)])]
           S == {m \in Nat : \E g : g = Body(g, m)}
<1>1. 0 \in S
  <2> DEFINE g == [s \in SUBSET (1..0) |-> base]
  <2>1. g = Body(g, 0)
    OBVIOUS
  <2> QED
    BY <2>1
<1>2. ASSUME NEW m \in Nat, m \in S PROVE m + 1 \in S
  <2>1. PICK g : g = Body(g, m)
    BY <1>2
  <2> DEFINE h == [s \in SUBSET (1..m + 1) |->
                     IF m + 1 \in s THEN Newer(g[s \ {m + 1}], events[m + 1])
                     ELSE g[s]]
  <2>2. ASSUME NEW s \in SUBSET (1..m + 1) PROVE h[s] = Body(h, m + 1)[s]
    <3>1. CASE m + 1 \in s
      <4>1. Max(s) = m + 1 /\ s \ {m + 1} \in SUBSET (1..m)
        BY <3>1, LastIndex
      <4>2. s \ {m + 1} \in SUBSET (1..m + 1) /\ m + 1 \notin s \ {m + 1}
        OBVIOUS
      <4>3. h[s \ {m + 1}] = g[s \ {m + 1}]
        BY <4>2
      <4> QED
        BY <3>1, <4>1, <4>3
    <3>2. CASE m + 1 \notin s
      <4>1. s \in SUBSET (1..m)
        BY <3>2
      <4>2. /\ s \ {Max(s)} \in SUBSET (1..m + 1) /\ m + 1 \notin s \ {Max(s)}
        BY <3>2
      <4>3. h[s] = g[s] /\ h[s \ {Max(s)}] = g[s \ {Max(s)}]
        BY <3>2, <4>2
      <4>4. g[s] = IF s = {} THEN base
                   ELSE Newer(g[s \ {Max(s)}], events[Max(s)])
        BY <2>1, <4>1
      <4> QED
        BY <4>3, <4>4
    <3> QED
      BY <3>1, <3>2
  <2>3. h = Body(h, m + 1)
    BY <2>2
  <2> HIDE DEF h, Body
  <2>4. \E f : f = Body(f, m + 1)
    BY <2>3
  <2> QED
    BY <2>4
<1>3. \E g : g = Body(g, n)
  <2> HIDE DEF Body
  <2> QED
    BY <1>1, <1>2, Induction
<1> DEFINE iter == CHOOSE g : g = Body(g, n)
<1>4. NewestOf(base, events) = iter[1..n]
  BY DEF NewestOf, FoldLeft, MapThenFoldSet
<1>5. iter = Body(iter, n)
  <2> HIDE DEF Body
  <2> QED
    BY <1>3
<1> HIDE DEF iter
<1> DEFINE h == [k \in 0..n |-> iter[1..k]]
<1>6. iter[{}] = base /\ 1..0 = {}
  BY <1>5
<1>7. ASSUME NEW k \in 1..n PROVE iter[1..k] = Newer(iter[1..k - 1], events[k])
  <2>1. 1..k \in SUBSET (1..n) /\ 1..k # {}
    <3>1. k \in Nat /\ 1 <= k /\ k <= n
      OBVIOUS
    <3>2. 1 \in 1..k /\ \A i \in 1..k : i \in 1..n
      BY <3>1
    <3> QED
      BY <3>2
  <2>2. Max(1..k) = k
    <3> DEFINE j == k - 1
    <3>1. j \in Nat /\ j + 1 = k
      OBVIOUS
    <3> HIDE DEF j
    <3>2. j + 1 \in 1..j + 1
      BY <3>1
    <3>3. Max(1..j + 1) = j + 1
      BY <3>1, <3>2, LastIndex
    <3> QED
      BY <3>1, <3>3
  <2>3. (1..k) \ {k} = 1..k - 1
    OBVIOUS
  <2> QED
    BY <1>5, <2>1, <2>2, <2>3
<1>8. \A k \in 1..n : k - 1 \in 0..n /\ k \in 0..n
  OBVIOUS
<1>9. h[0] = base
  BY <1>6
<1>10. \A k \in 1..n : h[k] = Newer(h[k - 1], events[k])
  BY <1>7, <1>8
<1>11. h[n] = NewestOf(base, events)
  BY <1>4
<1> HIDE DEF h
<1> QED
  BY <1>9, <1>10, <1>11

-----------------------------------------------------------------------------
(* Gemini: what the buckets visited so far leave of a pool *)

\* The row of a pool after the buckets of offers: none, or that of one of the
\* lowest, with its reset if that is a genuine one.
PoolRow(s, key, offers) ==
    IF offers = {} THEN key \notin DOMAIN s.metrics /\ key \notin DOMAIN s.resets
    ELSE \E o \in offers :
            /\ \A p \in offers : Percent(o.remaining) <= Percent(p.remaining)
            /\ key \in DOMAIN s.metrics
            /\ s.metrics[key].remaining = Percent(o.remaining)
            /\ IF SentinelReset(o.reset) THEN key \notin DOMAIN s.resets
               ELSE key \in DOMAIN s.resets /\ s.resets[key] = o.reset

Offers(buckets, key) == {b \in buckets : GeminiPool(b.model) = key /\ Genuine(b)}

GeminiInv ==
    /\ at \notin {"buckets", "fields"} => snap = NoRows
    /\ at \in {"buckets", "fields"} => response \in GeminiResponses
    /\ at = "buckets" => unread \subseteq response.buckets \cup ToSet(response.quotas)
    /\ at = "fields" => unread = {}
    /\ at \in {"buckets", "fields"} /\ response.quotas = <<>> =>
         \A key \in {Pro, Flash} : PoolRow(snap, key, Offers(response.buckets \ unread, key))

LEMMA PercentType ==
    ASSUME NEW x \in Int
    PROVE  Percent(x) \in 0..100
BY DEF Percent, Clamped

\* One more bucket of a pool, or of another pool.
LEMMA EmitStep ==
    ASSUME NEW s, NEW b, NEW offers, NEW key,
           b.remaining \in Int, \A o \in offers : o.remaining \in Int,
           PoolRow(s, key, offers)
    PROVE  PoolRow(Emit(s, b), key,
                   offers \cup {x \in {b} : GeminiPool(x.model) = key /\ Genuine(x)})
<1> DEFINE pool == GeminiPool(b.model)
           row == Left(Percent(b.remaining), None)
           beaten == pool \in DOMAIN s.metrics /\ s.metrics[pool].remaining <= Percent(b.remaining)
           new == NewRow(s, pool, row, b.reset)
           more == offers \cup {x \in {b} : GeminiPool(x.model) = key /\ Genuine(x)}
<1>1. Emit(s, b) = IF Genuine(b) /\ ~beaten THEN new ELSE s
  BY DEF Emit
<1>2. row.remaining = Percent(b.remaining)
  BY DEF Left, Metric
<1>3. /\ new.metrics = Put(s.metrics, pool, row)
      /\ new.resets = IF SentinelReset(b.reset) THEN Drop(s.resets, pool)
                      ELSE Put(s.resets, pool, b.reset)
  BY DEF NewRow
<1>4. Percent(b.remaining) \in Int /\ \A o \in offers : Percent(o.remaining) \in Int
  BY PercentType
<1> HIDE DEF row, new
<1>5. CASE ~Genuine(b)
  BY <1>1, <1>5
<1>6. CASE pool # key
  <2>1. more = offers
    BY <1>6
  <2>2. CASE Emit(s, b) = s
    BY <2>1, <2>2
  <2>3. CASE Emit(s, b) = new
    <3>1. key \in DOMAIN new.metrics <=> key \in DOMAIN s.metrics
      BY <1>3, <1>6 DEF Put
    <3>2. key \in DOMAIN s.metrics => new.metrics[key] = s.metrics[key]
      BY <1>3, <1>6 DEF Put
    <3>3. key \in DOMAIN new.resets <=> key \in DOMAIN s.resets
      BY <1>3, <1>6 DEF Put, Drop, Restrict
    <3>4. key \in DOMAIN s.resets => new.resets[key] = s.resets[key]
      BY <1>3, <1>6 DEF Put, Drop, Restrict
    <3> HIDE DEF pool, beaten
    <3>5. CASE offers = {}
      BY <2>1, <2>3, <3>1, <3>3, <3>5 DEF PoolRow
    <3>6. CASE offers # {}
      BY <2>1, <2>3, <3>1, <3>2, <3>3, <3>4, <3>6 DEF PoolRow
    <3> QED
      BY <3>5, <3>6
  <2> QED
    BY <1>1, <2>2, <2>3
<1>7. CASE Genuine(b) /\ pool = key
  <2>1. more = offers \cup {b}
    BY <1>7
  <2>2. CASE beaten
    <3>1. Emit(s, b) = s
      BY <1>1, <2>2
    <3>2. offers # {}
      BY <1>7, <2>2 DEF PoolRow
    <3>3. PICK o \in offers :
             /\ \A p \in offers : Percent(o.remaining) <= Percent(p.remaining)
             /\ key \in DOMAIN s.metrics
             /\ s.metrics[key].remaining = Percent(o.remaining)
             /\ IF SentinelReset(o.reset) THEN key \notin DOMAIN s.resets
                ELSE key \in DOMAIN s.resets /\ s.resets[key] = o.reset
      BY <3>2 DEF PoolRow
    <3>4. \A p \in more : Percent(o.remaining) <= Percent(p.remaining)
      BY <1>7, <2>1, <2>2, <3>3
    <3>5. o \in more /\ more # {}
      BY <2>1
    <3> HIDE DEF more
    <3>6. PoolRow(s, key, more)
      BY <3>3, <3>4, <3>5 DEF PoolRow
    <3> QED
      BY <3>1, <3>6 DEF more
  <2>3. CASE ~beaten
    <3>1. Emit(s, b) = new
      BY <1>1, <1>7, <2>3
    <3>2. \A p \in more : Percent(b.remaining) <= Percent(p.remaining)
      <4>1. CASE offers = {}
        BY <1>4, <2>1, <4>1
      <4>2. CASE offers # {}
        <5>1. PICK o \in offers :
                 /\ \A p \in offers : Percent(o.remaining) <= Percent(p.remaining)
                 /\ key \in DOMAIN s.metrics
                 /\ s.metrics[key].remaining = Percent(o.remaining)
          BY <4>2 DEF PoolRow
        <5>2. Percent(b.remaining) < Percent(o.remaining)
          BY <1>4, <1>7, <2>3, <5>1
        <5> QED
          BY <1>4, <2>1, <5>1, <5>2
      <4> QED
        BY <4>1, <4>2
    <3>3. key \in DOMAIN new.metrics /\ new.metrics[key].remaining = Percent(b.remaining)
      BY <1>2, <1>3, <1>7 DEF Put
    <3>4. IF SentinelReset(b.reset) THEN key \notin DOMAIN new.resets
          ELSE key \in DOMAIN new.resets /\ new.resets[key] = b.reset
      BY <1>3, <1>7 DEF Put, Drop, Restrict
    <3>5. b \in more /\ more # {}
      BY <2>1
    <3> HIDE DEF more
    <3>6. PoolRow(new, key, more)
      BY <3>2, <3>3, <3>4, <3>5 DEF PoolRow
    <3> QED
      BY <3>1, <3>6 DEF more
  <2> QED
    BY <2>2, <2>3
<1> QED
  BY <1>5, <1>6, <1>7

\* A row put in for a field is not that of a pool.
LEMMA FieldStep ==
    ASSUME NEW s, NEW offers, NEW key \in {Pro, Flash}, NEW field,
           field \in {"quota_pro", "quota", "quota_model_pro"}, NEW value,
           PoolRow(s, key, offers)
    PROVE  PoolRow(FieldRow(s, field, value), key, offers)
<1> DEFINE new == FieldRow(s, field, value)
           row == Left(Percent(value), None)
<1>1. key # field
  BY DEF Pro, Flash
<1>2. CASE new = s
  BY <1>2
<1>3. CASE new # s
  <2>1. new.resets = s.resets /\ new.metrics = Put(s.metrics, field, row)
    BY <1>3 DEF FieldRow
  <2>2. key \in DOMAIN new.metrics <=> key \in DOMAIN s.metrics
    BY <1>1, <2>1 DEF Put
  <2>3. key \in DOMAIN s.metrics => new.metrics[key] = s.metrics[key]
    BY <1>1, <2>1 DEF Put
  <2> HIDE DEF new
  <2>4. PoolRow(new, key, offers)
    <3>1. CASE offers = {}
      BY <2>1, <2>2, <3>1 DEF PoolRow
    <3>2. CASE offers # {}
      BY <2>1, <2>2, <2>3, <3>2 DEF PoolRow
    <3> QED
      BY <3>1, <3>2
  <2> QED
    BY <2>4 DEF new
<1> QED
  BY <1>2, <1>3

\* A reader is followed by one that does not come before it.
LEMMA AfterReader ==
    /\ After("claude") = "codex" /\ After("codex") = "gemini" /\ After("gemini") = "cursor"
    /\ After("cursor") = "antigravity" /\ After("antigravity") = "cards"
<1>1. \A i \in 1..4 : (CHOOSE j \in 1..5 : Order[j] = Order[i]) = i
  BY DEF Order
<1>2. DOMAIN Order = 1..5
  BY DEF Order
<1> QED
  BY <1>1, <1>2 DEF After, Order

\* A fold over no entries, and over the fields looked up by name.
LEMMA NoEntries ==
    ASSUME NEW s
    PROVE  FoldLeft(ArrayEntry, s, <<>>) = s
<1> DEFINE Body(g) == [t \in SUBSET {} |->
                         IF t = {} THEN s
                         ELSE ArrayEntry(g[t \ {Max(t)}], <<>>[Max(t)])]
           g == [t \in SUBSET {} |-> s]
<1>1. g = Body(g)
  OBVIOUS
<1> DEFINE iter == CHOOSE f : f = Body(f)
<1>2. DOMAIN <<>> = {}
  OBVIOUS
<1>3. FoldLeft(ArrayEntry, s, <<>>) = iter[{}]
  BY <1>2 DEF FoldLeft, MapThenFoldSet
<1>4. iter = Body(iter)
  <2> HIDE DEF Body, g
  <2> QED
    BY <1>1
<1> HIDE DEF iter
<1> QED
  BY <1>3, <1>4

LEMMA NamedStep ==
    ASSUME NEW s, NEW offers, NEW key \in {Pro, Flash}, NEW r, r.quotas = <<>>,
           PoolRow(s, key, offers)
    PROVE  PoolRow(ArrayAndNamed(s, r), key, offers)
<1> DEFINE named(t, field, row) == IF field \in DOMAIN r.fields
                                   THEN FieldRow(t, row, r.fields[field]) ELSE t
           t1 == named(s, "quota_pro", "quota_pro")
           t2 == named(t1, "quota", "quota")
           t3 == named(t2, "pro_quota", "quota_model_pro")
<1>1. ArrayAndNamed(s, r) = t3
  BY NoEntries DEF ArrayAndNamed
<1>2. PoolRow(t1, key, offers)
  BY FieldStep
<1> HIDE DEF t1
<1>3. PoolRow(t2, key, offers)
  BY <1>2, FieldStep
<1> HIDE DEF t2
<1>4. PoolRow(t3, key, offers)
  BY <1>3, FieldStep
<1> QED
  BY <1>1, <1>4

LEMMA InitGemini == Init => GeminiInv
BY DEF Init, GeminiInv

LEMMA NextGemini ==
    ASSUME GeminiInv, [Next]_vars
    PROVE  GeminiInv'
<1> USE AfterReader
<1>1. CASE ReadClaude
  BY <1>1 DEF ReadClaude, Answer, Fails, Returns, gemini, result, GeminiInv
<1>2. CASE ReadCodex
  <2>1. at = "codex" /\ at' = "gemini" /\ snap' = snap
    BY <1>2 DEF ReadCodex, Answer, Fails, Returns
  <2> QED
    BY <2>1 DEF GeminiInv
<1>3. CASE ReadGemini
  <2>1. CASE Fails("gemini") /\ at = "gemini" /\ snap' = snap
    BY <2>1 DEF Fails, GeminiInv
  <2>2. CASE /\ at = "gemini" /\ at' = "buckets" /\ snap' = snap
             /\ \E r \in GeminiResponses :
                   response' = r /\ unread' = r.buckets \cup ToSet(r.quotas)
    <3>1. snap' = NoRows
      BY <2>2 DEF GeminiInv
    <3>2. response' \in GeminiResponses
          /\ unread' = response'.buckets \cup ToSet(response'.quotas)
      BY <2>2
    <3>3. ASSUME NEW key PROVE PoolRow(snap', key, Offers(response'.buckets \ unread', key))
      BY <3>1, <3>2 DEF PoolRow, Offers, NoRows, Empty
    <3> QED
      BY <2>2, <3>2, <3>3 DEF GeminiInv
  <2> QED
    BY <1>3, <2>1, <2>2 DEF ReadGemini
<1>4. CASE VisitBucket
  <2>1. PICK b \in unread : unread' = unread \ {b} /\ snap' = Emit(snap, b)
    BY <1>4 DEF VisitBucket
  <2>2. at = "buckets" /\ at' = at /\ response' = response
    BY <1>4 DEF VisitBucket
  <2>3. response \in GeminiResponses
        /\ unread \subseteq response.buckets \cup ToSet(response.quotas)
    BY <2>2 DEF GeminiInv
  <2>4. ASSUME response.quotas = <<>>, NEW key \in {Pro, Flash}
        PROVE  PoolRow(snap', key, Offers(response.buckets \ unread', key))
    <3> DEFINE offers == Offers(response.buckets \ unread, key)
    <3>1. ToSet(response.quotas) = {}
      BY <2>4 DEF ToSet
    <3>2. b \in response.buckets
      BY <2>3, <3>1
    <3>3. \A o \in response.buckets : o.remaining \in Int
      BY <2>3, AnswersAssumption
    <3>4. Offers(response.buckets \ unread', key)
             = offers \cup {x \in {b} : GeminiPool(x.model) = key /\ Genuine(x)}
      BY <2>1, <3>2 DEF Offers
    <3>5. PoolRow(snap, key, offers)
      BY <2>2, <2>4 DEF GeminiInv
    <3>6. \A o \in offers : o.remaining \in Int
      BY <3>3 DEF Offers
    <3> HIDE DEF offers
    <3>7. PoolRow(Emit(snap, b), key,
                  offers \cup {x \in {b} : GeminiPool(x.model) = key /\ Genuine(x)})
      BY <3>2, <3>3, <3>5, <3>6, EmitStep
    <3> QED
      BY <2>1, <3>4, <3>7
  <2> QED
    BY <2>1, <2>2, <2>3, <2>4 DEF GeminiInv
<1>5. CASE VisitArray
  <2>1. /\ at = "buckets" /\ at' = "fields" /\ unread = {} /\ unread' = {}
        /\ response' = response /\ snap' = ArrayAndNamed(snap, response)
    BY <1>5 DEF VisitArray
  <2>2. response \in GeminiResponses
    BY <2>1 DEF GeminiInv
  <2>3. ASSUME response.quotas = <<>>, NEW key \in {Pro, Flash}
        PROVE  PoolRow(snap', key, Offers(response.buckets \ unread, key))
    <3>1. PoolRow(snap, key, Offers(response.buckets \ unread, key))
      BY <2>1, <2>3 DEF GeminiInv
    <3> QED
      BY <2>1, <2>3, <3>1, NamedStep
  <2> QED
    BY <2>1, <2>2, <2>3 DEF GeminiInv
<1>6. CASE VisitField
  <2>1. PICK f \in swept : snap' = FieldRow(snap, SweptKey(f), response.fields[f])
    BY <1>6 DEF VisitField
  <2>2. at = "fields" /\ at' = at /\ response' = response /\ unread' = unread
    BY <1>6 DEF VisitField
  <2>3. SweptKey(f) \in {"quota_pro", "quota", "quota_model_pro"}
    BY DEF SweptKey
  <2>4. ASSUME response.quotas = <<>>, NEW key \in {Pro, Flash}
        PROVE  PoolRow(snap', key, Offers(response.buckets \ unread, key))
    <3>1. PoolRow(snap, key, Offers(response.buckets \ unread, key))
      BY <2>2, <2>4 DEF GeminiInv
    <3> QED
      BY <2>1, <2>3, <3>1, FieldStep
  <2> QED
    BY <2>2, <2>4 DEF GeminiInv
<1>7. CASE GeminiDone
  BY <1>7 DEF GeminiDone, Returns, GeminiInv
<1>8. CASE ReadCursor
  BY <1>8 DEF ReadCursor, Fails, Returns, gemini, GeminiInv
<1>9. CASE ReadAntigravity
  BY <1>9 DEF ReadAntigravity, Returns, GeminiInv
<1>10. CASE Refreshed
  BY <1>10 DEF Refreshed, GeminiInv
<1>11. CASE Again
  BY <1>11 DEF Again, GeminiInv
<1>12. CASE UNCHANGED vars
  BY <1>12 DEF vars, GeminiInv
<1> QED
  BY <1>1, <1>2, <1>3, <1>4, <1>5, <1>6, <1>7, <1>8, <1>9, <1>10, <1>11, <1>12 DEF Next

\* The row of a pool, in the words of the property.
LEMMA PoolRowLowest ==
    ASSUME NEW s, NEW key, NEW offers, \A o \in offers : o.remaining \in Int,
           offers # {}, PoolRow(s, key, offers)
    PROVE  /\ s.metrics[key].remaining = Lowest(offers)
           /\ IF key \in DOMAIN s.resets THEN s.resets[key] \in ResetsOf(offers)
              ELSE \E r \in ResetsOf(offers) : SentinelReset(r)
<1>1. PICK o \in offers :
         /\ \A p \in offers : Percent(o.remaining) <= Percent(p.remaining)
         /\ key \in DOMAIN s.metrics
         /\ s.metrics[key].remaining = Percent(o.remaining)
         /\ IF SentinelReset(o.reset) THEN key \notin DOMAIN s.resets
            ELSE key \in DOMAIN s.resets /\ s.resets[key] = o.reset
  BY DEF PoolRow
<1>2. Lowest(offers) = Percent(o.remaining)
  <2>1. \A p \in offers : Percent(p.remaining) \in Int
    BY PercentType
  <2> DEFINE all == {Percent(p.remaining) : p \in offers}
             low == Percent(o.remaining)
  <2>2. low \in all /\ low \in Int /\ \A x \in all : x \in Int /\ low <= x
    BY <1>1, <2>1
  <2> HIDE DEF all, low
  <2>3. Min(all) = low
    BY <2>2, LeastOf
  <2>4. Lowest(offers) = Min(all)
    BY Zenon DEF Lowest, all
  <2> QED
    BY <2>3, <2>4 DEF low
<1>3. o.reset \in ResetsOf(offers)
  BY <1>2 DEF ResetsOf
<1> QED
  BY <1>1, <1>2, <1>3

LEMMA GeminiLowest ==
    ASSUME GeminiInv, at = "fields", response.quotas = <<>>, NEW key \in {Pro, Flash}
    PROVE  LET offers == {b \in response.buckets : GeminiPool(b.model) = key /\ Genuine(b)}
           IN IF offers = {} THEN key \notin DOMAIN snap.metrics
              ELSE /\ snap.metrics[key].remaining = Lowest(offers)
                   /\ IF key \in DOMAIN snap.resets
                      THEN snap.resets[key] \in ResetsOf(offers)
                      ELSE \E r \in ResetsOf(offers) : SentinelReset(r)
<1> DEFINE offers == {b \in response.buckets : GeminiPool(b.model) = key /\ Genuine(b)}
<1>1. PoolRow(snap, key, offers)
  <2>1. PoolRow(snap, key, Offers(response.buckets \ unread, key)) /\ unread = {}
    BY DEF GeminiInv
  <2>2. Offers(response.buckets \ unread, key) = offers
    BY <2>1 DEF Offers
  <2> QED
    BY <2>1, <2>2
<1>2. \A o \in offers : o.remaining \in Int
  BY AnswersAssumption DEF GeminiInv
<1> HIDE DEF offers
<1>3. CASE offers = {}
  <2>1. key \notin DOMAIN snap.metrics
    BY <1>1, <1>3 DEF PoolRow
  <2> QED
    BY <1>3, <2>1 DEF offers
<1>4. CASE offers # {}
  <2>1. /\ snap.metrics[key].remaining = Lowest(offers)
        /\ IF key \in DOMAIN snap.resets THEN snap.resets[key] \in ResetsOf(offers)
           ELSE \E r \in ResetsOf(offers) : SentinelReset(r)
    BY <1>1, <1>2, <1>4, PoolRowLowest
  <2> QED
    BY <1>4, <2>1 DEF offers
<1> QED
  BY <1>3, <1>4

-----------------------------------------------------------------------------
(* Antigravity: what the models leave of a pool *)

CreditRow(st) ==
    IF st.credits # None /\ st.limit > 0
    THEN Put(Empty, "quota_prompt_credits", Metric("credits", None, st.credits, st.limit, 720))
    ELSE Empty

AntigravityFolded(st) ==
    AntigravityRows([metrics |-> CreditRow(st), resets |-> Empty], st.configs)

LEMMA AntigravityUnfolded ==
    ASSUME NEW st
    PROVE  AntigravitySnapshot(st)
             = Rows("antigravity", AntigravityFolded(st).metrics, AntigravityFolded(st).resets)
BY DEF AntigravitySnapshot, AntigravityFolded, AntigravityRows, CreditRow

\* The lowest model of each pool is what the fold keeps.
LEMMA AntigravityLowest ==
    ASSUME NEW st \in AntigravityStatuses, NEW pool \in ModelKeys,
           NEW c \in ToSet(st.configs), c.pool = pool, ~c.internal
    PROVE  LET offers == {d \in ToSet(st.configs) : d.pool = pool /\ ~d.internal}
           IN /\ pool \in DOMAIN AntigravityFolded(st).metrics
              /\ AntigravityFolded(st).metrics[pool].remaining = Lowest(offers)
<1> DEFINE configs == st.configs
           n == Len(configs)
           base == [metrics |-> CreditRow(st), resets |-> Empty]
           C(i) == configs[i]
           O(k) == {i \in 1..k : C(i).pool = pool /\ ~C(i).internal}
           offers == {d \in ToSet(st.configs) : d.pool = pool /\ ~d.internal}
<1>1. n \in Nat /\ DOMAIN configs = 1..n
  BY AnswersAssumption
<1>2. \A i \in 1..n : C(i).remaining \in Int /\ C(i) \in ToSet(configs)
  BY <1>1, AnswersAssumption DEF ToSet
<1>3. PICK h : /\ h[0] = base
               /\ \A k \in 1..n : h[k] = AntigravityRow(h[k - 1], configs[k])
               /\ h[n] = AntigravityRows(base, configs)
  <2> HIDE DEF n, base, configs
  <2> QED
    BY <1>1, AntigravityFold
<1>4. h[n] = AntigravityFolded(st)
  BY <1>3 DEF AntigravityFolded
<1>5. ASSUME NEW i \in 1..n PROVE Percent(C(i).remaining) \in Int
  <2>1. C(i).remaining \in Int
    BY <1>2
  <2> QED
    BY <2>1, PercentType
<1> HIDE DEF n
<1> DEFINE J(k) == IF O(k) = {} THEN pool \notin DOMAIN h[k].metrics
                   ELSE \E i \in O(k) :
                           /\ \A j \in O(k) : Percent(C(i).remaining) <= Percent(C(j).remaining)
                           /\ pool \in DOMAIN h[k].metrics
                           /\ h[k].metrics[pool].remaining = Percent(C(i).remaining)
           S == {k \in Nat : k <= n => J(k)}
<1>6. 0 \in S
  <2>1. O(0) = {}
    OBVIOUS
  <2>2. pool \notin DOMAIN CreditRow(st)
    BY DEF CreditRow, Put, Empty, ModelKeys, Pro, Flash
  <2> QED
    BY <1>3, <2>1, <2>2
<1>7. ASSUME NEW k \in Nat, k \in S PROVE k + 1 \in S
  <2> SUFFICES ASSUME k + 1 <= n PROVE J(k + 1)
    OBVIOUS
  <2> DEFINE cc == C(k + 1)
             row == Left(Percent(cc.remaining), 5)
             beaten == cc.pool \in DOMAIN h[k].metrics
                        /\ h[k].metrics[cc.pool].remaining <= Percent(cc.remaining)
  <2>1. J(k) /\ k + 1 \in 1..n
    BY <1>1, <1>7
  <2>2. h[k + 1] = AntigravityRow(h[k], cc)
    BY <1>3, <2>1
  <2>3. IF cc.internal \/ beaten THEN h[k + 1] = h[k]
        ELSE h[k + 1].metrics = Put(h[k].metrics, cc.pool, row)
    BY <2>2 DEF AntigravityRow
  <2>4. row.remaining = Percent(cc.remaining)
    BY DEF Left, Metric
  <2>5. 1..k + 1 = (1..k) \cup {k + 1}
    OBVIOUS
  <2>6. \A i \in 1..k + 1 : Percent(C(i).remaining) \in Int
    <3>1. \A i \in 1..k + 1 : i \in 1..n
      BY <1>1, <2>1
    <3> QED
      BY <1>5, <3>1
  <2> HIDE DEF row
  <2>7. CASE cc.internal \/ cc.pool # pool
    <3>1. O(k + 1) = O(k)
      BY <2>5, <2>7
    <3>2. pool \in DOMAIN h[k + 1].metrics <=> pool \in DOMAIN h[k].metrics
      BY <2>3, <2>7 DEF Put
    <3>3. pool \in DOMAIN h[k].metrics => h[k + 1].metrics[pool] = h[k].metrics[pool]
      BY <2>3, <2>7 DEF Put
    <3> HIDE DEF O, C
    <3> QED
      BY <2>1, <3>1, <3>2, <3>3
  <2>8. CASE ~cc.internal /\ cc.pool = pool
    <3>1. O(k + 1) = O(k) \cup {k + 1}
      BY <2>5, <2>8
    <3>2. CASE beaten
      <4>1. h[k + 1] = h[k] /\ O(k) # {}
        BY <2>1, <2>3, <2>8, <3>2
      <4>2. PICK i \in O(k) :
               /\ \A j \in O(k) : Percent(C(i).remaining) <= Percent(C(j).remaining)
               /\ pool \in DOMAIN h[k].metrics
               /\ h[k].metrics[pool].remaining = Percent(C(i).remaining)
        BY <2>1, <4>1
      <4>3. Percent(C(i).remaining) <= Percent(C(k + 1).remaining)
        BY <2>8, <3>2, <4>2
      <4> QED
        BY <3>1, <4>1, <4>2, <4>3
    <3>3. CASE ~beaten
      <4>1. pool \in DOMAIN h[k + 1].metrics
            /\ h[k + 1].metrics[pool].remaining = Percent(C(k + 1).remaining)
        BY <2>3, <2>4, <2>8, <3>3 DEF Put
      <4>2. \A j \in O(k + 1) : Percent(C(k + 1).remaining) <= Percent(C(j).remaining)
        <5>1. CASE O(k) = {}
          BY <2>6, <3>1, <5>1
        <5>2. CASE O(k) # {}
          <6>1. PICK i \in O(k) :
                   /\ \A j \in O(k) : Percent(C(i).remaining) <= Percent(C(j).remaining)
                   /\ pool \in DOMAIN h[k].metrics
                   /\ h[k].metrics[pool].remaining = Percent(C(i).remaining)
            BY <2>1, <5>2
          <6>2. Percent(C(k + 1).remaining) < Percent(C(i).remaining)
            BY <2>6, <2>8, <3>3, <6>1
          <6>3. \A j \in O(k) : Percent(C(k + 1).remaining) <= Percent(C(j).remaining)
            BY <2>5, <2>6, <6>1, <6>2
          <6> QED
            BY <2>6, <3>1, <6>3
        <5> QED
          BY <5>1, <5>2
      <4> QED
        BY <3>1, <4>1, <4>2
    <3> QED
      BY <3>2, <3>3
  <2> QED
    BY <2>7, <2>8
<1>8. J(n)
  <2>1. Nat \subseteq S
    <3> HIDE DEF S
    <3> QED
      BY <1>6, <1>7, Induction
  <2> QED
    BY <1>1, <2>1
<1>9. \A d : d \in offers <=> \E i \in O(n) : d = C(i)
  BY <1>1 DEF ToSet
<1>10. O(n) # {}
  BY <1>9
<1>11. PICK i \in O(n) : /\ \A j \in O(n) : Percent(C(i).remaining) <= Percent(C(j).remaining)
                         /\ pool \in DOMAIN h[n].metrics
                         /\ h[n].metrics[pool].remaining = Percent(C(i).remaining)
  BY <1>8, <1>10
<1>12. Lowest(offers) = Percent(C(i).remaining)
  <2> DEFINE all == {Percent(d.remaining) : d \in offers}
             low == Percent(C(i).remaining)
  <2>1. \A d \in offers : Percent(d.remaining) \in Int /\ low <= Percent(d.remaining)
    BY <1>5, <1>9, <1>11
  <2>2. low \in all
    BY <1>9
  <2>3. all \subseteq Int /\ \A x \in all : low <= x
    BY <2>1
  <2> HIDE DEF low, offers
  <2>4. Lowest(offers) = Min(all)
    BY Zenon DEF Lowest
  <2> HIDE DEF all
  <2>5. Min(all) = low
    BY <2>2, <2>3, LeastOf
  <2> QED
    BY <2>4, <2>5 DEF low
<1> QED
  BY <1>4, <1>11, <1>12

AntigravityShown ==
    at = "cards" =>
       \A pool \in {c.pool : c \in ToSet(response.configs)} :
          LET offers == {c \in ToSet(response.configs) : c.pool = pool /\ ~c.internal}
          IN offers # {} =>
                out["antigravity"].metrics[pool].remaining = Lowest(offers)

LEMMA SnapshotOfRows ==
    ASSUME NEW provider, NEW metrics, NEW resets
    PROVE  Rows(provider, metrics, resets).metrics = metrics
BY DEF Rows, Snapshot, NoSnapshot

LEMMA AntigravityReads ==
    ASSUME NEW st \in AntigravityStatuses \cup {NoStatus}, response' = st,
           out' = Merged(out, "antigravity", AntigravitySnapshot(st))
    PROVE  \A pool \in {c.pool : c \in ToSet(response'.configs)} :
              LET offers == {c \in ToSet(response'.configs) : c.pool = pool /\ ~c.internal}
              IN offers # {} =>
                    out'["antigravity"].metrics[pool].remaining = Lowest(offers)
<1> SUFFICES ASSUME NEW pool \in {c.pool : c \in ToSet(st.configs)},
                    NEW c \in ToSet(st.configs), c.pool = pool, ~c.internal
             PROVE  LET offers == {d \in ToSet(st.configs) : d.pool = pool /\ ~d.internal}
                    IN out'["antigravity"].metrics[pool].remaining = Lowest(offers)
  OBVIOUS
<1>1. st \in AntigravityStatuses
  <2>1. ToSet(NoStatus.configs) = {}
    BY DEF NoStatus, ToSet
  <2> QED
    BY <2>1
<1>2. pool \in ModelKeys
  BY <1>1, AnswersAssumption
<1> DEFINE offers == {d \in ToSet(st.configs) : d.pool = pool /\ ~d.internal}
           folded == AntigravityFolded(st)
           s == AntigravitySnapshot(st)
<1>3. pool \in DOMAIN folded.metrics /\ folded.metrics[pool].remaining = Lowest(offers)
  BY <1>1, <1>2, AntigravityLowest
<1>4. s.metrics = folded.metrics
  BY AntigravityUnfolded, SnapshotOfRows
<1>5. s # NoSnapshot
  BY <1>3, <1>4 DEF NoSnapshot, Snapshot, Empty
<1>6. out'["antigravity"] = s
  BY <1>5 DEF Merged, Put
<1> QED
  BY <1>3, <1>4, <1>6

LEMMA NextAntigravity ==
    ASSUME AntigravityShown, [Next]_vars
    PROVE  AntigravityShown'
<1> USE AfterReader
<1>1. CASE ReadAntigravity
  <2>1. PICK st \in AntigravityStatuses \cup {NoStatus} :
           response' = st /\ Returns("antigravity", AntigravitySnapshot(st))
    BY <1>1 DEF ReadAntigravity
  <2>2. out' = Merged(out, "antigravity", AntigravitySnapshot(st))
    BY <2>1 DEF Returns
  <2> QED
    BY <2>1, <2>2, AntigravityReads DEF AntigravityShown
<1>2. CASE ReadClaude \/ ReadCodex
  <2>1. at' \in {"codex", "gemini"}
    BY <1>2 DEF ReadClaude, ReadCodex, Answer, Fails, Returns
  <2> QED
    BY <2>1 DEF AntigravityShown
<1>3. CASE ReadGemini \/ VisitBucket \/ VisitArray \/ VisitField \/ GeminiDone
  <2>1. at' \in {"buckets", "fields", "cursor"}
    BY <1>3 DEF ReadGemini, VisitBucket, VisitArray, VisitField, GeminiDone, Fails, Returns
  <2> QED
    BY <2>1 DEF AntigravityShown
<1>4. CASE ReadCursor \/ Refreshed \/ Again
  <2>1. at' \in {"antigravity", "done", "claude"}
    BY <1>4 DEF ReadCursor, Refreshed, Again, Fails, Returns
  <2> QED
    BY <2>1 DEF AntigravityShown
<1>5. CASE UNCHANGED vars
  BY <1>5 DEF vars, AntigravityShown
<1> QED
  BY <1>1, <1>2, <1>3, <1>4, <1>5 DEF Next

\* A pool that several models draw on is shown by its lowest model, in whatever
\* order the buckets and the models come (geminicli.go, antigravity.go).
THEOREM PoolShowsLowest == Spec => []LowestOfPool
<1>1. Init => GeminiInv /\ AntigravityShown
  BY InitGemini DEF Init, AntigravityShown
<1>2. GeminiInv /\ AntigravityShown /\ [Next]_vars => GeminiInv' /\ AntigravityShown'
  BY NextGemini, NextAntigravity
<1>3. GeminiInv /\ AntigravityShown => LowestOfPool
  BY GeminiLowest DEF AntigravityShown, LowestOfPool
<1> QED
  BY <1>1, <1>2, <1>3, PTL DEF Spec

-----------------------------------------------------------------------------
(* Elements in order: every place is taken by one element *)

\* How many elements come before b.
PlaceIn(S, R, b) == Cardinality({a \in S : <<a, b>> \in R})

StrictOrder(S, R) ==
    /\ \A a \in S : <<a, a>> \notin R
    /\ \A a, b, c \in S : <<a, b>> \in R /\ <<b, c>> \in R => <<a, c>> \in R
    /\ \A a, b \in S : a # b => <<a, b>> \in R \/ <<b, a>> \in R

LEMMA Places ==
    ASSUME NEW S, IsFiniteSet(S), NEW R, StrictOrder(S, R)
    PROVE  /\ \A b \in S : PlaceIn(S, R, b) \in 0..Cardinality(S) - 1
           /\ \A b, c \in S : <<b, c>> \in R => PlaceIn(S, R, b) < PlaceIn(S, R, c)
           /\ \A b, c \in S : PlaceIn(S, R, b) = PlaceIn(S, R, c) => b = c
           /\ \A i \in 1..Cardinality(S) : \E b \in S : PlaceIn(S, R, b) = i - 1
<1> DEFINE Before_(b) == {a \in S : <<a, b>> \in R}
           Place(b) == Cardinality(Before_(b))
           n == Cardinality(S)
<1> USE DEF StrictOrder
<1>1. n \in Nat
  BY FS_CardinalityType
<1>2. ASSUME NEW b \in S
      PROVE  IsFiniteSet(Before_(b)) /\ Place(b) \in 0..n - 1
  <2>1. Before_(b) \in SUBSET (S \ {b})
    OBVIOUS
  <2>2. IsFiniteSet(S \ {b}) /\ Cardinality(S \ {b}) = n - 1
    BY FS_RemoveElement
  <2> HIDE DEF Before_, n
  <2>3. IsFiniteSet(Before_(b)) /\ Place(b) <= n - 1
    BY <2>1, <2>2, FS_Subset
  <2>4. Place(b) \in Nat
    BY <2>3, FS_CardinalityType
  <2> HIDE DEF Place
  <2> QED
    BY <1>1, <2>3, <2>4
<1>3. ASSUME NEW b \in S, NEW c \in S, <<b, c>> \in R
      PROVE  Place(b) < Place(c)
  <2>1. Before_(b) \in SUBSET Before_(c) /\ b \in Before_(c) /\ b \notin Before_(b)
    BY <1>3
  <2> HIDE DEF Before_, n
  <2>2. IsFiniteSet(Before_(c)) /\ Place(b) \in Nat /\ Place(c) \in Nat
    BY <1>1, <1>2
  <2>3. Place(b) <= Place(c) /\ Place(c) # Place(b)
    BY <2>1, <2>2, FS_Subset
  <2> HIDE DEF Place
  <2> QED
    BY <2>2, <2>3
<1> HIDE DEF Before_, Place
<1>4. ASSUME NEW b \in S, NEW c \in S, Place(b) = Place(c) PROVE b = c
  <2>1. Place(b) \in Int /\ Place(c) \in Int
    BY <1>1, <1>2
  <2>2. ~(Place(b) < Place(c)) /\ ~(Place(c) < Place(b))
    BY <1>4, <2>1
  <2> QED
    BY <1>3, <2>2
<1>5. \A i \in 1..n : \E b \in S : Place(b) = i - 1
  <2> HIDE DEF n
  <2> DEFINE place == [b \in S |-> Place(b)]
  <2>1. IsFiniteSet(0..n - 1) /\ Cardinality(0..n - 1) = n
    BY <1>1, FS_Interval
  <2>2. place \in Injection(S, 0..n - 1)
    <3>1. place \in [S -> 0..n - 1] /\ \A b \in S : place[b] = Place(b)
      BY <1>2
    <3> HIDE DEF place
    <3> QED
      BY <1>4, <3>1 DEF Injection, IsInjective
  <2>3. place \in Surjection(S, 0..n - 1)
    <3> HIDE DEF place
    <3> QED
      BY <2>1, <2>2, FS_Injection DEF n
  <2>4. \A i \in 1..n : i - 1 \in 0..n - 1
    BY <1>1
  <2> QED
    BY <2>3, <2>4 DEF Surjection
<1>6. /\ \A b \in S : Place(b) \in 0..n - 1
      /\ \A b, c \in S : <<b, c>> \in R => Place(b) < Place(c)
      /\ \A b, c \in S : Place(b) = Place(c) => b = c
      /\ \A i \in 1..n : \E b \in S : Place(b) = i - 1
  BY <1>2, <1>3, <1>4, <1>5
<1>7. \A b : PlaceIn(S, R, b) = Place(b)
  BY DEF PlaceIn, Place, Before_
<1> QED
  BY <1>6, <1>7

\* The session files in the order in which they were written.
FilesInOrder(files) == Ordered(files, WrittenAfter)

LEMMA FilePlaces ==
    ASSUME NEW files, IsFiniteSet(files),
           \A f \in files : f.name \in Nat /\ f.modified \in Nat,
           \A f, g \in files : f.name = g.name => f = g
    PROVE  LET Place(f) == Cardinality({g \in files : WrittenAfter(g, f)})
           IN /\ Len(FilesInOrder(files)) = Cardinality(files)
              /\ FilesInOrder(files) \in Seq(files)
              /\ \A f \in files : Place(f) \in 0..Cardinality(files) - 1
              /\ \A i \in 1..Cardinality(files) : Place(FilesInOrder(files)[i]) = i - 1
              /\ \A f \in files : FilesInOrder(files)[Place(f) + 1] = f
<1> DEFINE R == {p \in files \X files : WrittenAfter(p[1], p[2])}
           Place(f) == Cardinality({g \in files : WrittenAfter(g, f)})
           n == Cardinality(files)
           order == FilesInOrder(files)
<1>1. \A f, g \in files : <<f, g>> \in R <=> WrittenAfter(f, g)
  OBVIOUS
<1>2. StrictOrder(files, R)
  <2> HIDE DEF R
  <2> QED
    BY <1>1 DEF WrittenAfter, StrictOrder
<1>3. ASSUME NEW f \in files PROVE Place(f) = Cardinality({g \in files : <<g, f>> \in R})
  <2>1. {g \in files : WrittenAfter(g, f)} = {g \in files : <<g, f>> \in R}
    BY <1>1
  <2> QED
    BY <2>1
<1> HIDE DEF R
<1>4. /\ \A f \in files : Place(f) \in 0..n - 1
      /\ \A f, g \in files : Place(f) = Place(g) => f = g
      /\ \A i \in 1..n : \E f \in files : Place(f) = i - 1
  <2> DEFINE Q(f) == PlaceIn(files, R, f)
  <2>1. /\ \A f \in files : Q(f) \in 0..n - 1
        /\ \A f, g \in files : Q(f) = Q(g) => f = g
        /\ \A i \in 1..n : \E f \in files : Q(f) = i - 1
    BY <1>2, Places
  <2>2. \A f \in files : Place(f) = Q(f)
    BY <1>3 DEF PlaceIn
  <2> HIDE DEF Q, Place, n
  <2> QED
    BY <2>1, <2>2
<1>5. order = [i \in 1..n |-> CHOOSE f \in files : Place(f) = i - 1]
  BY DEF FilesInOrder, Ordered
<1> HIDE DEF order, Place
<1>6. n \in Nat
  BY FS_CardinalityType
<1>7. \A i \in 1..n : order[i] \in files /\ Place(order[i]) = i - 1
  BY <1>4, <1>5
<1>8. order \in Seq(files) /\ Len(order) = n
  BY <1>5, <1>6, <1>7
<1>9. ASSUME NEW f \in files PROVE order[Place(f) + 1] = f
  <2>1. Place(f) + 1 \in 1..n /\ (Place(f) + 1) - 1 = Place(f)
    BY <1>4, <1>6
  <2> QED
    BY <1>4, <1>7, <2>1
<1> QED
  BY <1>4, <1>7, <1>8, <1>9 DEF order, Place

\* What the fold keeps is the newest of the events it met.
LEMMA NewestKept ==
    ASSUME NEW base, NEW n \in Nat, NEW events, DOMAIN events = 1..n,
           base # NoEvent => base.at \in Nat,
           \A i \in 1..n : events[i] # NoEvent => events[i].at \in Nat,
           NEW all,
           \A e : e \in all <=> e # NoEvent /\ (e = base \/ \E i \in 1..n : e = events[i])
    PROVE  IF all = {} THEN NewestOf(base, events) = NoEvent
           ELSE /\ NewestOf(base, events) \in all
                /\ \A e \in all : e.at <= NewestOf(base, events).at
<1>1. PICK h : /\ h[0] = base
               /\ \A k \in 1..n : h[k] = Newer(h[k - 1], events[k])
               /\ h[n] = NewestOf(base, events)
  BY NewestFold
<1> DEFINE Met(k) == ({base} \cup {events[i] : i \in 1..k}) \ {NoEvent}
           J(k) == IF Met(k) = {} THEN h[k] = NoEvent
                   ELSE h[k] \in Met(k) /\ \A e \in Met(k) : e.at <= h[k].at
           S == {k \in Nat : k <= n => J(k)}
<1>2. 0 \in S
  <2>1. Met(0) = {base} \ {NoEvent}
    OBVIOUS
  <2> HIDE DEF Met
  <2>2. CASE base = NoEvent
    BY <1>1, <2>1, <2>2
  <2>3. CASE base # NoEvent
    <3>1. Met(0) = {base} /\ base.at <= base.at
      BY <2>1, <2>3
    <3> QED
      BY <1>1, <3>1
  <2> QED
    BY <2>2, <2>3
<1>3. ASSUME NEW k \in Nat, k \in S PROVE k + 1 \in S
  <2> HIDE DEF J
  <2> SUFFICES ASSUME k + 1 <= n PROVE J(k + 1)
    OBVIOUS
  <2> DEFINE e == events[k + 1]
  <2>1. J(k) /\ k + 1 \in 1..n
    BY <1>3
  <2> USE DEF J
  <2>2. h[k + 1] = Newer(h[k], e)
    BY <1>1, <2>1
  <2>3. Met(k + 1) = (Met(k) \cup {e}) \ {NoEvent}
    <3>1. 1..k + 1 = (1..k) \cup {k + 1}
      OBVIOUS
    <3> QED
      BY <3>1
  <2>4. \A x \in Met(k) : x # NoEvent /\ x.at \in Nat
    <3>1. \A i \in 1..k : i \in 1..n
      BY <2>1
    <3> QED
      BY <3>1
  <2>5. e # NoEvent => e.at \in Nat
    BY <2>1
  <2> HIDE DEF Met, e
  <2>6. CASE e = NoEvent
    <3>1. Met(k + 1) = Met(k) /\ h[k + 1] = h[k]
      BY <2>2, <2>3, <2>4, <2>6 DEF Newer
    <3> QED
      BY <2>1, <3>1
  <2>7. CASE e # NoEvent /\ Met(k) = {}
    <3>1. Met(k + 1) = {e} /\ h[k + 1] = e
      BY <2>1, <2>2, <2>3, <2>7 DEF Newer
    <3> QED
      BY <2>5, <2>7, <3>1
  <2>8. CASE e # NoEvent /\ Met(k) # {}
    <3>1. Met(k + 1) = Met(k) \cup {e}
      BY <2>3, <2>4, <2>8
    <3>2. h[k] \in Met(k) /\ h[k] # NoEvent /\ h[k].at \in Nat /\ e.at \in Nat
      BY <2>1, <2>4, <2>5, <2>8
    <3>3. CASE h[k].at = NoTime \/ e.at > h[k].at
      <4>1. h[k + 1] = e
        BY <2>2, <2>8, <3>3 DEF Newer
      <4>2. h[k].at <= e.at
        BY <3>2, <3>3 DEF NoTime
      <4>3. \A x \in Met(k) : x.at <= e.at
        BY <2>1, <2>4, <2>8, <3>2, <4>2
      <4> QED
        BY <3>1, <3>2, <4>1, <4>3
    <3>4. CASE ~(h[k].at = NoTime \/ e.at > h[k].at)
      <4>1. h[k + 1] = h[k]
        BY <2>2, <2>8, <3>2, <3>4 DEF Newer
      <4> QED
        BY <2>1, <2>8, <3>1, <3>2, <3>4, <4>1
    <3> QED
      BY <3>3, <3>4
  <2> QED
    BY <2>6, <2>7, <2>8
<1>4. J(n)
  <2>1. Nat \subseteq S
    <3> HIDE DEF S
    <3> QED
      BY <1>2, <1>3, Induction
  <2> HIDE DEF J
  <2> QED
    BY <2>1
<1>5. Met(n) = all
  OBVIOUS
<1> HIDE DEF Met
<1> QED
  BY <1>1, <1>4, <1>5

\* The newest of a set of events, or NoEvent if there is none.
IsNewest(e, events) ==
    IF events = {} THEN e = NoEvent ELSE e \in events /\ \A x \in events : x.at <= e.at

LEMMA NewestIsEvent ==
    ASSUME NEW e, LegibleEvent(e)
    PROVE  e # NoEvent /\ e.at \in Nat /\ e.limits.id # "none"
BY DEF LegibleEvent, NoEvent, Event

\* The log: its newest row with an event holds the newest one.
LEMMA LogNewest ==
    ASSUME NEW log, NewestFirst(log),
           \A row \in ToSet(log) : row \in Seq(ToSet(row)) /\ \A e \in ToSet(row) : LegibleEvent(e)
    PROVE  IsNewest(LogEvent(log), UNION {ToSet(row) : row \in ToSet(log)})
<1> DEFINE rows == {i \in DOMAIN log : log[i] # <<>>}
           events == UNION {ToSet(row) : row \in ToSet(log)}
           row == log[Min(rows)]
<1>1. LogEvent(log) = IF rows = {} THEN NoEvent ELSE NewestOf(NoEvent, row)
  BY DEF LogEvent, NewestOf
<1>2. log \in Seq(ToSet(log)) /\ DOMAIN log = 1..Len(log) /\ Len(log) \in Nat
  BY DEF NewestFirst
<1>3. \A i \in DOMAIN log : log[i] \in ToSet(log)
  BY DEF ToSet
<1>4. \A e : e \in events <=> \E i \in DOMAIN log : e \in ToSet(log[i])
  BY DEF ToSet
<1>5. ToSet(<<>>) = {}
  BY DEF ToSet
<1>6. CASE rows = {}
  <2>1. events = {}
    BY <1>4, <1>5, <1>6
  <2> HIDE DEF events, rows
  <2> QED
    BY <1>1, <1>6, <2>1 DEF IsNewest, events
<1>7. CASE rows # {}
  <2>1. Min(rows) \in rows /\ \A i \in rows : Min(rows) <= i
    <3>1. rows \subseteq Nat
      BY <1>2
    <3> HIDE DEF rows
    <3>2. PICK i \in rows : \A j \in rows : i <= j
      BY <1>7, <3>1, LeastNatural
    <3>3. Min(rows) = i
      <4>1. rows \subseteq Int
        BY <3>1
      <4> QED
        BY <3>2, <4>1, LeastOf
    <3> QED
      BY <3>2, <3>3
  <2> DEFINE first == Min(rows)
             n == Len(row)
  <2>2. first \in DOMAIN log /\ log[first] = row /\ row # <<>>
    BY <2>1
  <2> HIDE DEF first, rows
  <2>3. row \in ToSet(log)
    BY <1>3, <2>2
  <2> HIDE DEF row
  <2>4. /\ n \in Nat /\ DOMAIN row = 1..n /\ \A i \in 1..n : row[i] \in ToSet(row)
        /\ \A e \in ToSet(row) : LegibleEvent(e)
    BY <2>3
  <2>5. n # 0
    BY <2>2, <2>3, <2>4
  <2> HIDE DEF n
  <2> DEFINE all == ({NoEvent} \cup {row[i] : i \in 1..n}) \ {NoEvent}
  <2>6. all = ToSet(row) /\ all # {}
    <3>1. \A e \in ToSet(row) : e # NoEvent
      BY <2>4, NewestIsEvent
    <3>2. ToSet(row) = {row[i] : i \in 1..n}
      BY <2>4 DEF ToSet
    <3>3. 1 \in 1..n
      BY <2>4, <2>5
    <3> QED
      BY <3>1, <3>2, <3>3
  <2>7. \A i \in 1..n : row[i].at \in Nat
    BY <2>4, NewestIsEvent
  <2> HIDE DEF all
  <2>8. NewestOf(NoEvent, row) \in all /\ \A e \in all : e.at <= NewestOf(NoEvent, row).at
    <3>1. \A e : e \in all <=> e # NoEvent /\ (e = NoEvent \/ \E i \in 1..n : e = row[i])
      BY DEF all
    <3> DEFINE none == NoEvent
    <3>2. none # NoEvent => none.at \in Nat
      OBVIOUS
    <3>3. \A e : e \in all <=> e # NoEvent /\ (e = none \/ \E i \in 1..n : e = row[i])
      BY <3>1
    <3> HIDE DEF none
    <3>4. IF all = {} THEN NewestOf(none, row) = NoEvent
          ELSE /\ NewestOf(none, row) \in all
               /\ \A e \in all : e.at <= NewestOf(none, row).at
      BY <2>4, <2>7, <3>2, <3>3, NewestKept
    <3> QED
      BY <2>6, <3>4 DEF none
  <2>9. ASSUME NEW e \in events PROVE e.at <= NewestOf(NoEvent, row).at
    <3>1. PICK i \in DOMAIN log : e \in ToSet(log[i])
      BY <1>4
    <3>2. i \in rows
      BY <1>5, <3>1 DEF rows
    <3>3. first <= i
      BY <2>1, <3>2 DEF first
    <3>4. NewestOf(NoEvent, row) \in ToSet(log[first])
      BY <2>2, <2>6, <2>8
    <3> QED
      BY <2>2, <3>1, <3>3, <3>4 DEF NewestFirst
  <2>10. NewestOf(NoEvent, row) \in events
    BY <1>4, <2>2, <2>6, <2>8
  <2>11. LogEvent(log) = NewestOf(NoEvent, row)
    BY <1>1, <1>7 DEF rows, row
  <2> HIDE DEF events
  <2>12. IsNewest(LogEvent(log), events)
    BY <2>9, <2>10, <2>11 DEF IsNewest
  <2> QED
    BY <2>12 DEF events
<1> QED
  BY <1>6, <1>7

\* A session file: its last event is the newest of those that count.
FileEvents(f) ==
    {e \in ToSet(f.events) : e.at # NoTime}
      \cup {Event(f.modified, e.limits) :
              e \in {x \in ToSet(f.events) : x = Last(f.events) /\ x.at = NoTime}}

LegibleFile(f) ==
    /\ Appended(f) /\ f.events \in Seq(ToSet(f.events))
    /\ \A e \in ToSet(f.events) : LegibleEvent(e)

LEMMA FileNewest ==
    ASSUME NEW f, LegibleFile(f)
    PROVE  /\ IsNewest(SessionEvent(f), FileEvents(f))
           /\ \A e \in FileEvents(f) : LegibleEvent(e)
<1> DEFINE last == Last(f.events)
           redated == Event(f.modified, last.limits)
<1>1. \A e \in FileEvents(f) : LegibleEvent(e)
  <2>1. f.modified \in Nat
    BY DEF LegibleFile, Appended
  <2>2. ASSUME NEW e \in ToSet(f.events) PROVE LegibleEvent(Event(f.modified, e.limits))
    <3> DEFINE x == Event(f.modified, e.limits)
    <3>1. x.at = f.modified /\ x.limits = e.limits
      BY DEF Event
    <3>2. LegibleEvent(e)
      BY DEF LegibleFile
    <3> HIDE DEF x
    <3>3. x = Event(x.at, x.limits)
      BY <3>1 DEF x
    <3> QED
      BY <2>1, <3>1, <3>2, <3>3 DEF LegibleEvent, x
  <2> QED
    BY <2>2 DEF FileEvents, LegibleFile
<1>2. CASE f.events = <<>>
  <2>1. FileEvents(f) = {}
    BY <1>2 DEF FileEvents, ToSet
  <2>2. SessionEvent(f) = NoEvent
    BY <1>2 DEF SessionEvent
  <2> QED
    BY <1>1, <2>1, <2>2 DEF IsNewest
<1>3. CASE f.events # <<>>
  <2>1. last \in ToSet(f.events)
    <3>1. f.events \in Seq(ToSet(f.events))
      BY DEF LegibleFile
    <3>2. Len(f.events) \in DOMAIN f.events
      BY <1>3, <3>1
    <3> QED
      BY <3>2 DEF Last, ToSet
  <2>2. LegibleEvent(last)
    BY <2>1 DEF LegibleFile
  <2>3. last = [at |-> last.at, limits |-> last.limits]
    BY <2>2 DEF LegibleEvent, Event
  <2>4. SessionEvent(f) = IF last.at = NoTime THEN [last EXCEPT !.at = f.modified] ELSE last
    BY <1>3 DEF SessionEvent
  <2> HIDE DEF last
  <2>5. [last EXCEPT !.at = f.modified] = redated
    BY <2>3 DEF Event
  <2>6. SessionEvent(f) \in FileEvents(f)
    <3>1. CASE last.at = NoTime
      BY <2>1, <2>4, <2>5, <3>1 DEF FileEvents, last
    <3>2. CASE last.at # NoTime
      BY <2>1, <2>4, <3>2 DEF FileEvents
    <3> QED
      BY <3>1, <3>2
  <2>7. ASSUME NEW e \in FileEvents(f) PROVE e.at <= SessionEvent(f).at
    <3>1. CASE e \in ToSet(f.events)
      BY <3>1 DEF LegibleFile, Appended
    <3>2. CASE e \notin ToSet(f.events)
      <4>1. last.at = NoTime /\ e = redated
        BY <3>2 DEF FileEvents, last
      <4>2. e = SessionEvent(f)
        BY <2>4, <2>5, <4>1
      <4>3. SessionEvent(f).at \in Nat
        BY <1>1, <2>6 DEF LegibleEvent
      <4> QED
        BY <4>2, <4>3
    <3> QED
      BY <3>1, <3>2
  <2>8. FileEvents(f) # {}
    BY <2>6
  <2> QED
    BY <1>1, <2>6, <2>7, <2>8 DEF IsNewest
<1> QED
  BY <1>2, <1>3

\* The files that are read are the visible ones.
Visible(files) ==
    {f \in files : Cardinality({g \in files : WrittenAfter(g, f)}) < MaxSessionFiles}

LEMMA FilesRead ==
    ASSUME NEW files, IsFiniteSet(files),
           \A f \in files : f.name \in Nat /\ f.modified \in Nat,
           \A f, g \in files : f.name = g.name => f = g
    PROVE  LET read == SessionFiles(files)
           IN /\ Len(read) \in Nat /\ DOMAIN read = 1..Len(read)
              /\ \A i \in 1..Len(read) : read[i] \in Visible(files)
              /\ \A f \in Visible(files) : \E i \in 1..Len(read) : read[i] = f
<1> DEFINE order == FilesInOrder(files)
           n == Cardinality(files)
           m == IF n <= MaxSessionFiles THEN n ELSE MaxSessionFiles
           Place(f) == Cardinality({g \in files : WrittenAfter(g, f)})
           read == SubSeq(order, 1, m)
<1>1. /\ Len(order) = n
      /\ order \in Seq(files)
      /\ \A f \in files : Place(f) \in 0..n - 1
      /\ \A i \in 1..n : Place(order[i]) = i - 1
      /\ \A f \in files : order[Place(f) + 1] = f
  BY FilePlaces
<1>2. n \in Nat /\ MaxSessionFiles \in Nat
  BY SessionAssumption, FS_CardinalityType
<1>3. Min({Len(order), MaxSessionFiles}) = m
  <2>1. Len(order) = n
    BY <1>1
  <2> HIDE DEF order, n
  <2>2. {n, MaxSessionFiles} \subseteq Int
    BY <1>2
  <2>3. m \in {n, MaxSessionFiles} /\ \A x \in {n, MaxSessionFiles} : m <= x
    BY <1>2
  <2> HIDE DEF m
  <2> QED
    BY <2>1, <2>2, <2>3, LeastOf
<1>4. SessionFiles(files) = read
  BY <1>3 DEF SessionFiles, FilesInOrder
<1>5. \A f : f \in Visible(files) <=> f \in files /\ Place(f) < MaxSessionFiles
  BY DEF Visible
<1> HIDE DEF order, n, Place
<1>6. m \in Nat /\ m <= n /\ m <= MaxSessionFiles
      /\ \A k \in Nat : k < n /\ k < MaxSessionFiles => k < m
  BY <1>2
<1> HIDE DEF m
<1>7. Len(read) = m /\ DOMAIN read = 1..m /\ \A i \in 1..m : read[i] = order[i]
  BY <1>1, <1>2, <1>6
<1> HIDE DEF read
<1>8. ASSUME NEW i \in 1..m PROVE read[i] \in Visible(files)
  <2>1. i \in 1..n /\ i - 1 < MaxSessionFiles
    BY <1>2, <1>6
  <2>2. order[i] \in files
    BY <1>1, <2>1
  <2> QED
    BY <1>1, <1>5, <1>7, <2>1, <2>2
<1>9. ASSUME NEW f \in Visible(files) PROVE \E i \in 1..m : read[i] = f
  <2>1. f \in files /\ Place(f) < MaxSessionFiles /\ Place(f) \in Nat /\ Place(f) < n
    BY <1>1, <1>2, <1>5
  <2>2. Place(f) + 1 \in 1..m
    BY <1>2, <1>6, <2>1
  <2> QED
    BY <1>1, <1>7, <2>1, <2>2
<1> QED
  BY <1>4, <1>6, <1>7, <1>8, <1>9

\* The event the local rows come from is the newest there is.
LEMMA LocalNewest ==
    ASSUME NEW disk \in CodexDisks
    PROVE  /\ IsNewest(LatestEvent(disk), EventsIn(disk))
           /\ \A e \in EventsIn(disk) : LegibleEvent(e)
<1> DEFINE log == disk.log
           files == disk.files
           read == SessionFiles(files)
           n == Len(read)
           told == [i \in DOMAIN read |-> SessionEvent(read[i])]
           logged == UNION {ToSet(row) : row \in ToSet(log)}
           base == LogEvent(log)
           all == ({base} \cup {told[i] : i \in 1..n}) \ {NoEvent}
           latest == NewestOf(base, told)
<1>1. /\ NewestFirst(log) /\ IsFiniteSet(files)
      /\ \A row \in ToSet(log) : row \in Seq(ToSet(row)) /\ \A e \in ToSet(row) : LegibleEvent(e)
      /\ \A f \in files : LegibleFile(f)
      /\ \A f, g \in files : f.name = g.name => f = g
      /\ \A f \in files : f.name \in Nat /\ f.modified \in Nat
  BY AnswersAssumption DEF LegibleFile, Appended
<1>2. /\ n \in Nat /\ DOMAIN read = 1..n
      /\ \A i \in 1..n : read[i] \in Visible(files)
      /\ \A f \in Visible(files) : \E i \in 1..n : read[i] = f
  BY <1>1, FilesRead
<1>3. Visible(files) \subseteq files
  BY DEF Visible
<1>4. IsNewest(base, logged)
  BY <1>1, LogNewest
<1>5. \A e \in logged : LegibleEvent(e)
  BY <1>1
<1>6. \A f \in Visible(files) : /\ IsNewest(SessionEvent(f), FileEvents(f))
                                /\ \A e \in FileEvents(f) : LegibleEvent(e)
  BY <1>1, <1>3, FileNewest
<1>7. EventsIn(disk) = logged \cup UNION {FileEvents(f) : f \in Visible(files)}
  BY DEF EventsIn, FileEvents, Visible
<1>8. \A e \in EventsIn(disk) : LegibleEvent(e)
  BY <1>5, <1>6, <1>7
<1>9. LatestEvent(disk) = latest
  BY DEF LatestEvent, NewestOf
<1>10. \A i \in 1..n : told[i] = SessionEvent(read[i])
  BY <1>2
<1>11. DOMAIN told = 1..n
  BY <1>2
<1> HIDE DEF log, files, read, n, told, logged, base
<1>12. base # NoEvent => base \in logged
  BY <1>4 DEF IsNewest
<1>13. ASSUME NEW i \in 1..n, told[i] # NoEvent
       PROVE  told[i] \in FileEvents(read[i]) /\ read[i] \in Visible(files)
  BY <1>2, <1>6, <1>10, <1>13 DEF IsNewest
<1>14. all \subseteq EventsIn(disk)
  BY <1>7, <1>12, <1>13
<1>15. ASSUME NEW e \in EventsIn(disk) PROVE \E x \in all : e.at <= x.at
  <2>1. CASE e \in logged
    <3>1. base \in logged /\ e.at <= base.at
      BY <1>4, <2>1 DEF IsNewest
    <3>2. base # NoEvent
      BY <1>5, <3>1, NewestIsEvent
    <3> QED
      BY <3>1, <3>2
  <2>2. CASE e \notin logged
    <3>1. PICK f \in Visible(files) : e \in FileEvents(f)
      BY <1>7, <2>2
    <3>2. SessionEvent(f) \in FileEvents(f) /\ e.at <= SessionEvent(f).at
      BY <1>6, <3>1 DEF IsNewest
    <3>3. SessionEvent(f) # NoEvent
      BY <1>6, <3>1, <3>2, NewestIsEvent
    <3>4. PICK i \in 1..n : read[i] = f
      BY <1>2
    <3>5. told[i] = SessionEvent(f)
      BY <1>10, <3>4
    <3> QED
      BY <3>2, <3>3, <3>5
  <2> QED
    BY <2>1, <2>2
<1>16. \A e \in EventsIn(disk) : e # NoEvent /\ e.at \in Nat
  BY <1>8, NewestIsEvent
<1>17. IF all = {} THEN latest = NoEvent
       ELSE latest \in all /\ \A e \in all : e.at <= latest.at
  <2>1. base # NoEvent => base.at \in Nat
    BY <1>7, <1>12, <1>16
  <2>2. \A i \in 1..n : told[i] # NoEvent => told[i].at \in Nat
    BY <1>7, <1>13, <1>16
  <2>3. \A x : x \in all => x \in EventsIn(disk)
    BY <1>14
  <2>4. \A e : e \in all <=> e # NoEvent /\ (e = base \/ \E i \in 1..n : e = told[i])
    OBVIOUS
  <2> HIDE DEF all
  <2> QED
    BY <1>2, <1>11, <2>1, <2>2, <2>4, NewestKept
<1> HIDE DEF all, latest
<1>18. CASE EventsIn(disk) = {}
  BY <1>8, <1>9, <1>14, <1>17, <1>18 DEF IsNewest
<1>19. CASE EventsIn(disk) # {}
  <2>1. all # {}
    BY <1>15, <1>19
  <2>2. latest \in EventsIn(disk)
    BY <1>14, <1>17, <2>1
  <2>3. ASSUME NEW e \in EventsIn(disk) PROVE e.at <= latest.at
    <3>1. PICK x \in all : e.at <= x.at
      BY <1>15
    <3>2. x.at <= latest.at
      BY <1>17, <2>1
    <3>3. e.at \in Nat /\ x.at \in Nat /\ latest.at \in Nat
      BY <1>14, <1>16, <2>2
    <3> QED
      BY <3>1, <3>2, <3>3
  <2> QED
    BY <1>8, <1>9, <1>19, <2>2, <2>3 DEF IsNewest
<1> QED
  BY <1>18, <1>19

\* What the model holds before Codex is asked.
BeforeCodex ==
    /\ at = "claude" => out = Empty
    /\ at = "codex" => DOMAIN out \subseteq {"claude"}

ShownRows(model, reader) == IF reader \in DOMAIN model THEN model[reader].metrics ELSE Empty

LEMMA RowsAfterMerge ==
    ASSUME NEW model, NEW reader, reader \notin DOMAIN model, NEW s
    PROVE  ShownRows(Merged(model, reader, s), reader) = s.metrics
<1>1. CASE s = NoSnapshot
  BY <1>1 DEF Merged, ShownRows, NoSnapshot, Snapshot
<1>2. CASE s # NoSnapshot
  BY <1>2 DEF Merged, ShownRows, Put
<1> QED
  BY <1>1, <1>2

\* Live rows filled up with local ones: each row is one or the other, and a
\* local one stands for a live one without a window only.
LEMMA FilledUp ==
    ASSUME NEW live, NEW local,
           \A k \in DOMAIN live.metrics : live.metrics[k].used # None
    PROVE  LET rows == MergeCodexSnaps(live, local).metrics
           IN /\ DOMAIN rows = DOMAIN live.metrics \cup DOMAIN local.metrics
              /\ \A k \in DOMAIN rows :
                    \/ k \in DOMAIN live.metrics /\ rows[k] = live.metrics[k]
                    \/ /\ k \in DOMAIN local.metrics /\ rows[k] = local.metrics[k]
                       /\ k \in DOMAIN live.metrics => live.metrics[k].window = None
<1> DEFINE rows == MergeCodexSnaps(live, local).metrics
<1>1. CASE live.metrics = Empty
  BY <1>1 DEF MergeCodexSnaps, Empty
<1>2. CASE live.metrics # Empty /\ local.metrics = Empty
  BY <1>2 DEF MergeCodexSnaps, Empty
<1>3. CASE live.metrics # Empty /\ local.metrics # Empty
  <2>1. rows = [k \in DOMAIN live.metrics \cup DOMAIN local.metrics |->
                  IF k \in DOMAIN live.metrics \cap DOMAIN local.metrics
                  THEN PreferCodexMetric(local.metrics[k], live.metrics[k])
                  ELSE IF k \in DOMAIN live.metrics THEN live.metrics[k] ELSE local.metrics[k]]
    BY <1>3 DEF MergeCodexSnaps, Snapshot
  <2> HIDE DEF rows
  <2>2. ASSUME NEW k \in DOMAIN live.metrics
        PROVE  \/ PreferCodexMetric(local.metrics[k], live.metrics[k]) = live.metrics[k]
               \/ /\ PreferCodexMetric(local.metrics[k], live.metrics[k]) = local.metrics[k]
                  /\ live.metrics[k].window = None
    BY DEF PreferCodexMetric
  <2>3. \A k \in DOMAIN rows :
           \/ k \in DOMAIN live.metrics /\ rows[k] = live.metrics[k]
           \/ /\ k \in DOMAIN local.metrics /\ rows[k] = local.metrics[k]
              /\ k \in DOMAIN live.metrics => live.metrics[k].window = None
    BY <2>1, <2>2
  <2> QED
    BY <2>1, <2>3 DEF rows
<1> QED
  BY <1>1, <1>2, <1>3

\* What Codex adds to the model: the local rows, the live ones, or both.
LEMMA CodexRows ==
    ASSUME ReadCodex, BeforeCodex
    PROVE  \E live \in CodexLive, disk \in CodexDisks :
              /\ response' = [live |-> live, disk |-> disk]
              /\ ShownRows(out', "codex") = MergeCodexSnaps(live, LocalSnapshot(disk)).metrics
<1>1. "codex" \notin DOMAIN out
  BY DEF ReadCodex, BeforeCodex
<1>2. PICK live \in CodexLive, disk \in CodexDisks :
         /\ response' = [live |-> live, disk |-> disk]
         /\ IF live = Failed
            THEN Answer("codex", IF LocalSnapshot(disk) = NoSnapshot THEN Failed
                                 ELSE LocalSnapshot(disk))
            ELSE Returns("codex", MergeCodexSnaps(live, LocalSnapshot(disk)))
  BY DEF ReadCodex
<1> DEFINE local == LocalSnapshot(disk)
<1> HIDE DEF local
<1>3. CASE live = Failed
  <2>1. MergeCodexSnaps(live, local) = local
    BY <1>3 DEF MergeCodexSnaps, Failed, StatusOnly, Snapshot
  <2>2. CASE local = NoSnapshot \/ local = Failed
    <3>1. out' = out /\ local.metrics = Empty
      BY <1>2, <1>3, <2>2 DEF Answer, Fails, local, Failed, NoSnapshot, StatusOnly, Snapshot
    <3> QED
      BY <1>1, <1>2, <2>1, <3>1 DEF ShownRows, local
  <2>3. CASE local # NoSnapshot /\ local # Failed
    <3>1. out' = Merged(out, "codex", local)
      BY <1>2, <1>3, <2>3 DEF Answer, Returns, local
    <3> QED
      BY <1>1, <1>2, <2>1, <3>1, RowsAfterMerge DEF local
  <2> QED
    BY <2>2, <2>3
<1>4. CASE live # Failed
  <2>1. out' = Merged(out, "codex", MergeCodexSnaps(live, local))
    BY <1>2, <1>4 DEF Returns, local
  <2> QED
    BY <1>1, <1>2, <2>1, RowsAfterMerge DEF local
<1> QED
  BY <1>3, <1>4

LEMMA CodexNewest ==
    ASSUME ReadCodex, BeforeCodex
    PROVE  NewestLocalRows'
<1>1. PICK live \in CodexLive, disk \in CodexDisks :
         /\ response' = [live |-> live, disk |-> disk]
         /\ ShownRows(out', "codex") = MergeCodexSnaps(live, LocalSnapshot(disk)).metrics
  BY CodexRows
<1> DEFINE local == LocalSnapshot(disk)
           events == EventsIn(disk)
           rows == ShownRows(out', "codex")
           latest == LatestEvent(disk)
<1>2. IsNewest(latest, events) /\ \A e \in events : LegibleEvent(e)
  BY LocalNewest
<1>3. \A k \in DOMAIN live.metrics : live.metrics[k].used # None
  BY AnswersAssumption
<1> HIDE DEF events, latest
<1>4. CASE events = {}
  <2>1. local = NoSnapshot
    BY <1>2, <1>4 DEF IsNewest, LocalSnapshot, latest
  <2>2. local.metrics = Empty
    BY <2>1 DEF NoSnapshot, Snapshot
  <2>3. MergeCodexSnaps(live, local).metrics = live.metrics
    BY <2>2 DEF MergeCodexSnaps
  <2>4. rows = live.metrics
    BY <1>1, <2>3
  <2> QED
    BY <1>1, <1>4, <2>4 DEF NewestLocalRows, ShownRows, events
<1>5. CASE events # {}
  <2>1. latest \in events /\ \A x \in events : x.at <= latest.at
    BY <1>2, <1>5 DEF IsNewest
  <2>2. latest \in NewestIn(events)
    BY <2>1 DEF NewestIn
  <2>3. latest # NoEvent
    BY <1>2, <2>1, NewestIsEvent
  <2>4. local = CodexSnapshot(latest.limits)
    BY <2>3 DEF LocalSnapshot, latest
  <2> HIDE DEF local
  <2>5. /\ DOMAIN rows = DOMAIN live.metrics \cup DOMAIN local.metrics
        /\ \A k \in DOMAIN rows :
              \/ k \in DOMAIN live.metrics /\ rows[k] = live.metrics[k]
              \/ /\ k \in DOMAIN local.metrics /\ rows[k] = local.metrics[k]
                 /\ k \in DOMAIN live.metrics => live.metrics[k].window = None
    <3> HIDE DEF rows
    <3>1. rows = MergeCodexSnaps(live, local).metrics
      BY <1>1 DEF rows, local
    <3> QED
      BY <1>3, <3>1, FilledUp
  <2>6. rows = IF "codex" \in DOMAIN out' THEN out'["codex"].metrics ELSE Empty
    BY DEF ShownRows
  <2> HIDE DEF rows
  <2>7. \E e \in NewestIn(events) :
           LET loc == CodexSnapshot(e.limits).metrics IN
           /\ DOMAIN rows = DOMAIN live.metrics \cup DOMAIN loc
           /\ \A k \in DOMAIN rows :
                \/ k \in DOMAIN live.metrics /\ rows[k] = live.metrics[k]
                \/ /\ k \in DOMAIN loc /\ rows[k] = loc[k]
                   /\ k \in DOMAIN live.metrics => live.metrics[k].window = None
    BY <2>2, <2>4, <2>5
  <2> QED
    BY <1>1, <1>5, <2>6, <2>7 DEF NewestLocalRows, events
<1> QED
  BY <1>4, <1>5

LEMMA NextCodex ==
    ASSUME BeforeCodex, NewestLocalRows, [Next]_vars
    PROVE  BeforeCodex' /\ NewestLocalRows'
<1> USE AfterReader
<1>1. CASE ReadClaude
  <2>1. at = "claude" /\ at' = "codex"
    BY <1>1 DEF ReadClaude, Answer, Fails, Returns
  <2>2. DOMAIN out = {}
    BY <2>1 DEF BeforeCodex, Empty
  <2>3. DOMAIN out' \subseteq {"claude"}
    BY <1>1, <2>2 DEF ReadClaude, Answer, Fails, Returns, Merged, Put
  <2> QED
    BY <2>1, <2>3 DEF BeforeCodex, NewestLocalRows
<1>2. CASE ReadCodex
  <2>1. at' = "gemini"
    BY <1>2 DEF ReadCodex, Answer, Fails, Returns
  <2> QED
    BY <1>2, <2>1, CodexNewest DEF BeforeCodex
<1>3. CASE ReadGemini \/ VisitBucket \/ VisitArray \/ VisitField \/ GeminiDone
  <2>1. at' \in {"buckets", "fields", "cursor"}
    BY <1>3 DEF ReadGemini, VisitBucket, VisitArray, VisitField, GeminiDone, Fails, Returns
  <2> QED
    BY <2>1 DEF BeforeCodex, NewestLocalRows
<1>4. CASE ReadCursor \/ ReadAntigravity \/ Refreshed
  <2>1. at' \in {"antigravity", "cards", "done"}
    BY <1>4 DEF ReadCursor, ReadAntigravity, Refreshed, Fails, Returns
  <2> QED
    BY <2>1 DEF BeforeCodex, NewestLocalRows
<1>5. CASE Again
  BY <1>5 DEF Again, BeforeCodex, NewestLocalRows
<1>6. CASE UNCHANGED vars
  BY <1>6 DEF vars, BeforeCodex, NewestLocalRows
<1> QED
  BY <1>1, <1>2, <1>3, <1>4, <1>5, <1>6 DEF Next

\* The local Codex rows are those of one event, the newest there is, whatever
\* the order of the log rows and the session files (codex.go).
THEOREM CodexShowsNewest == Spec => []NewestLocalRows
<1>1. Init => BeforeCodex /\ NewestLocalRows
  BY DEF Init, BeforeCodex, NewestLocalRows
<1>2. BeforeCodex /\ NewestLocalRows /\ [Next]_vars => BeforeCodex' /\ NewestLocalRows'
  BY NextCodex
<1> QED
  BY <1>1, <1>2, PTL DEF Spec

-----------------------------------------------------------------------------
(* Every row of the model can be told *)

\* The keys of the rows that are not Cursor's plan.
Keys == ToSet(Alphabet) \ {"plan_percent_used"}

LEMMA Letters ==
    /\ DOMAIN Alphabet = 1..13
    /\ ToSet(Alphabet) = {Alphabet[i] : i \in 1..13}
    /\ {"quota", "quota_pro", "quota_model_pro", "quota_prompt_credits", Pro, Flash,
        "quota_model_claude", "rate_limit_primary", "rate_limit_secondary",
        "rate_limit_code_review_primary"} \subseteq Keys
    /\ "plan_percent_used" \in ToSet(Alphabet)
<1>1. DOMAIN Alphabet = 1..13
  BY DEF Alphabet
<1>2. ToSet(Alphabet) = {Alphabet[i] : i \in 1..13}
  BY <1>1 DEF ToSet
<1>3. /\ Alphabet[1] = "plan_percent_used" /\ Alphabet[2] = "quota" /\ Alphabet[3] = Flash
      /\ Alphabet[4] = Pro /\ Alphabet[5] = "quota_model_claude"
      /\ Alphabet[6] = "quota_model_pro" /\ Alphabet[7] = "quota_pro"
      /\ Alphabet[8] = "quota_prompt_credits"
      /\ Alphabet[9] = "rate_limit_code_review_primary"
      /\ Alphabet[10] = "rate_limit_primary" /\ Alphabet[11] = "rate_limit_secondary"
  BY DEF Alphabet
<1>4. {2, 3, 4, 5, 6, 7, 8, 9, 10, 11, 1} \subseteq 1..13
  OBVIOUS
<1>5. Pro # "plan_percent_used" /\ Flash # "plan_percent_used"
  BY DEF Pro, Flash
<1> QED
  BY <1>1, <1>2, <1>3, <1>4, <1>5 DEF Keys

MetricType == [unit : {"%", "credits"}, used : Int, remaining : Int, limit : Int, window : Int]

LEMMA LeftTold ==
    ASSUME NEW key \in Keys, NEW percent \in Int, NEW window \in Int
    PROVE  LegibleRow(key, Left(Percent(percent), window))
<1> DEFINE m == Left(Percent(percent), window)
<1>1. Percent(percent) \in 0..100
  BY PercentType
<1>2. m \in MetricType /\ m.unit = "%" /\ m.remaining = Percent(percent)
  BY <1>1 DEF Left, Metric, None, MetricType
<1> HIDE DEF m
<1>3. RemainingPercent(m) # None
  BY <1>1, <1>2 DEF RemainingPercent, None, Clamped
<1> QED
  BY <1>2, <1>3 DEF LegibleRow, Keys, MetricType, m

LEMMA UsedTold ==
    ASSUME NEW percent \in Int, percent # None, NEW window \in Int
    PROVE  /\ Used(percent, window) \in MetricType
           /\ RemainingPercent(Used(percent, window)) # None
<1> DEFINE m == Used(percent, window)
<1>1. /\ m \in MetricType /\ m.unit = "%" /\ m.remaining = None /\ m.used = percent
  BY DEF Used, Metric, None, MetricType
<1> HIDE DEF m
<1>2. RemainingPercent(m) = Clamped(100 - percent)
  BY <1>1 DEF RemainingPercent
<1>3. Clamped(100 - percent) # None
  BY DEF Clamped, None
<1> QED
  BY <1>1, <1>2, <1>3 DEF m

Legible(metrics) == \A k \in DOMAIN metrics : LegibleRow(k, metrics[k])

LEMMA PutLegible ==
    ASSUME NEW metrics, Legible(metrics), NEW key, NEW m, LegibleRow(key, m)
    PROVE  Legible(Put(metrics, key, m))
BY DEF Legible, Put

LEMMA NothingLegible == Legible(Empty)
BY DEF Legible, Empty

\* Gemini
LEMMA PoolKey == \A model : GeminiPool(model) \in Keys
BY Letters DEF GeminiPool

LEMMA EmitLegible ==
    ASSUME NEW s, Legible(s.metrics), NEW b, b.remaining \in Int
    PROVE  Legible(Emit(s, b).metrics)
<1> DEFINE key == GeminiPool(b.model)
           row == Left(Percent(b.remaining), None)
<1>1. Emit(s, b) = s \/ Emit(s, b) = NewRow(s, key, row, b.reset)
  BY DEF Emit
<1>2. None \in Int
  BY DEF None
<1>3. LegibleRow(key, row)
  BY <1>2, LeftTold, PoolKey
<1> HIDE DEF key, row
<1>4. NewRow(s, key, row, b.reset).metrics = Put(s.metrics, key, row)
  BY DEF NewRow
<1>5. Legible(Put(s.metrics, key, row))
  BY <1>3, PutLegible
<1> QED
  BY <1>1, <1>4, <1>5

LEMMA FieldLegible ==
    ASSUME NEW s, Legible(s.metrics), NEW key \in Keys, NEW value \in Int
    PROVE  Legible(FieldRow(s, key, value).metrics)
<1> DEFINE row == Left(Percent(value), None)
<1>1. FieldRow(s, key, value) = s \/ FieldRow(s, key, value).metrics = Put(s.metrics, key, row)
  BY DEF FieldRow
<1>2. None \in Int
  BY DEF None
<1>3. LegibleRow(key, row)
  BY <1>2, LeftTold
<1> HIDE DEF row
<1>4. Legible(Put(s.metrics, key, row))
  BY <1>3, PutLegible
<1> QED
  BY <1>1, <1>4

LEMMA ArrayLegible ==
    ASSUME NEW r \in GeminiResponses, NEW s, Legible(s.metrics)
    PROVE  Legible(ArrayRows(s, r.quotas).metrics)
<1> DEFINE quotas == r.quotas
           n == Len(quotas)
<1>1. n \in Nat /\ DOMAIN quotas = 1..n
  BY AnswersAssumption
<1>2. \A i \in 1..n : quotas[i].remaining \in Int
  BY <1>1, AnswersAssumption DEF ToSet
<1> HIDE DEF n, quotas
<1>3. PICK h : /\ h[0] = s
               /\ \A k \in 1..n : h[k] = ArrayEntry(h[k - 1], quotas[k])
               /\ h[n] = ArrayRows(s, quotas)
  BY <1>1, ArrayFold
<1> DEFINE S == {k \in Nat : k <= n => Legible(h[k].metrics)}
<1>4. 0 \in S
  BY <1>3
<1>5. ASSUME NEW k \in Nat, k \in S PROVE k + 1 \in S
  <2> SUFFICES ASSUME k + 1 <= n PROVE Legible(h[k + 1].metrics)
    OBVIOUS
  <2> DEFINE q == quotas[k + 1]
             row == Left(Percent(q.remaining), None)
             key == GeminiPool(q.model)
  <2>1. Legible(h[k].metrics) /\ k + 1 \in 1..n
    BY <1>1, <1>5
  <2>2. h[k + 1] = ArrayEntry(h[k], q)
    BY <1>3, <2>1
  <2>3. h[k + 1].metrics = Put(h[k].metrics, key, row)
    BY <2>2 DEF ArrayEntry
  <2>4. q.remaining \in Int /\ None \in Int
    BY <1>2, <2>1 DEF None
  <2> HIDE DEF q
  <2>5. LegibleRow(key, row)
    BY <2>4, LeftTold, PoolKey
  <2> HIDE DEF key, row
  <2> QED
    BY <2>1, <2>3, <2>5, PutLegible
<1>6. n \in S
  <2> HIDE DEF S
  <2> QED
    BY <1>1, <1>4, <1>5, Induction
<1>7. Legible(h[n].metrics)
  BY <1>1, <1>6
<1> QED
  BY <1>3, <1>7 DEF quotas

LEMMA ArrayAndNamedLegible ==
    ASSUME NEW r \in GeminiResponses, NEW s, Legible(s.metrics)
    PROVE  Legible(ArrayAndNamed(s, r).metrics)
<1> DEFINE named(t, field, row) == IF field \in DOMAIN r.fields
                                   THEN FieldRow(t, row, r.fields[field]) ELSE t
           t0 == ArrayRows(s, r.quotas)
           t1 == named(t0, "quota_pro", "quota_pro")
           t2 == named(t1, "quota", "quota")
           t3 == named(t2, "pro_quota", "quota_model_pro")
<1>1. ArrayAndNamed(s, r) = t3
  BY DEF ArrayAndNamed, ArrayRows
<1>2. \A f \in DOMAIN r.fields : r.fields[f] \in Int
  BY AnswersAssumption
<1>3. Legible(t0.metrics)
  BY ArrayLegible
<1> HIDE DEF t0
<1>4. Legible(t1.metrics)
  BY <1>2, <1>3, FieldLegible, Letters
<1> HIDE DEF t1
<1>5. Legible(t2.metrics)
  BY <1>2, <1>4, FieldLegible, Letters
<1> HIDE DEF t2
<1>6. Legible(t3.metrics)
  BY <1>2, <1>5, FieldLegible, Letters
<1> QED
  BY <1>1, <1>6

\* Antigravity
LEMMA CreditsTold ==
    ASSUME NEW credits \in Int, credits # None, NEW limit \in Int, limit > 0
    PROVE  LegibleRow("quota_prompt_credits", Metric("credits", None, credits, limit, 720))
<1> DEFINE m == Metric("credits", None, credits, limit, 720)
           v == (100 * credits) \div limit
<1>1. /\ m \in MetricType /\ m.unit = "credits" /\ m.remaining = credits /\ m.limit = limit
  BY DEF Metric, None, MetricType
<1>2. v \in Int
  OBVIOUS
<1> HIDE DEF m
<1>3. RemainingPercent(m) = Clamped(v)
  BY <1>1 DEF RemainingPercent
<1> HIDE DEF v
<1>4. Clamped(v) # None
  BY <1>2 DEF Clamped, None
<1> QED
  BY <1>1, <1>3, <1>4, Letters DEF LegibleRow, Keys, MetricType, m

LEMMA AntigravityLegible ==
    ASSUME NEW st \in AntigravityStatuses \cup {NoStatus}
    PROVE  Legible(AntigravitySnapshot(st).metrics)
<1> DEFINE configs == st.configs
           n == Len(configs)
           credits == CreditRow(st)
           base == [metrics |-> credits, resets |-> Empty]
<1>1. /\ n \in Nat /\ DOMAIN configs = 1..n
      /\ \A i \in 1..n : configs[i].pool \in ModelKeys /\ configs[i].remaining \in Int
      /\ st.credits \in Int /\ st.limit \in Int
  <2>1. CASE st \in AntigravityStatuses
    <3>1. n \in Nat /\ DOMAIN configs = 1..n
      BY <2>1, AnswersAssumption
    <3>2. \A i \in 1..n : configs[i] \in ToSet(configs)
      BY <3>1 DEF ToSet
    <3>3. \A c \in ToSet(configs) : c.pool \in ModelKeys /\ c.remaining \in Int
      BY <2>1, AnswersAssumption
    <3>4. st.credits \in Int /\ st.limit \in Int
      BY <2>1, AnswersAssumption
    <3> HIDE DEF n, configs
    <3> QED
      BY <3>1, <3>2, <3>3, <3>4
  <2>2. CASE st = NoStatus
    BY <2>2 DEF NoStatus, None
  <2> QED
    BY <2>1, <2>2
<1>2. Legible(credits)
  <2>1. LegibleRow("quota_prompt_credits", Metric("credits", None, st.credits, st.limit, 720))
        \/ credits = Empty
    BY <1>1, CreditsTold DEF CreditRow
  <2> QED
    BY <2>1, NothingLegible, PutLegible DEF CreditRow
<1> HIDE DEF n, configs, credits
<1>3. PICK h : /\ h[0] = base
               /\ \A k \in 1..n : h[k] = AntigravityRow(h[k - 1], configs[k])
               /\ h[n] = AntigravityRows(base, configs)
  <2> HIDE DEF base
  <2> QED
    BY <1>1, AntigravityFold
<1> DEFINE S == {k \in Nat : k <= n => Legible(h[k].metrics)}
<1>4. 0 \in S
  BY <1>2, <1>3
<1>5. ASSUME NEW k \in Nat, k \in S PROVE k + 1 \in S
  <2> SUFFICES ASSUME k + 1 <= n PROVE Legible(h[k + 1].metrics)
    OBVIOUS
  <2> DEFINE c == configs[k + 1]
             row == Left(Percent(c.remaining), 5)
             key == c.pool
  <2>1. Legible(h[k].metrics) /\ k + 1 \in 1..n
    BY <1>1, <1>5
  <2>2. h[k + 1] = AntigravityRow(h[k], c)
    BY <1>3, <2>1
  <2>3. h[k + 1] = h[k] \/ h[k + 1].metrics = Put(h[k].metrics, key, row)
    BY <2>2 DEF AntigravityRow
  <2>4. c.remaining \in Int /\ c.pool \in Keys
    BY <1>1, <2>1, Letters DEF ModelKeys
  <2> HIDE DEF c
  <2>5. LegibleRow(key, row)
    BY <2>4, LeftTold
  <2> HIDE DEF key, row
  <2>6. Legible(Put(h[k].metrics, key, row))
    BY <2>1, <2>5, PutLegible
  <2> QED
    BY <2>1, <2>3, <2>6
<1>6. n \in S
  <2> HIDE DEF S
  <2> QED
    BY <1>1, <1>4, <1>5, Induction
<1>7. Legible(h[n].metrics)
  BY <1>1, <1>6
<1>8. AntigravitySnapshot(st).metrics = AntigravityFolded(st).metrics
  BY AntigravityUnfolded, SnapshotOfRows
<1>9. h[n] = AntigravityFolded(st)
  BY <1>3 DEF AntigravityFolded, credits, configs
<1> QED
  BY <1>7, <1>8, <1>9

\* Codex
LEMMA CodexLegible ==
    ASSUME NEW e, LegibleEvent(e)
    PROVE  Legible(CodexSnapshot(e.limits).metrics)
<1> DEFINE limits == e.limits
           metered == {b \in DOMAIN limits.buckets : limits.buckets[b].used # None}
           keys == {MetricKey(limits.id, b) : b \in metered}
           bucket == [key \in keys |->
                        limits.buckets[CHOOSE b \in metered : MetricKey(limits.id, b) = key]]
           metrics == [key \in keys |-> Used(bucket[key].used, bucket[key].window)]
           resets == [key \in {k \in keys : bucket[k].reset # "none"} |-> bucket[key].reset]
<1>1. CodexSnapshot(limits) = Rows("codex", metrics, resets)
  BY DEF CodexSnapshot
<1>2. CodexSnapshot(limits).metrics = metrics
  <2> HIDE DEF metrics, resets
  <2> QED
    BY <1>1, SnapshotOfRows
<1>3. ASSUME NEW key \in keys PROVE LegibleRow(key, metrics[key])
  <2> DEFINE b == CHOOSE x \in metered : MetricKey(limits.id, x) = key
  <2>1. b \in metered /\ MetricKey(limits.id, b) = key
    <3>1. \E x \in metered : MetricKey(limits.id, x) = key
      OBVIOUS
    <3> HIDE DEF metered
    <3> QED
      BY <3>1
  <2>2. metrics[key] = Used(limits.buckets[b].used, limits.buckets[b].window)
    OBVIOUS
  <2> HIDE DEF b, metrics
  <2>3. /\ limits.buckets[b].used \in Int /\ limits.buckets[b].used # None
        /\ limits.buckets[b].window \in Int /\ b \in {"primary", "secondary"}
        /\ limits.id \in {"codex", "code_review"}
    BY <2>1 DEF LegibleEvent
  <2>4. key \in Keys
    <3>1. key \in {"rate_limit_primary", "rate_limit_secondary",
                   "rate_limit_code_review_primary"}
      BY <2>1, <2>3 DEF MetricKey
    <3> QED
      BY <3>1, Letters
  <2>5. metrics[key] \in MetricType /\ RemainingPercent(metrics[key]) # None
    BY <2>2, <2>3, UsedTold
  <2> QED
    BY <2>4, <2>5 DEF LegibleRow, Keys, MetricType
<1>4. DOMAIN metrics = keys
  OBVIOUS
<1> HIDE DEF metrics, keys
<1> QED
  BY <1>2, <1>3, <1>4 DEF Legible, limits

LEMMA LocalLegible ==
    ASSUME NEW disk \in CodexDisks
    PROVE  Legible(LocalSnapshot(disk).metrics)
<1>1. CASE LatestEvent(disk) = NoEvent
  <2>1. LocalSnapshot(disk).metrics = Empty
    BY <1>1 DEF LocalSnapshot, NoSnapshot, Snapshot
  <2> QED
    BY <2>1, NothingLegible
<1>2. CASE LatestEvent(disk) # NoEvent
  <2>1. LegibleEvent(LatestEvent(disk))
    BY <1>2, LocalNewest DEF IsNewest
  <2>2. LocalSnapshot(disk) = CodexSnapshot(LatestEvent(disk).limits)
    BY <1>2 DEF LocalSnapshot
  <2> QED
    BY <2>1, <2>2, CodexLegible
<1> QED
  BY <1>1, <1>2

LEMMA LiveLegible ==
    ASSUME NEW live \in CodexLive, NEW disk \in CodexDisks
    PROVE  Legible(MergeCodexSnaps(live, LocalSnapshot(disk)).metrics)
<1> DEFINE local == LocalSnapshot(disk)
           rows == MergeCodexSnaps(live, local).metrics
<1>1. \A k \in DOMAIN live.metrics : live.metrics[k].used # None /\ LegibleRow(k, live.metrics[k])
  BY AnswersAssumption
<1>2. \A k \in DOMAIN local.metrics : LegibleRow(k, local.metrics[k])
  BY LocalLegible DEF Legible
<1> HIDE DEF local
<1>3. \A k \in DOMAIN rows : \/ k \in DOMAIN live.metrics /\ rows[k] = live.metrics[k]
                             \/ k \in DOMAIN local.metrics /\ rows[k] = local.metrics[k]
  BY <1>1, FilledUp
<1> HIDE DEF rows
<1> QED
  BY <1>1, <1>2, <1>3 DEF Legible, rows, local

\* Cursor
PlanTold(s) ==
    \A k \in DOMAIN s.metrics :
       /\ k \in ToSet(Alphabet)
       /\ s.metrics[k] \in MetricType /\ RemainingPercent(s.metrics[k]) # None
       /\ k = "plan_percent_used" => s.provider = "cursor"

LEMMA LegibleTold ==
    ASSUME NEW s, Legible(s.metrics)
    PROVE  PlanTold(s)
BY DEF Legible, LegibleRow, PlanTold, MetricType

LEMMA CursorTold ==
    ASSUME NEW usage \in CursorUsages
    PROVE  PlanTold(CursorSnapshot(usage))
<1> DEFINE used == CursorUsed(usage)
           row == Used(used, 720)
           metrics == Put(Empty, "plan_percent_used", row)
           resets == IF usage.ends = "none" THEN Empty
                     ELSE Put(Empty, "plan_percent_used", usage.ends)
<1>1. CASE used = None
  <2>1. DOMAIN CursorSnapshot(usage).metrics = {}
    BY <1>1 DEF CursorSnapshot, NoSnapshot, Snapshot, Empty
  <2> QED
    BY <2>1 DEF PlanTold
<1>2. CASE used # None
  <2>1. used \in Int
    <3>1. /\ usage.stated \in Int /\ usage.limit \in Int
          /\ usage.remaining \in Int /\ usage.overall \in Int
      BY AnswersAssumption
    <3> DEFINE left == IF usage.remaining = None THEN 0 ELSE usage.remaining
    <3>2. left \in Int
      BY <3>1
    <3> HIDE DEF left
    <3>3. usage.limit > 0 => (100 * (usage.limit - left)) \div usage.limit \in Int
      BY <3>1, <3>2
    <3> QED
      BY <3>1, <3>3 DEF CursorUsed, left
  <2>2. row \in MetricType /\ RemainingPercent(row) # None
    BY <1>2, <2>1, UsedTold
  <2>3. CursorSnapshot(usage) = Rows("cursor", metrics, resets)
    BY <1>2 DEF CursorSnapshot
  <2> HIDE DEF row, resets
  <2>4. DOMAIN metrics = {"plan_percent_used"} /\ metrics["plan_percent_used"] = row
    BY DEF Put, Empty
  <2>5. metrics # Empty
    BY <2>4 DEF Empty
  <2> HIDE DEF metrics
  <2>6. CursorSnapshot(usage).metrics = metrics /\ CursorSnapshot(usage).provider = "cursor"
    BY <2>3, <2>5 DEF Rows, Snapshot
  <2> QED
    BY <2>2, <2>4, <2>6, Letters DEF PlanTold
<1> QED
  BY <1>1, <1>2

-----------------------------------------------------------------------------
(* The model the cards are made of *)

AskedBefore ==
    CASE at = "claude" -> {}
      [] at = "codex" -> {"claude"}
      [] at \in {"gemini", "buckets", "fields"} -> {"claude", "codex"}
      [] at = "cursor" -> {"claude", "codex", "gemini"}
      [] at = "antigravity" -> {"claude", "codex", "gemini", "cursor"}
      [] OTHER -> {"claude", "codex", "gemini", "cursor", "antigravity"}

ModelTold ==
    /\ \A r \in DOMAIN out : PlanTold(out[r])
    /\ \A h \in heard : h[1] \in DOMAIN out /\ h[2] \in DOMAIN out[h[1]].metrics

GeminiTold ==
    /\ Legible(snap.metrics)
    /\ at \in {"buckets", "fields"} =>
         response \in GeminiResponses /\ swept \subseteq DOMAIN response.fields
    /\ at = "buckets" => unread \subseteq response.buckets \cup ToSet(response.quotas)

CardsMade ==
    /\ at # "done" => cards = Empty
    /\ at = "done" => \/ status = "updated" /\ cards = Cards(out, hidden)
                      \/ out = Empty /\ cards = Empty

ModelInv ==
    /\ at \in {"claude", "codex", "gemini", "buckets", "fields", "cursor", "antigravity",
               "cards", "done"}
    /\ DOMAIN out \subseteq AskedBefore
    /\ ModelTold
    /\ GeminiTold
    /\ CardsMade

LEMMA InitModel == Init => ModelInv
<1> SUFFICES ASSUME Init PROVE ModelInv
  OBVIOUS
<1>1. DOMAIN out = {} /\ heard = {} /\ at = "claude" /\ cards = Empty
  BY DEF Init, Empty
<1>2. Legible(snap.metrics)
  BY NothingLegible DEF Init, NoRows
<1> QED
  BY <1>1, <1>2 DEF ModelInv, ModelTold, GeminiTold, CardsMade

\* A reader's answer joins those of the readers before it.
LEMMA AnswerJoins ==
    ASSUME ModelTold, NEW reader, reader \notin DOMAIN out, NEW s, PlanTold(s),
           Returns(reader, s)
    PROVE  ModelTold' /\ DOMAIN out' \subseteq DOMAIN out \cup {reader}
<1>1. out' = Merged(out, reader, s)
      /\ heard' = heard \cup {<<reader, k>> : k \in DOMAIN s.metrics}
  BY DEF Returns
<1>2. CASE s = NoSnapshot
  <2>1. DOMAIN s.metrics = {}
    BY <1>2 DEF NoSnapshot, Snapshot, Empty
  <2>2. out' = out /\ heard' = heard
    BY <1>1, <1>2, <2>1 DEF Merged
  <2> QED
    BY <2>2 DEF ModelTold
<1>3. CASE s # NoSnapshot
  <2>1. /\ DOMAIN out' = DOMAIN out \cup {reader} /\ out'[reader] = s
        /\ \A r \in DOMAIN out : out'[r] = out[r]
    BY <1>1, <1>3 DEF Merged, Put
  <2>2. \A r \in DOMAIN out' : PlanTold(out'[r])
    BY <2>1 DEF ModelTold
  <2>3. ASSUME NEW h \in heard'
        PROVE  h[1] \in DOMAIN out' /\ h[2] \in DOMAIN out'[h[1]].metrics
    <3>1. CASE h \in heard
      BY <2>1, <3>1 DEF ModelTold
    <3>2. CASE h \notin heard
      <4>1. PICK k \in DOMAIN s.metrics : h = <<reader, k>>
        BY <1>1, <3>2
      <4> QED
        BY <2>1, <4>1
    <3> QED
      BY <3>1, <3>2
  <2> QED
    BY <2>1, <2>2, <2>3 DEF ModelTold
<1> QED
  BY <1>2, <1>3

LEMMA FailureAddsNothing ==
    ASSUME ModelTold, NEW reader, Fails(reader)
    PROVE  ModelTold' /\ DOMAIN out' = DOMAIN out
BY DEF Fails, ModelTold

LEMMA EitherAnswer ==
    ASSUME ModelTold, NEW reader, reader \notin DOMAIN out, NEW s, PlanTold(s),
           Answer(reader, s)
    PROVE  ModelTold' /\ DOMAIN out' \subseteq DOMAIN out \cup {reader}
<1>1. Fails(reader) \/ Returns(reader, s)
  BY DEF Answer
<1> QED
  BY <1>1, AnswerJoins, FailureAddsNothing

LEMMA NextModel ==
    ASSUME ModelInv, [Next]_vars
    PROVE  ModelInv'
<1> USE AfterReader
<1>1. CASE ReadClaude
  <2>1. PICK a \in ClaudeAnswers : Answer("claude", a)
    BY <1>1 DEF ReadClaude
  <2>2. at = "claude" /\ at' = "codex" /\ snap' = snap /\ cards' = cards
    BY <1>1 DEF ReadClaude, Answer, Fails, Returns, gemini, result
  <2>3. PlanTold(a)
    <3>1. Legible(a.metrics)
      BY AnswersAssumption DEF Legible
    <3> QED
      BY <3>1, LegibleTold
  <2>4. DOMAIN out = {}
    BY <2>2 DEF ModelInv, AskedBefore
  <2>5. ModelTold' /\ DOMAIN out' \subseteq {"claude"}
    <3>1. ModelTold /\ "claude" \notin DOMAIN out
      BY <2>4 DEF ModelInv
    <3>2. ModelTold' /\ DOMAIN out' \subseteq DOMAIN out \cup {"claude"}
      BY <2>1, <2>3, <3>1, EitherAnswer
    <3> QED
      BY <2>4, <3>2
  <2> QED
    BY <2>2, <2>5 DEF ModelInv, AskedBefore, GeminiTold, CardsMade
<1>2. CASE ReadCodex
  <2>1. PICK live \in CodexLive, disk \in CodexDisks :
           IF live = Failed
           THEN Answer("codex", IF LocalSnapshot(disk) = NoSnapshot THEN Failed
                                ELSE LocalSnapshot(disk))
           ELSE Returns("codex", MergeCodexSnaps(live, LocalSnapshot(disk)))
    BY <1>2 DEF ReadCodex
  <2>2. at = "codex" /\ at' = "gemini" /\ snap' = snap /\ cards' = cards
    BY <1>2 DEF ReadCodex, Answer, Fails, Returns, result
  <2>3. DOMAIN out \subseteq {"claude"} /\ "codex" \notin DOMAIN out /\ ModelTold
    BY <2>2 DEF ModelInv, AskedBefore
  <2>4. PlanTold(LocalSnapshot(disk)) /\ PlanTold(MergeCodexSnaps(live, LocalSnapshot(disk)))
    BY LocalLegible, LiveLegible, LegibleTold
  <2>5. PlanTold(Failed)
    BY DEF Failed, StatusOnly, Snapshot, Empty, PlanTold
  <2>6. ModelTold' /\ DOMAIN out' \subseteq DOMAIN out \cup {"codex"}
    <3> DEFINE local == LocalSnapshot(disk)
               merged == MergeCodexSnaps(live, local)
    <3>1. CASE live # Failed
      <4>1. Returns("codex", merged)
        BY <2>1, <3>1
      <4> HIDE DEF merged
      <4> QED
        BY <2>3, <2>4, <4>1, AnswerJoins DEF merged
    <3>2. CASE live = Failed /\ local = NoSnapshot
      <4>1. Answer("codex", Failed)
        BY <2>1, <3>2
      <4> QED
        BY <2>3, <2>5, <4>1, EitherAnswer
    <3>3. CASE live = Failed /\ local # NoSnapshot
      <4>1. Answer("codex", local)
        BY <2>1, <3>3
      <4> QED
        BY <2>3, <2>4, <4>1, EitherAnswer
    <3> QED
      BY <3>1, <3>2, <3>3
  <2> QED
    BY <2>2, <2>3, <2>6 DEF ModelInv, AskedBefore, GeminiTold, CardsMade
<1>3. CASE ReadGemini
  <2>1. at = "gemini" /\ snap' = snap /\ cards' = cards /\ at' \in {"cursor", "buckets"}
    BY <1>3 DEF ReadGemini, Fails, result
  <2>2. out' = out /\ heard' = heard
    BY <1>3 DEF ReadGemini, Fails
  <2>3. /\ at' = "buckets" => response' \in GeminiResponses
                              /\ unread' = response'.buckets \cup ToSet(response'.quotas)
                              /\ swept' = DOMAIN response'.fields
    BY <1>3 DEF ReadGemini, Fails
  <2>4. ModelTold'
    BY <2>2 DEF ModelInv, ModelTold
  <2> QED
    BY <2>1, <2>2, <2>3, <2>4 DEF ModelInv, AskedBefore, GeminiTold, CardsMade
<1>4. CASE VisitBucket
  <2>1. PICK b \in unread : unread' = unread \ {b} /\ snap' = Emit(snap, b)
    BY <1>4 DEF VisitBucket
  <2>2. /\ at = "buckets" /\ at' = at /\ response' = response /\ out' = out /\ swept' = swept
        /\ heard' = heard /\ cards' = cards
    BY <1>4 DEF VisitBucket, result
  <2>3. b.remaining \in Int
    <3>1. response \in GeminiResponses /\ b \in response.buckets \cup ToSet(response.quotas)
      BY <2>1, <2>2 DEF ModelInv, GeminiTold
    <3> QED
      BY <3>1, AnswersAssumption
  <2>4. Legible(snap'.metrics)
    <3>1. Legible(snap.metrics)
      BY DEF ModelInv, GeminiTold
    <3> QED
      BY <2>1, <2>3, <3>1, EmitLegible
  <2>5. ModelTold'
    BY <2>2 DEF ModelInv, ModelTold
  <2> QED
    BY <2>1, <2>2, <2>4, <2>5 DEF ModelInv, AskedBefore, GeminiTold, CardsMade
<1>5. CASE VisitArray
  <2>1. /\ at = "buckets" /\ at' = "fields" /\ response' = response /\ out' = out
        /\ heard' = heard /\ cards' = cards /\ swept' = swept
        /\ snap' = ArrayAndNamed(snap, response)
    BY <1>5 DEF VisitArray, result
  <2>2. Legible(snap'.metrics)
    BY <2>1, ArrayAndNamedLegible DEF ModelInv, GeminiTold
  <2>3. ModelTold'
    BY <2>1 DEF ModelInv, ModelTold
  <2> QED
    BY <2>1, <2>2, <2>3 DEF ModelInv, AskedBefore, GeminiTold, CardsMade
<1>6. CASE VisitField
  <2>1. PICK f \in swept :
           swept' = swept \ {f} /\ snap' = FieldRow(snap, SweptKey(f), response.fields[f])
    BY <1>6 DEF VisitField
  <2>2. /\ at = "fields" /\ at' = at /\ response' = response /\ out' = out
        /\ heard' = heard /\ cards' = cards
    BY <1>6 DEF VisitField, result
  <2>3. SweptKey(f) \in Keys /\ response.fields[f] \in Int
    <3>1. response \in GeminiResponses /\ f \in DOMAIN response.fields
      BY <2>1, <2>2 DEF ModelInv, GeminiTold
    <3> QED
      BY <3>1, AnswersAssumption, Letters DEF SweptKey
  <2>4. Legible(snap'.metrics)
    <3>1. Legible(snap.metrics)
      BY DEF ModelInv, GeminiTold
    <3> QED
      BY <2>1, <2>3, <3>1, FieldLegible
  <2>5. ModelTold'
    BY <2>2 DEF ModelInv, ModelTold
  <2> QED
    BY <2>1, <2>2, <2>4, <2>5 DEF ModelInv, AskedBefore, GeminiTold, CardsMade
<1>7. CASE GeminiDone
  <2>1. /\ at = "fields" /\ at' = "cursor" /\ snap' = NoRows /\ cards' = cards
        /\ Returns("gemini", Rows("gemini_cli", snap.metrics, snap.resets))
    BY <1>7 DEF GeminiDone, Returns, result
  <2> DEFINE s == Rows("gemini_cli", snap.metrics, snap.resets)
  <2>2. PlanTold(s)
    <3>1. Legible(s.metrics)
      BY SnapshotOfRows DEF ModelInv, GeminiTold
    <3> QED
      BY <3>1, LegibleTold
  <2>3. DOMAIN out \subseteq {"claude", "codex"} /\ "gemini" \notin DOMAIN out /\ ModelTold
    BY <2>1 DEF ModelInv, AskedBefore
  <2>4. Returns("gemini", s)
    BY <2>1
  <2> HIDE DEF s
  <2>5. ModelTold' /\ DOMAIN out' \subseteq DOMAIN out \cup {"gemini"}
    BY <2>2, <2>3, <2>4, AnswerJoins
  <2>6. Legible(snap'.metrics)
    BY <2>1, NothingLegible DEF NoRows
  <2> QED
    BY <2>1, <2>3, <2>5, <2>6 DEF ModelInv, AskedBefore, GeminiTold, CardsMade
<1>8. CASE ReadCursor
  <2>1. at = "cursor" /\ at' = "antigravity" /\ snap' = snap /\ cards' = cards
    BY <1>8 DEF ReadCursor, Fails, Returns, gemini, result
  <2>2. /\ DOMAIN out \subseteq {"claude", "codex", "gemini"}
        /\ "cursor" \notin DOMAIN out /\ ModelTold
    BY <2>1 DEF ModelInv, AskedBefore
  <2>3. ModelTold' /\ DOMAIN out' \subseteq DOMAIN out \cup {"cursor"}
    <3>1. CASE Fails("cursor")
      BY <2>2, <3>1, FailureAddsNothing
    <3>2. CASE \E usage \in CursorUsages : Returns("cursor", CursorSnapshot(usage))
      <4>1. PICK usage \in CursorUsages : Returns("cursor", CursorSnapshot(usage))
        BY <3>2
      <4>2. PlanTold(CursorSnapshot(usage))
        BY CursorTold
      <4> QED
        BY <2>2, <4>1, <4>2, AnswerJoins
    <3> QED
      BY <1>8, <3>1, <3>2 DEF ReadCursor
  <2> QED
    BY <2>1, <2>2, <2>3 DEF ModelInv, AskedBefore, GeminiTold, CardsMade
<1>9. CASE ReadAntigravity
  <2>1. /\ at = "antigravity" /\ at' = "cards" /\ snap' = snap /\ cards' = cards
    BY <1>9 DEF ReadAntigravity, Returns, result
  <2>2. PICK st \in AntigravityStatuses \cup {NoStatus} :
           Returns("antigravity", AntigravitySnapshot(st))
    BY <1>9 DEF ReadAntigravity
  <2>3. /\ DOMAIN out \subseteq {"claude", "codex", "gemini", "cursor"}
        /\ "antigravity" \notin DOMAIN out /\ ModelTold
    BY <2>1 DEF ModelInv, AskedBefore
  <2>4. PlanTold(AntigravitySnapshot(st))
    BY AntigravityLegible, LegibleTold
  <2>5. ModelTold' /\ DOMAIN out' \subseteq DOMAIN out \cup {"antigravity"}
    BY <2>2, <2>3, <2>4, AnswerJoins
  <2> QED
    BY <2>1, <2>3, <2>5 DEF ModelInv, AskedBefore, GeminiTold, CardsMade
<1>10. CASE Refreshed
  <2>1. /\ at = "cards" /\ at' = "done" /\ snap' = snap /\ out' = out /\ heard' = heard
    BY <1>10 DEF Refreshed
  <2>2. cards = Empty
    BY <2>1 DEF ModelInv, CardsMade
  <2>3. CardsMade'
    <3>1. CASE out = Empty /\ failed
      BY <1>10, <2>1, <2>2, <3>1 DEF Refreshed, CardsMade
    <3>2. CASE ~(out = Empty /\ failed)
      BY <1>10, <2>1, <3>2 DEF Refreshed, CardsMade
    <3> QED
      BY <3>1, <3>2
  <2>4. ModelTold'
    BY <2>1 DEF ModelInv, ModelTold
  <2> QED
    BY <2>1, <2>3, <2>4 DEF ModelInv, AskedBefore, GeminiTold
<1>11. CASE Again
  <2>1. at' = "claude" /\ out' = Empty /\ heard' = {} /\ cards' = Empty /\ snap' = snap
    BY <1>11 DEF Again
  <2>2. DOMAIN out' = {}
    BY <2>1 DEF Empty
  <2> QED
    BY <2>1, <2>2 DEF ModelInv, ModelTold, AskedBefore, GeminiTold, CardsMade
<1>12. CASE UNCHANGED vars
  <2>1. ModelTold'
    BY <1>12 DEF vars, ModelInv, ModelTold
  <2>2. CardsMade'
    BY <1>12 DEF vars, ModelInv, CardsMade
  <2>3. GeminiTold'
    BY <1>12 DEF vars, ModelInv, GeminiTold
  <2> QED
    BY <1>12, <2>1, <2>2, <2>3 DEF vars, ModelInv, AskedBefore
<1> QED
  BY <1>1, <1>2, <1>3, <1>4, <1>5, <1>6, <1>7, <1>8, <1>9, <1>10, <1>11, <1>12 DEF Next

-----------------------------------------------------------------------------
(* The rows of a card *)

LEMMA PercentTold ==
    ASSUME NEW m \in MetricType, RemainingPercent(m) # None
    PROVE  RemainingPercent(m) \in 0..100
<1>1. \A v \in Int : Clamped(v) \in 0..100
  BY DEF Clamped
<1>2. /\ m.used \in Int /\ m.remaining \in Int /\ m.limit \in Int
  BY DEF MetricType
<1>3. m.limit > 0 => /\ (100 * m.remaining) \div m.limit \in Int
                     /\ (100 * m.used) \div m.limit \in Int
  BY <1>2
<1>4. /\ 100 - m.used \in Int
      /\ m.limit > 0 => 100 - (100 * m.used) \div m.limit \in Int
  BY <1>2, <1>3
<1> QED
  BY <1>1, <1>2, <1>3, <1>4 DEF RemainingPercent

LEMMA RankType ==
    ASSUME NEW key \in ToSet(Alphabet)
    PROVE  Rank(key) \in 1..13 /\ Alphabet[Rank(key)] = key
<1>1. \E i \in DOMAIN Alphabet : Alphabet[i] = key
  BY Letters
<1>2. Rank(key) \in DOMAIN Alphabet /\ Alphabet[Rank(key)] = key
  BY <1>1 DEF Rank
<1> QED
  BY <1>2, Letters

LEMMA BandTypes ==
    ASSUME NEW s, PlanTold(s), NEW b \in Bands(s)
    PROVE  /\ b.key \in DOMAIN s.metrics /\ b.key \in ToSet(Alphabet)
           /\ b = Band(s, b.key)
           /\ b.percent \in 0..100 /\ b.tier \in Int /\ b.hours \in Int
           /\ Rank(b.key) \in 1..13 /\ Alphabet[Rank(b.key)] = b.key
<1>1. PICK key \in DOMAIN s.metrics : b = Band(s, key) /\ RemainingPercent(s.metrics[key]) # None
  BY DEF Bands
<1>2. /\ b.key = key /\ b.percent = RemainingPercent(s.metrics[key])
      /\ b.tier = IF s.provider = "codex" THEN Tier(key) ELSE 0
      /\ b.hours = IF s.metrics[key].window # None THEN s.metrics[key].window
                   ELSE IF s.provider = "codex" THEN Guess(key) ELSE 999999
  BY <1>1 DEF Band
<1>3. key \in ToSet(Alphabet) /\ s.metrics[key] \in MetricType
  BY DEF PlanTold
<1>4. b.percent \in 0..100
  BY <1>1, <1>2, <1>3, PercentTold
<1>5. b.tier \in Int
  BY <1>2 DEF Tier
<1>6. s.metrics[key].window \in Int
  BY <1>3 DEF MetricType
<1>7. b.hours \in Int
  BY <1>2, <1>6 DEF Guess
<1> QED
  BY <1>1, <1>2, <1>3, <1>4, <1>5, <1>7, RankType

\* There are no more rows than keys.
LEMMA BandsFew ==
    ASSUME NEW s, PlanTold(s)
    PROVE  IsFiniteSet(Bands(s)) /\ Cardinality(Bands(s)) <= 13
<1> DEFINE place == [b \in Bands(s) |-> Rank(b.key)]
<1>1. place \in [Bands(s) -> 1..13]
  BY BandTypes
<1>2. \A a, b \in Bands(s) : place[a] = place[b] => a = b
  <2>1. \A b \in Bands(s) : b = Band(s, Alphabet[place[b]])
    BY BandTypes
  <2> QED
    BY <2>1
<1> HIDE DEF place
<1>3. place \in Injection(Bands(s), 1..13)
  BY <1>1, <1>2 DEF Injection, IsInjective
<1>4. IsFiniteSet(1..13) /\ Cardinality(1..13) = 13
  <2>1. /\ IsFiniteSet(1..13)
        /\ Cardinality(1..13) = IF 1 > 13 THEN 0 ELSE 13 - 1 + 1
    BY FS_Interval, 1 \in Int, 13 \in Int, Zenon
  <2> QED
    BY <2>1
<1> QED
  BY <1>3, <1>4, FS_Injection

BandsInOrder(bands) == Ordered(bands, Before)

\* Every row has a place of its own.
LEMMA BandPlaces ==
    ASSUME NEW s, PlanTold(s), NEW bands \in SUBSET Bands(s)
    PROVE  LET order == BandsInOrder(bands)
               n == Cardinality(bands)
           IN /\ n \in Nat /\ IsFiniteSet(bands)
              /\ Len(order) = n /\ order \in Seq(bands) /\ DOMAIN order = 1..n
              /\ \A i \in 1..n : order[i] \in bands
              /\ \A i, j \in 1..n : order[i] = order[j] => i = j
              /\ \A b \in bands : \E i \in 1..n : order[i] = b
<1> DEFINE R == {p \in bands \X bands : Before(p[1], p[2])}
           Place(b) == Cardinality({a \in bands : Before(a, b)})
           n == Cardinality(bands)
           order == BandsInOrder(bands)
<1>1. IsFiniteSet(bands) /\ n \in Nat
  BY BandsFew, FS_Subset, FS_CardinalityType
<1>2. \A a, b \in bands : <<a, b>> \in R <=> Before(a, b)
  OBVIOUS
<1> HIDE DEF R
<1>3. StrictOrder(bands, R)
  <2>1. \A b \in bands : b.percent \in Int /\ b.tier \in Int /\ b.hours \in Int /\ Rank(b.key) \in Int
    BY BandTypes
  <2>2. \A a, b \in bands : Rank(a.key) = Rank(b.key) => a = b
    <3>1. \A b \in bands : b = Band(s, Alphabet[Rank(b.key)])
      BY BandTypes
    <3> QED
      BY <3>1
  <2>3. \A b \in bands : ~Before(b, b)
    BY <2>1 DEF Before
  <2>4. ASSUME NEW a \in bands, NEW b \in bands, NEW c \in bands, Before(a, b), Before(b, c)
        PROVE  Before(a, c)
    BY <2>1, <2>4 DEF Before
  <2>5. ASSUME NEW a \in bands, NEW b \in bands, a # b
        PROVE  Before(a, b) \/ Before(b, a)
    <3>1. Rank(a.key) # Rank(b.key)
      BY <2>2, <2>5
    <3> QED
      BY <2>1, <3>1 DEF Before
  <2> QED
    BY <1>2, <2>3, <2>4, <2>5 DEF StrictOrder
<1>4. \A b \in bands : Place(b) = PlaceIn(bands, R, b)
  <2> SUFFICES ASSUME NEW b \in bands PROVE Place(b) = PlaceIn(bands, R, b)
    OBVIOUS
  <2>1. {a \in bands : Before(a, b)} = {a \in bands : <<a, b>> \in R}
    BY <1>2
  <2> QED
    BY <2>1 DEF PlaceIn
<1>5. order = [i \in 1..n |-> CHOOSE b \in bands : Place(b) = i - 1]
  BY DEF BandsInOrder, Ordered
<1> HIDE DEF order, Place
<1>6. /\ \A b \in bands : Place(b) \in 0..n - 1
      /\ \A a, b \in bands : Place(a) = Place(b) => a = b
      /\ \A i \in 1..n : \E b \in bands : Place(b) = i - 1
  <2>1. /\ \A b \in bands : PlaceIn(bands, R, b) \in 0..n - 1
        /\ \A a, b \in bands : PlaceIn(bands, R, a) = PlaceIn(bands, R, b) => a = b
        /\ \A i \in 1..n : \E b \in bands : PlaceIn(bands, R, b) = i - 1
    BY <1>1, <1>3, Places
  <2> QED
    BY <1>4, <2>1
<1> HIDE DEF n
<1>7. \A i \in 1..n : order[i] \in bands /\ Place(order[i]) = i - 1
  BY <1>5, <1>6
<1>8. order \in Seq(bands) /\ Len(order) = n /\ DOMAIN order = 1..n
  BY <1>1, <1>5, <1>7
<1>9. ASSUME NEW i \in 1..n, NEW j \in 1..n, order[i] = order[j] PROVE i = j
  <2>1. i - 1 = j - 1
    BY <1>7, <1>9
  <2> QED
    BY <1>1, <2>1
<1>10. ASSUME NEW b \in bands PROVE \E i \in 1..n : order[i] = b
  <2>1. Place(b) + 1 \in 1..n /\ (Place(b) + 1) - 1 = Place(b)
    BY <1>1, <1>6
  <2>2. order[Place(b) + 1] \in bands /\ Place(order[Place(b) + 1]) = Place(b)
    BY <1>7, <2>1
  <2> QED
    BY <1>6, <2>1, <2>2
<1> QED
  BY <1>1, <1>7, <1>8, <1>9, <1>10 DEF order, n

Gone(s, gone) == {b \in Bands(s) : b.key \notin gone}
Spent(s, gone) == {b \in Gone(s, gone) : Exhausted(b)}
Unspent(s, gone) == {b \in Gone(s, gone) : ~Exhausted(b)}

\* A card's rows: the exhausted ones, then the others, up to the cap.
LEMMA CardRows ==
    ASSUME NEW s, PlanTold(s), NEW cap \in Nat, NEW gone
    PROVE  LET rows == CollectBands(s, cap, gone)
               first == BandsInOrder(Spent(s, gone))
               rest == BandsInOrder(Unspent(s, gone))
               n == Cardinality(Spent(s, gone))
               m == Cardinality(Unspent(s, gone))
               len == IF cap < n + m THEN cap ELSE n + m
           IN /\ rows \in Seq(Bands(s)) /\ Len(rows) = len /\ DOMAIN rows = 1..len
              /\ \A i \in 1..len : rows[i] = IF i <= n THEN first[i] ELSE rest[i - n]
<1> DEFINE first == BandsInOrder(Spent(s, gone))
           rest == BandsInOrder(Unspent(s, gone))
           n == Cardinality(Spent(s, gone))
           m == Cardinality(Unspent(s, gone))
           len == IF cap < n + m THEN cap ELSE n + m
           seq == first \o rest
           rows == SubSeq(seq, 1, len)
<1>1. /\ n \in Nat /\ first \in Seq(Spent(s, gone)) /\ Len(first) = n
      /\ Spent(s, gone) \subseteq Bands(s)
  <2>1. Spent(s, gone) \in SUBSET Bands(s)
    BY DEF Spent, Gone
  <2> QED
    BY <2>1, BandPlaces
<1>2. /\ m \in Nat /\ rest \in Seq(Unspent(s, gone)) /\ Len(rest) = m
      /\ Unspent(s, gone) \subseteq Bands(s)
  <2>1. Unspent(s, gone) \in SUBSET Bands(s)
    BY DEF Unspent, Gone
  <2> QED
    BY <2>1, BandPlaces
<1>3. CollectBands(s, cap, gone) = Capped(seq, cap)
  BY DEF CollectBands, BandsInOrder, Spent, Unspent, Gone
<1> HIDE DEF first, rest, n, m
<1>4. first \in Seq(Bands(s)) /\ rest \in Seq(Bands(s))
  BY <1>1, <1>2
<1>5. /\ seq \in Seq(Bands(s)) /\ Len(seq) = n + m
      /\ \A i \in 1..n + m : seq[i] = IF i <= n THEN first[i] ELSE rest[i - n]
  BY <1>1, <1>2, <1>4
<1> HIDE DEF seq
<1>6. Capped(seq, cap) = rows
  BY <1>5 DEF Capped
<1>7. len \in Nat /\ len <= n + m
  BY <1>1, <1>2
<1> HIDE DEF len
<1>8. /\ rows \in Seq(Bands(s)) /\ Len(rows) = len /\ DOMAIN rows = 1..len
      /\ \A i \in 1..len : rows[i] = seq[i]
  BY <1>5, <1>7
<1>9. \A i \in 1..len : i \in 1..n + m
  BY <1>1, <1>2, <1>7
<1> HIDE DEF rows
<1> QED
  BY <1>3, <1>5, <1>6, <1>8, <1>9 DEF first, rest, n, m, len

\* The cards show exhausted rows first, all of them as far as there is room.
LEMMA ExhaustedFirst ==
    ASSUME NEW s, PlanTold(s), NEW gone
    PROVE  LET card == SnapshotToCard(s, gone)
               empty == {b \in Bands(s) : b.percent = 0 /\ b.key \notin gone}
               front == ToSet(Capped(card.bands, Cardinality(empty)))
           IN /\ front \subseteq empty
              /\ Cardinality(front) = Min({Cardinality(empty), MaxBands})
              /\ empty # {} /\ Crit <= 100 => card.level = "critical"
<1> DEFINE card == SnapshotToCard(s, gone)
           empty == {b \in Bands(s) : b.percent = 0 /\ b.key \notin gone}
           first == BandsInOrder(Spent(s, gone))
           rest == BandsInOrder(Unspent(s, gone))
           n == Cardinality(Spent(s, gone))
           m == Cardinality(Unspent(s, gone))
           bands == CollectBands(s, MaxBands, gone)
           len == IF MaxBands < n + m THEN MaxBands ELSE n + m
           p == IF n < MaxBands THEN n ELSE MaxBands
           capped == Capped(bands, n)
           front == ToSet(capped)
<1>1. empty = Spent(s, gone)
  BY DEF Spent, Gone, Exhausted
<1>2. card.bands = bands /\ card.level = Level(s.status, bands)
  BY DEF SnapshotToCard
<1>3. MaxBands \in Nat /\ MaxBands >= 1
  BY QuotaAssumption
<1>4. /\ bands \in Seq(Bands(s)) /\ Len(bands) = len /\ DOMAIN bands = 1..len
      /\ \A i \in 1..len : bands[i] = IF i <= n THEN first[i] ELSE rest[i - n]
  BY <1>3, CardRows
<1>5. /\ n \in Nat /\ IsFiniteSet(Spent(s, gone))
      /\ \A i \in 1..n : first[i] \in Spent(s, gone)
      /\ \A i, j \in 1..n : first[i] = first[j] => i = j
  <2>1. Spent(s, gone) \in SUBSET Bands(s)
    BY DEF Spent, Gone
  <2> QED
    BY <2>1, BandPlaces
<1>6. m \in Nat
  <2>1. Unspent(s, gone) \in SUBSET Bands(s)
    BY DEF Unspent, Gone
  <2> QED
    BY <2>1, BandPlaces
<1> HIDE DEF card, empty, first, rest, bands, m
<1>7. n = Cardinality(empty)
  BY <1>1
<1> HIDE DEF n
<1>8. p \in Nat /\ len \in Nat /\ p <= n /\ p <= len /\ (IF n < len THEN n ELSE len) = p
  BY <1>3, <1>5, <1>6
<1>9. /\ DOMAIN capped = 1..p /\ \A i \in 1..p : capped[i] = first[i] /\ i \in 1..n
  <2>1. capped = SubSeq(bands, 1, p)
    BY <1>4, <1>8 DEF Capped
  <2> HIDE DEF capped, len, p
  <2>2. \A i \in 1..p : i \in 1..n /\ i \in 1..len
    BY <1>5, <1>8
  <2>3. DOMAIN capped = 1..p /\ \A i \in 1..p : capped[i] = bands[i]
    BY <1>4, <1>8, <2>1, <2>2
  <2>4. \A i \in 1..n : i <= n
    BY <1>5
  <2> QED
    BY <1>4, <2>2, <2>3, <2>4
<1> HIDE DEF capped, p, len
<1>10. front = {capped[i] : i \in 1..p}
  BY <1>9 DEF ToSet
<1>11. front \subseteq empty
  BY <1>1, <1>5, <1>9, <1>10
<1>12. Cardinality(front) = p
  <2> DEFINE f == [i \in 1..p |-> capped[i]]
  <2>1. /\ f \in [1..p -> front] /\ \A b \in front : \E i \in 1..p : f[i] = b
        /\ \A i, j \in 1..p : f[i] = f[j] => i = j
    BY <1>5, <1>9, <1>10
  <2> HIDE DEF f, front
  <2>2. f \in Surjection(1..p, front) /\ f \in Injection(1..p, front)
    BY <2>1 DEF Surjection, Injection, IsInjective
  <2>3. IsFiniteSet(1..p) /\ Cardinality(1..p) = p
    <3>1. Cardinality(1..p) = IF 1 > p THEN 0 ELSE p - 1 + 1
      BY <1>8, FS_Interval
    <3>2. IsFiniteSet(1..p)
      BY <1>8, FS_Interval
    <3> QED
      BY <1>8, <3>1, <3>2
  <2>4. Cardinality(front) = Cardinality(1..p)
    BY <2>2, <2>3, FS_Surjection
  <2> QED
    BY <2>3, <2>4
<1>13. Min({n, MaxBands}) = p
  <2>1. {n, MaxBands} \subseteq Int
    BY <1>3, <1>5
  <2>2. p \in {n, MaxBands} /\ \A x \in {n, MaxBands} : p <= x
    BY <1>3, <1>5 DEF p
  <2> QED
    BY <2>1, <2>2, LeastOf
<1>14. ASSUME empty # {}, Crit <= 100 PROVE card.level = "critical"
  <2>1. n # 0
    BY <1>1, <1>5, <1>7, <1>14, FS_EmptySet
  <2>2. 1 \in 1..n /\ 1 \in 1..len /\ len # 0
    BY <1>3, <1>5, <1>6, <2>1 DEF len
  <2>3. bands[1] \in empty /\ bands[1] \in ToSet(bands)
    <3>1. bands[1] = first[1]
      BY <1>4, <1>5, <2>2
    <3>2. bands[1] \in ToSet(bands)
      BY <1>4, <2>2 DEF ToSet
    <3> QED
      BY <1>1, <1>5, <2>2, <3>1, <3>2
  <2> DEFINE percents == {b.percent : b \in ToSet(bands)} \cup {100}
  <2>4. percents \subseteq Int /\ 0 \in percents /\ \A x \in percents : 0 <= x
    <3>1. \A b \in ToSet(bands) : b \in Bands(s)
      BY <1>4 DEF ToSet
    <3>2. \A b \in ToSet(bands) : b.percent \in 0..100
      BY <3>1, BandTypes
    <3>3. bands[1].percent = 0
      BY <2>3 DEF empty
    <3> QED
      BY <2>3, <3>2, <3>3
  <2> HIDE DEF percents
  <2>5. Min(percents) = 0
    BY <2>4, LeastOf
  <2>6. bands # <<>>
    <3>1. DOMAIN <<>> = {}
      OBVIOUS
    <3> QED
      BY <1>4, <2>2, <3>1
  <2>7. 100 - Min(percents) >= Crit
    BY <1>14, <2>5, QuotaAssumption
  <2>8. Level(s.status, bands) = "critical"
    BY <2>6, <2>7 DEF Level, percents
  <2> QED
    BY <1>2, <2>8
<1>15. /\ front \subseteq empty
       /\ Cardinality(front) = Min({Cardinality(empty), MaxBands})
       /\ empty # {} /\ Crit <= 100 => card.level = "critical"
  BY <1>7, <1>11, <1>12, <1>13, <1>14
<1>16. front = ToSet(Capped(card.bands, Cardinality(empty)))
  BY <1>2, <1>7 DEF capped
<1> HIDE DEF front
<1> QED
  BY <1>15, <1>16 DEF card, empty

\* A row that may be shown is among all the rows of its card.
LEMMA RowAmongAll ==
    ASSUME NEW s, PlanTold(s), NEW key \in DOMAIN s.metrics, Shown(s, key)
    PROVE  key \in {b.key : b \in ToSet(CollectBands(s, 128, {}))}
<1> DEFINE gone == {}
           first == BandsInOrder(Spent(s, gone))
           rest == BandsInOrder(Unspent(s, gone))
           n == Cardinality(Spent(s, gone))
           m == Cardinality(Unspent(s, gone))
           rows == CollectBands(s, 128, gone)
           len == IF 128 < n + m THEN 128 ELSE n + m
           b == Band(s, key)
<1>1. b \in Bands(s) /\ b.key = key
  BY DEF Bands, Band, PlanTold
<1>2. /\ rows \in Seq(Bands(s)) /\ Len(rows) = len /\ DOMAIN rows = 1..len
      /\ \A i \in 1..len : rows[i] = IF i <= n THEN first[i] ELSE rest[i - n]
  <2>1. 128 \in Nat
    OBVIOUS
  <2> QED
    BY <2>1, CardRows
<1>3. Spent(s, gone) \in SUBSET Bands(s) /\ Unspent(s, gone) \in SUBSET Bands(s)
  BY DEF Spent, Unspent, Gone
<1>4. n \in Nat /\ n <= 13 /\ \A x \in Spent(s, gone) : \E i \in 1..n : first[i] = x
  <2>1. n \in Nat /\ \A x \in Spent(s, gone) : \E i \in 1..n : first[i] = x
    BY <1>3, BandPlaces
  <2>2. n <= Cardinality(Bands(s)) /\ Cardinality(Bands(s)) <= 13 /\ Cardinality(Bands(s)) \in Nat
    BY <1>3, BandsFew, FS_Subset, FS_CardinalityType
  <2> QED
    BY <2>1, <2>2
<1>5. m \in Nat /\ m <= 13 /\ \A x \in Unspent(s, gone) : \E i \in 1..m : rest[i] = x
  <2>1. m \in Nat /\ \A x \in Unspent(s, gone) : \E i \in 1..m : rest[i] = x
    BY <1>3, BandPlaces
  <2>2. m <= Cardinality(Bands(s)) /\ Cardinality(Bands(s)) <= 13 /\ Cardinality(Bands(s)) \in Nat
    BY <1>3, BandsFew, FS_Subset, FS_CardinalityType
  <2> QED
    BY <2>1, <2>2
<1>6. b \in Spent(s, gone) \/ b \in Unspent(s, gone)
  BY <1>1 DEF Spent, Unspent, Gone
<1> HIDE DEF first, rest, n, m, rows, b
<1>7. len = n + m
  BY <1>4, <1>5
<1>8. \E i \in 1..len : rows[i] = b
  <2>1. CASE b \in Spent(s, gone)
    <3>1. PICK i \in 1..n : first[i] = b
      BY <1>4, <2>1
    <3>2. i \in 1..len /\ i <= n
      BY <1>4, <1>5, <1>7
    <3> QED
      BY <1>2, <3>1, <3>2
  <2>2. CASE b \in Unspent(s, gone)
    <3>1. PICK i \in 1..m : rest[i] = b
      BY <1>5, <2>2
    <3>2. n + i \in 1..len /\ ~(n + i <= n) /\ (n + i) - n = i
      BY <1>4, <1>5, <1>7
    <3>3. rows[n + i] = b
      BY <1>2, <3>1, <3>2
    <3> QED
      BY <3>2, <3>3
  <2> QED
    BY <1>6, <2>1, <2>2
<1>9. b \in ToSet(rows)
  BY <1>2, <1>8 DEF ToSet
<1> QED
  BY <1>1, <1>9 DEF rows

LEMMA CardsDomain ==
    ASSUME NEW model, NEW gone
    PROVE  /\ DOMAIN Cards(model, gone) \subseteq DOMAIN model
           /\ \A k \in DOMAIN Cards(model, gone) :
                 Cards(model, gone)[k] = SnapshotToCard(model[k], gone)
           /\ \A k \in DOMAIN model : SnapshotToCard(model[k], gone).allBands # <<>> =>
                 k \in DOMAIN Cards(model, gone)
BY DEF Cards, Restrict

LEMMA ExhaustedOnCards == ModelInv => ExhaustedShown
<1> SUFFICES ASSUME ModelInv, NEW k \in DOMAIN cards
             PROVE  LET empty == {b \in Bands(out[k]) : b.percent = 0 /\ b.key \notin hidden}
                        front == ToSet(Capped(cards[k].bands, Cardinality(empty)))
                    IN /\ front \subseteq empty
                       /\ Cardinality(front) = Min({Cardinality(empty), MaxBands})
                       /\ empty # {} /\ Crit <= 100 => cards[k].level = "critical"
  BY DEF ExhaustedShown
<1>1. DOMAIN Empty = {}
  BY DEF Empty
<1>2. cards = Cards(out, hidden)
  BY <1>1 DEF ModelInv, CardsMade
<1>3. k \in DOMAIN out /\ cards[k] = SnapshotToCard(out[k], hidden)
  BY <1>2, CardsDomain
<1>4. PlanTold(out[k])
  BY <1>3 DEF ModelInv, ModelTold
<1> DEFINE s == out[k]
<1> HIDE DEF s
<1>5. LET card == SnapshotToCard(s, hidden)
          empty == {b \in Bands(s) : b.percent = 0 /\ b.key \notin hidden}
          front == ToSet(Capped(card.bands, Cardinality(empty)))
      IN /\ front \subseteq empty
         /\ Cardinality(front) = Min({Cardinality(empty), MaxBands})
         /\ empty # {} /\ Crit <= 100 => card.level = "critical"
  BY <1>4, ExhaustedFirst DEF s
<1> QED
  BY <1>3, <1>5 DEF s

LEMMA RowsOffered == ModelInv => EveryRowOffered
<1> SUFFICES ASSUME ModelInv, at = "done", NEW h \in heard
             PROVE  /\ status = "updated"
                    /\ \/ h[1] \in DOMAIN cards
                          /\ h[2] \in {b.key : b \in ToSet(cards[h[1]].allBands)}
                       \/ h[2] \in PooledKeys
  BY DEF EveryRowOffered
<1> DEFINE s == out[h[1]]
           key == h[2]
<1>1. h[1] \in DOMAIN out /\ key \in DOMAIN s.metrics
  BY DEF ModelInv, ModelTold
<1>2. out # Empty
  BY <1>1 DEF Empty
<1>3. status = "updated" /\ cards = Cards(out, hidden)
  BY <1>2 DEF ModelInv, CardsMade
<1>4. PlanTold(s)
  BY <1>1 DEF ModelInv, ModelTold
<1>5. CASE key \notin PooledKeys
  <2>1. Shown(s, key)
    BY <1>1, <1>4, <1>5 DEF Shown, PlanTold
  <2>2. key \in {b.key : b \in ToSet(CollectBands(s, 128, {}))}
    <3> HIDE DEF s, key
    <3> QED
      BY <1>1, <1>4, <2>1, RowAmongAll
  <2>3. SnapshotToCard(s, hidden).allBands = CollectBands(s, 128, {})
    BY DEF SnapshotToCard
  <2>4. CollectBands(s, 128, {}) # <<>>
    <3>1. ToSet(<<>>) = {}
      BY DEF ToSet
    <3> QED
      BY <2>2, <3>1
  <2>5. h[1] \in DOMAIN cards /\ cards[h[1]] = SnapshotToCard(s, hidden)
    BY <1>1, <1>3, <2>3, <2>4, CardsDomain
  <2> QED
    BY <1>3, <2>2, <2>3, <2>5
<1> QED
  BY <1>3, <1>5

\* Exhausted rows come first on every card, as many as it has room for, and
\* turn it critical (quota.go, CollectBands).
THEOREM CardsShowExhausted == Spec => []ExhaustedShown
<1> QED
  BY InitModel, NextModel, ExhaustedOnCards, PTL DEF Spec

\* Every row a reader returned can be picked on a card, whatever fails and
\* whatever is hidden (provider.go, Read; quota.go, Cards).
THEOREM RowsStayInReach == Spec => []EveryRowOffered
<1> QED
  BY InitModel, NextModel, RowsOffered, PTL DEF Spec
=============================================================================
