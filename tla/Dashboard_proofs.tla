----------------------------- MODULE Dashboard_proofs -----------------------------
(***************************************************************************)
(* The answers of the read API and what the browser shows of them, for all *)
(* tables, bounds and clicks: what an answer leaves out is less worth      *)
(* showing than all it has, also while it waits in the browser, and a view *)
(* never goes back to an older answer.                                     *)
(***************************************************************************)
EXTENDS Dashboard, FiniteSetTheorems, WellFoundedInduction, TLAPS

-----------------------------------------------------------------------------
(* Rows in the order of their event times                                  *)

\* Some rows of a table of readings.
Rows(S) == rows \in Seq(Reading) /\ S \subseteq DOMAIN rows

Above(S, i) == {j \in S : Before(i, j)}
Below(S, i) == {j \in S : Before(j, i)}

\* A set of natural numbers has a least element.
LEMMA LeastExists ==
    ASSUME NEW T, T \subseteq Nat, T # {}
    PROVE  \E d \in T : \A e \in T : d <= e
<1> DEFINE R == OpToRel(<, Nat)
<1>1. \A x, y \in Nat : x < y => <<x, y>> \in R
  <2>1. \A p \in Nat \X Nat : p[1] < p[2] => p \in R
    BY DEF OpToRel
  <2> HIDE DEF R
  <2>2. QED
    BY <2>1
<1>2. IsWellFoundedOn(R, Nat)
  BY NatLessThanWellFounded
<1> HIDE DEF R
<1>3. PICK d \in T : \A e \in T : ~(<<e, d>> \in R)
  BY <1>2, WFMin
<1>4. ASSUME NEW e \in T PROVE d <= e
  <2>1. d \in Nat /\ e \in Nat
    OBVIOUS
  <2>2. ~(e < d)
    BY <1>1, <1>3, <2>1
  <2>3. QED
    BY <2>1, <2>2
<1>5. QED
  BY <1>4

LEMMA EventAtType == \A r \in Reading : EventAt(r) \in Nat
BY DEF Reading, EventAt, Source, NoTime

\* ORDER BY event time, ID is a strict total order.
LEMMA RowOrder ==
    ASSUME NEW S, Rows(S)
    PROVE  /\ \A i \in S : ~Before(i, i)
           /\ \A i, j \in S : i = j \/ Before(i, j) \/ Before(j, i)
           /\ \A i, j, k \in S : Before(i, j) /\ Before(j, k) => Before(i, k)
<1>1. \A i \in S : i \in Nat /\ EventAt(rows[i]) \in Nat
  BY EventAtType DEF Rows
<1>2. QED
  BY <1>1 DEF Before

LEMMA RowsAreFinite ==
    ASSUME NEW S, Rows(S)
    PROVE  /\ IsFiniteSet(S) /\ Cardinality(S) \in Nat
           /\ \A T \in SUBSET S : /\ IsFiniteSet(T) /\ Cardinality(T) \in Nat
                                  /\ Cardinality(T) <= Cardinality(S)
                                  /\ Cardinality(T) = Cardinality(S) => T = S
<1>1. DOMAIN rows = 1..Len(rows) /\ Len(rows) \in Nat
  BY DEF Rows
<1>2. IsFiniteSet(DOMAIN rows)
  BY <1>1, FS_Interval
<1>3. IsFiniteSet(S)
  BY <1>2, FS_Subset DEF Rows
<1>4. QED
  BY <1>3, FS_Subset, FS_CardinalityType

\* The later of two rows has fewer rows above it and more below it.
LEMMA RanksFollowOrder ==
    ASSUME NEW S, Rows(S), NEW i \in S, NEW j \in S, Before(i, j)
    PROVE  /\ Cardinality(Above(S, j)) < Cardinality(Above(S, i))
           /\ Cardinality(Below(S, i)) < Cardinality(Below(S, j))
<1>1. Above(S, j) \subseteq Above(S, i) /\ j \in Above(S, i) /\ j \notin Above(S, j)
  BY RowOrder DEF Above
<1>2. Below(S, i) \subseteq Below(S, j) /\ i \in Below(S, j) /\ i \notin Below(S, i)
  BY RowOrder DEF Below
<1>3. Above(S, i) \subseteq S /\ Below(S, j) \subseteq S
  BY DEF Above, Below
<1>4. /\ Rows(Above(S, i)) /\ Rows(Below(S, j))
  BY <1>3 DEF Rows
<1>5. /\ Cardinality(Above(S, j)) \in Nat /\ Cardinality(Above(S, i)) \in Nat
      /\ Cardinality(Above(S, j)) <= Cardinality(Above(S, i))
      /\ Cardinality(Above(S, j)) # Cardinality(Above(S, i))
  BY <1>1, <1>4, RowsAreFinite
<1>6. /\ Cardinality(Below(S, i)) \in Nat /\ Cardinality(Below(S, j)) \in Nat
      /\ Cardinality(Below(S, i)) <= Cardinality(Below(S, j))
      /\ Cardinality(Below(S, i)) # Cardinality(Below(S, j))
  BY <1>2, <1>4, RowsAreFinite
<1>7. QED
  BY <1>5, <1>6

\* ORDER BY ... DESC LIMIT n leaves out what is before everything it returns.
LEMMA NewestIsTop ==
    ASSUME NEW S, NEW n \in Nat, Rows(S),
           NEW i \in S \ Newest(S, n), NEW j \in Newest(S, n)
    PROVE  Before(i, j)
<1>1. /\ j \in S /\ Cardinality(Above(S, j)) < n /\ ~(Cardinality(Above(S, i)) < n)
  BY DEF Newest, Above
<1>2. Above(S, i) \subseteq S /\ Above(S, j) \subseteq S
  BY DEF Above
<1>3. Cardinality(Above(S, j)) \in Nat /\ Cardinality(Above(S, i)) \in Nat
  BY <1>2, RowsAreFinite
<1>4. ~Before(j, i)
  BY <1>1, <1>3, RanksFollowOrder
<1>5. i # j
  OBVIOUS
<1>6. QED
  BY <1>1, <1>4, <1>5, RowOrder

\* It leaves out nothing before it has n rows.
LEMMA NewestFills ==
    ASSUME NEW S, NEW n \in Nat, Rows(S), Newest(S, n) # S
    PROVE  n <= Cardinality(Newest(S, n))
<1> DEFINE N == Newest(S, n)
           out == S \ N
           ranks == {Cardinality(Above(S, i)) : i \in out}
<1>1. N \subseteq S /\ out # {} /\ out \subseteq S
  BY DEF Newest
<1>2. \A i \in S : Above(S, i) \subseteq S /\ Cardinality(Above(S, i)) \in Nat
  BY RowsAreFinite DEF Above
<1> HIDE DEF N
<1>3. ranks \subseteq Nat /\ ranks # {}
  BY <1>1, <1>2
<1>4. PICK c \in ranks : \A e \in ranks : c <= e
  BY <1>3, LeastExists
<1>5. PICK i \in out : c = Cardinality(Above(S, i))
  OBVIOUS
<1>6. Above(S, i) \subseteq N
  <2>1. SUFFICES ASSUME NEW j \in Above(S, i), j \notin N PROVE FALSE
    OBVIOUS
  <2>2. j \in out /\ Before(i, j)
    BY <1>2, <1>1, <2>1 DEF Above
  <2>3. Cardinality(Above(S, j)) < Cardinality(Above(S, i))
    BY <1>1, <2>2, RanksFollowOrder
  <2>4. Cardinality(Above(S, i)) <= Cardinality(Above(S, j))
    BY <1>4, <1>5, <2>2
  <2>5. QED
    BY <1>1, <1>2, <2>2, <2>3, <2>4
<1>7. n <= Cardinality(Above(S, i))
  BY <1>1, <1>2 DEF N, Newest, Above
<1>8. Cardinality(Above(S, i)) <= Cardinality(N) /\ Cardinality(N) \in Nat
  <2>1. Rows(N)
    BY <1>1 DEF Rows
  <2>2. QED
    BY <1>6, <2>1, RowsAreFinite
<1>9. QED
  BY <1>1, <1>2, <1>7, <1>8 DEF N

\* A numbering of the rows by what is below them misses no number and no row.
LEMMA OrderedIsComplete ==
    ASSUME NEW S, Rows(S)
    PROVE  /\ DOMAIN Ordered(S) = 1..Cardinality(S)
           /\ \A k \in DOMAIN Ordered(S) :
                Ordered(S)[k] \in S /\ Cardinality(Below(S, Ordered(S)[k])) = k - 1
           /\ \A i \in S : \E k \in DOMAIN Ordered(S) : Ordered(S)[k] = i
<1> DEFINE N == Cardinality(S)
           rank == [i \in S |-> Cardinality(Below(S, i))]
<1>1. \A i \in S : Below(S, i) \subseteq S /\ i \notin Below(S, i)
  BY RowOrder DEF Below
<1>2. N \in Nat /\ IsFiniteSet(S)
  BY RowsAreFinite
<1>3. \A i \in S : Cardinality(Below(S, i)) \in 0..N - 1
  <2>1. SUFFICES ASSUME NEW i \in S PROVE Cardinality(Below(S, i)) \in 0..N - 1
    OBVIOUS
  <2>2. Below(S, i) # S
    BY <1>1
  <2>3. /\ Cardinality(Below(S, i)) \in Nat /\ Cardinality(Below(S, i)) <= N
        /\ Cardinality(Below(S, i)) # N
    BY <1>1, <2>2, RowsAreFinite
  <2>4. QED
    BY <1>2, <2>3
<1>4. \A i, j \in S : i # j => Cardinality(Below(S, i)) # Cardinality(Below(S, j))
  <2>1. SUFFICES ASSUME NEW i \in S, NEW j \in S, i # j
                 PROVE  Cardinality(Below(S, i)) # Cardinality(Below(S, j))
    OBVIOUS
  <2>2. \/ Cardinality(Below(S, i)) < Cardinality(Below(S, j))
        \/ Cardinality(Below(S, j)) < Cardinality(Below(S, i))
    BY <2>1, RowOrder, RanksFollowOrder
  <2>3. QED
    BY <1>3, <2>2
<1>5. rank \in Injection(S, 0..N - 1)
  <2>1. \A i \in S : rank[i] = Cardinality(Below(S, i))
    OBVIOUS
  <2>2. rank \in [S -> 0..N - 1]
    BY <1>3
  <2> HIDE DEF rank
  <2>3. \A i, j \in S : rank[i] = rank[j] => i = j
    BY <1>4, <2>1
  <2>4. QED
    BY <2>2, <2>3 DEF Injection, IsInjective
<1>6. IsFiniteSet(0..N - 1) /\ Cardinality(0..N - 1) = N
  <2> HIDE DEF N
  <2>1. 0 \in Int /\ N - 1 \in Int
    BY <1>2
  <2>2. QED
    BY <1>2, <2>1, FS_Interval
<1>7. rank \in Surjection(S, 0..N - 1)
  BY <1>5, <1>6, FS_Injection
<1>8. \A m \in 0..N - 1 : \E i \in S : Cardinality(Below(S, i)) = m
  BY <1>7 DEF Surjection
<1>9. /\ DOMAIN Ordered(S) = 1..N
      /\ \A k \in 1..N : Ordered(S)[k] = CHOOSE i \in S : Cardinality(Below(S, i)) = k - 1
  BY DEF Ordered, Below
<1>10. \A k \in 1..N : Ordered(S)[k] \in S /\ Cardinality(Below(S, Ordered(S)[k])) = k - 1
  <2>1. SUFFICES ASSUME NEW k \in 1..N
                 PROVE  Ordered(S)[k] \in S /\ Cardinality(Below(S, Ordered(S)[k])) = k - 1
    OBVIOUS
  <2>2. \E i \in S : Cardinality(Below(S, i)) = k - 1
    BY <1>2, <1>8
  <2>3. QED
    BY <1>9, <2>2
<1>11. \A i \in S : \E k \in 1..N : Ordered(S)[k] = i
  <2>1. SUFFICES ASSUME NEW i \in S PROVE \E k \in 1..N : Ordered(S)[k] = i
    OBVIOUS
  <2>2. PICK k \in 1..N : Cardinality(Below(S, i)) = k - 1
    <3>1. Cardinality(Below(S, i)) + 1 \in 1..N
      BY <1>2, <1>3
    <3>2. Cardinality(Below(S, i)) = (Cardinality(Below(S, i)) + 1) - 1
      BY <1>3
    <3>3. QED
      BY <3>1, <3>2
  <2>3. Ordered(S)[k] = i
    BY <1>4, <1>10, <2>2
  <2>4. QED
    BY <2>3
<1>12. QED
  BY <1>9, <1>10, <1>11

\* Two neighbours of the list are neighbours in S.
LEMMA OrderedIsDense ==
    ASSUME NEW S, Rows(S), NEW k \in DOMAIN Ordered(S), k > 1, NEW i \in S
    PROVE  ~(Before(Ordered(S)[k - 1], i) /\ Before(i, Ordered(S)[k]))
<1> DEFINE a == Ordered(S)[k - 1]
           b == Ordered(S)[k]
<1>1. Cardinality(S) \in Nat /\ Cardinality(Below(S, i)) \in Nat
  BY RowsAreFinite DEF Below
<1>2. k \in 1..Cardinality(S) /\ k - 1 \in 1..Cardinality(S)
  BY <1>1, OrderedIsComplete
<1>3. /\ a \in S /\ Cardinality(Below(S, a)) = (k - 1) - 1
      /\ b \in S /\ Cardinality(Below(S, b)) = k - 1
  BY <1>2, OrderedIsComplete, Zenon
<1> HIDE DEF a, b
<1>4. SUFFICES ASSUME Before(a, i), Before(i, b) PROVE FALSE
  BY DEF a, b
<1>5. /\ Cardinality(Below(S, a)) < Cardinality(Below(S, i))
      /\ Cardinality(Below(S, i)) < Cardinality(Below(S, b))
  BY <1>3, <1>4, RanksFollowOrder
<1>6. QED
  BY <1>1, <1>2, <1>3, <1>5

-----------------------------------------------------------------------------
(* What a history promises                                                 *)

\* Where no gap is marked, the readings are neighbours also by number.
Drawn(a) ==
    \A k \in DOMAIN a.ids :
        /\ k \in Nat /\ a.ids[k] \in DOMAIN rows
        /\ k > 1 /\ ~a.gaps[k] => k - 1 \in DOMAIN a.ids /\ Connected(a.ids[k - 1], a.ids[k])

\* While the table stays as it was read.
NewestOf(d, window, a) ==
    LET listed  == {a.ids[k] : k \in DOMAIN a.ids}
        omitted == InWindow(d, window) \ listed
    IN  /\ omitted # {} => a.truncated
        /\ \A i \in omitted, j \in listed : Before(i, j)
        /\ \A k \in DOMAIN a.ids : k > 1 =>
             \A i \in InWindow(d, window) : ~(Before(a.ids[k - 1], i) /\ Before(i, a.ids[k]))

\* read_device_history returns the newest rows of the window in order.
LEMMA HistoryIsNewest ==
    ASSUME NEW d, NEW window, rows \in Seq(Reading)
    PROVE  Drawn(History(d, window)) /\ NewestOf(d, window, History(d, window))
<1> DEFINE W == InWindow(d, window)
           found == Newest(W, MaxPoints + 1)
           L == Newest(found, MaxPoints)
           h == History(d, window)
           listed == {h.ids[k] : k \in DOMAIN h.ids}
<1>1. MaxPoints \in Nat /\ MaxPoints + 1 \in Nat
  BY ReadAssumption
<1>2. W \subseteq DOMAIN rows /\ found \subseteq W /\ L \subseteq found
  BY DEF InWindow, RowsOf, Newest
<1>3. Rows(W) /\ Rows(found) /\ Rows(L)
  BY <1>2 DEF Rows
<1>4. /\ h.ids = Ordered(L)
      /\ h.gaps = [k \in DOMAIN Ordered(L) |->
                     k = 1 \/ ~Connected(Ordered(L)[k - 1], Ordered(L)[k])]
      /\ h.truncated = (Cardinality(found) > MaxPoints)
  BY DEF History
<1> HIDE DEF W, found, L, h
<1>5. /\ DOMAIN Ordered(L) = 1..Cardinality(L) /\ Cardinality(L) \in Nat
      /\ \A k \in DOMAIN Ordered(L) : Ordered(L)[k] \in L
      /\ \A i \in L : \E k \in DOMAIN Ordered(L) : Ordered(L)[k] = i
  BY <1>3, OrderedIsComplete, RowsAreFinite
<1>6. listed = L
  BY <1>4, <1>5
<1> HIDE DEF listed
<1>7. Drawn(h)
  <2>1. SUFFICES ASSUME NEW k \in DOMAIN Ordered(L)
                 PROVE  /\ k \in Nat /\ h.ids[k] \in DOMAIN rows
                        /\ k > 1 /\ ~h.gaps[k] =>
                             /\ k - 1 \in DOMAIN h.ids
                             /\ Connected(h.ids[k - 1], h.ids[k])
    BY <1>4 DEF Drawn
  <2>2. k \in Nat /\ h.ids[k] \in DOMAIN rows
    BY <1>2, <1>4, <1>5
  <2>3. ASSUME k > 1, ~h.gaps[k]
        PROVE  k - 1 \in DOMAIN h.ids /\ Connected(h.ids[k - 1], h.ids[k])
    <3>1. k - 1 \in DOMAIN h.ids
      BY <1>4, <1>5, <2>3
    <3>2. h.gaps[k] = (k = 1 \/ ~Connected(Ordered(L)[k - 1], Ordered(L)[k]))
      BY <1>4, Zenon
    <3>3. QED
      BY <1>4, <2>3, <3>1, <3>2
  <2>4. QED
    BY <2>2, <2>3
<1>8. ASSUME NEW i \in W \ L, NEW j \in L PROVE Before(i, j)
  <2>1. CASE i \in found
    BY <1>1, <1>3, <2>1, NewestIsTop DEF L
  <2>2. CASE i \notin found
    BY <1>1, <1>2, <1>3, <2>2, NewestIsTop DEF found
  <2>3. QED
    BY <2>1, <2>2
<1>9. W \ L # {} => h.truncated
  <2>1. SUFFICES ASSUME W \ L # {} PROVE Cardinality(found) > MaxPoints
    BY <1>4
  <2>2. Cardinality(found) \in Nat
    BY <1>3, RowsAreFinite
  <2>3. CASE found # W
    <3>1. MaxPoints + 1 <= Cardinality(found)
      BY <1>1, <1>3, <2>3, NewestFills DEF found
    <3>2. QED
      BY <1>1, <2>2, <3>1
  <2>4. CASE found = W
    <3>1. L # found
      BY <2>1, <2>4
    <3>2. MaxPoints <= Cardinality(L)
      BY <1>1, <1>3, <3>1, NewestFills DEF L
    <3>3. /\ Cardinality(L) \in Nat /\ Cardinality(L) <= Cardinality(found)
          /\ Cardinality(L) # Cardinality(found)
      BY <1>2, <1>3, <3>1, RowsAreFinite
    <3>4. QED
      BY <1>1, <2>2, <3>2, <3>3
  <2>5. QED
    BY <2>3, <2>4
<1>10. ASSUME NEW k \in DOMAIN Ordered(L), k > 1, NEW i \in W
       PROVE  ~(Before(Ordered(L)[k - 1], i) /\ Before(i, Ordered(L)[k]))
  <2>1. CASE i \in L
    BY <1>3, <1>10, <2>1, OrderedIsDense
  <2>2. CASE i \notin L
    <3>1. Ordered(L)[k - 1] \in L
      BY <1>5, <1>10
    <3>2. PICK a \in L : a = Ordered(L)[k - 1]
      BY <3>1
    <3>3. Before(i, a) /\ a \in W
      BY <1>2, <1>8, <2>2
    <3>4. ~Before(a, i)
      BY <1>3, <3>3, RowOrder
    <3>5. QED
      BY <3>2, <3>4
  <2>3. QED
    BY <2>1, <2>2
<1>11. NewestOf(d, window, h)
  <2>1. /\ W \ listed # {} => h.truncated
        /\ \A i \in W \ listed, j \in listed : Before(i, j)
    BY <1>6, <1>8, <1>9
  <2>2. \A k \in DOMAIN h.ids : k > 1 =>
          \A i \in W : ~(Before(h.ids[k - 1], i) /\ Before(i, h.ids[k]))
    BY <1>4, <1>10
  <2>3. QED
    BY <2>1, <2>2 DEF NewestOf, W, listed
<1>12. QED
  BY <1>7, <1>11 DEF h

\* A line without a gap jumps over no reading of the boot, now or later.
LEMMA DrawnSkipsNothing ==
    ASSUME NEW a, NEW d, rows \in Seq(Reading), Drawn(a), NEW k \in DOMAIN a.ids,
           k > 1, ~a.gaps[k]
    PROVE  /\ rows[a.ids[k - 1]].boot = rows[a.ids[k]].boot
           /\ \A i \in RowsOf(d) :
                rows[i].n <= rows[a.ids[k - 1]].n \/ rows[i].n >= rows[a.ids[k]].n
<1>1. /\ a.ids[k - 1] \in DOMAIN rows /\ a.ids[k] \in DOMAIN rows
      /\ Connected(a.ids[k - 1], a.ids[k])
  BY DEF Drawn
<1>2. PICK x \in DOMAIN rows : x = a.ids[k - 1]
  BY <1>1
<1>3. PICK y \in DOMAIN rows : y = a.ids[k]
  BY <1>1
<1>4. rows[x].boot = rows[y].boot /\ rows[y].n = rows[x].n + 1
  BY <1>1, <1>2, <1>3 DEF Connected
<1>5. \A i \in DOMAIN rows : rows[i].n \in Nat
  <2>1. \A i \in DOMAIN rows : rows[i] \in Reading
    OBVIOUS
  <2>2. QED
    BY <2>1 DEF Reading
<1>6. \A i \in RowsOf(d) : rows[i].n <= rows[x].n \/ rows[i].n >= rows[y].n
  BY <1>4, <1>5 DEF RowsOf
<1>7. QED
  BY <1>2, <1>3, <1>4, <1>6

-----------------------------------------------------------------------------
(* What a list of episodes promises                                        *)

EpisodesTyped == episodes \in Seq([device : Devices, open : Nat, resolved : BOOLEAN])

\* read_alert_episodes puts every active episode before the resolved ones.
LEMMA ActiveIsListedFirst ==
    ASSUME EpisodesTyped, NEW resolved \in Listed, episodes[resolved].resolved,
           NEW e \in DOMAIN episodes \ Listed
    PROVE  episodes[e].resolved
<1> DEFINE before(x) == {f \in DOMAIN episodes : Prior(f, x)}
<1>1. /\ resolved \in DOMAIN episodes
      /\ Cardinality(before(resolved)) < Limit /\ ~(Cardinality(before(e)) < Limit)
  BY DEF Listed
<1>2. \A x : IsFiniteSet(before(x))
  <2>1. IsFiniteSet(DOMAIN episodes)
    <3>1. DOMAIN episodes = 1..Len(episodes) /\ Len(episodes) \in Nat
      BY DEF EpisodesTyped
    <3>2. QED
      BY <3>1, FS_Interval
  <2>2. SUFFICES ASSUME NEW x PROVE IsFiniteSet(before(x))
    OBVIOUS
  <2>3. before(x) \in SUBSET DOMAIN episodes
    OBVIOUS
  <2> HIDE DEF before
  <2>4. QED
    BY <2>1, <2>3, FS_Subset
<1>3. SUFFICES ASSUME ~episodes[e].resolved PROVE FALSE
  OBVIOUS
<1>4. \A f \in DOMAIN episodes : episodes[f].resolved \in BOOLEAN
  <2>1. \A f \in DOMAIN episodes :
          episodes[f] \in [device : Devices, open : Nat, resolved : BOOLEAN]
    <3>1. PICK R : R = [device : Devices, open : Nat, resolved : BOOLEAN]
      OBVIOUS
    <3>2. episodes \in Seq(R)
      BY <3>1 DEF EpisodesTyped
    <3>3. \A f \in DOMAIN episodes : episodes[f] \in R
      BY <3>2
    <3>4. QED
      BY <3>1, <3>3
  <2>2. QED
    BY <2>1
<1>5. before(e) \subseteq before(resolved)
  <2>1. SUFFICES ASSUME NEW f \in DOMAIN episodes, Prior(f, e) PROVE Prior(f, resolved)
    OBVIOUS
  <2>2. ~episodes[f].resolved
    BY <1>3, <1>4, <2>1 DEF Prior
  <2>3. QED
    BY <2>2 DEF Prior
<1> HIDE DEF before
<1>6. /\ Cardinality(before(e)) <= Cardinality(before(resolved))
      /\ Cardinality(before(e)) \in Nat /\ Cardinality(before(resolved)) \in Nat
  BY <1>2, <1>5, FS_Subset, FS_CardinalityType
<1>7. QED
  BY <1>1, <1>6, ReadAssumption

-----------------------------------------------------------------------------
(* Requests and their answers                                              *)

Fields == {"op", "device", "window", "at", "from", "answer", "error"}

RequestTyped(q) ==
    /\ DOMAIN q = Fields
    /\ q.op \in Views
    /\ q.at \in {"first", "second", "done"}
    /\ q.at = "second" => q.op \in {"devices", "alerts", "history"}
    /\ q.from \in Nat /\ q.from <= changes

\* The rows of a history are read with its second statement; what it draws stays
\* true, and it is the newest of its window until the next commit.
HistoryKept(q) ==
    q.op = "history" /\ q.at = "done" /\ ~q.error =>
        /\ Drawn(q.answer)
        /\ q.from = changes => NewestOf(q.device, q.window, q.answer)

\* Episodes are read with the first statement and carried over the second.
EpisodesKept(q) ==
    q.op = "alerts" /\ q.at # "first" /\ ~q.error /\ q.from = changes =>
        (IF q.at = "done" THEN q.answer.listed ELSE q.answer) = {Episode(e) : e \in Listed}

Kept(q) == RequestTyped(q) /\ HistoryKept(q) /\ EpisodesKept(q)

Asked == stale \cup {poll[k] : k \in DOMAIN poll}

TablesTyped == rows \in Seq(Reading) /\ EpisodesTyped /\ changes \in Nat

LEMMA AskIsKept ==
    ASSUME NEW op \in Views, NEW device, NEW window, changes \in Nat
    PROVE  Kept(Ask(op, device, window))
BY DEF Kept, Ask, RequestTyped, Fields, HistoryKept, EpisodesKept

LEMMA RefusingIsKept ==
    ASSUME NEW q, Kept(q)
    PROVE  Kept(Refusing(q))
BY DEF Kept, Refusing, RequestTyped, Fields, HistoryKept, EpisodesKept

\* The first statement of a request.
LEMMA FirstIsKept ==
    ASSUME TablesTyped, NEW q, Kept(q), q.at = "first"
    PROVE  Kept(First(q))
<1>1. DOMAIN q = Fields /\ q.op \in Views /\ changes \in Nat
  BY DEF Kept, RequestTyped, TablesTyped
<1>2. CASE q.op \in {"equipment", "platform"}
  BY <1>1, <1>2 DEF First, Kept, RequestTyped, HistoryKept, EpisodesKept, Answering, Fields
<1> DEFINE reading(a) == [[[q EXCEPT !.from = changes] EXCEPT !.at = "second"] EXCEPT !.answer = a]
<1>3. CASE q.op = "devices"
  <2>1. PICK a : a = Status
    OBVIOUS
  <2>2. First(q) = reading(a)
    BY <1>1, <1>3, <2>1 DEF First, Fields
  <2>3. Kept(reading(a))
    BY <1>1, <1>3 DEF Kept, RequestTyped, HistoryKept, EpisodesKept, Fields
  <2>4. QED
    BY <2>2, <2>3
<1>4. CASE q.op = "alerts"
  <2>1. PICK a : a = {Episode(e) : e \in Listed}
    OBVIOUS
  <2>2. First(q) = reading(a)
    BY <1>1, <1>4, <2>1 DEF First, Fields
  <2>3. Kept(reading(a))
    BY <1>1, <1>4, <2>1 DEF Kept, RequestTyped, HistoryKept, EpisodesKept, Fields
  <2>4. QED
    BY <2>2, <2>3
<1>5. CASE q.op = "history"
  <2>1. First(q) \in {Refusing(q), [[q EXCEPT !.from = changes] EXCEPT !.at = "second"]}
    BY <1>5 DEF First
  <2>2. Kept([[q EXCEPT !.from = changes] EXCEPT !.at = "second"])
    BY <1>1, <1>5 DEF Kept, RequestTyped, HistoryKept, EpisodesKept, Fields
  <2>3. QED
    BY <2>1, <2>2, RefusingIsKept
<1>6. QED
  BY <1>1, <1>2, <1>3, <1>4, <1>5 DEF Views

\* The second one.
LEMMA SecondIsKept ==
    ASSUME TablesTyped, NEW q, Kept(q), q.at = "second"
    PROVE  Kept(Second(q))
<1>1. /\ DOMAIN q = Fields /\ changes \in Nat /\ q.op \in {"devices", "alerts", "history"}
      /\ q.from \in Nat /\ q.from <= changes
  BY DEF Kept, RequestTyped, TablesTyped
<1>2. CASE q.op = "devices"
  BY <1>1, <1>2 DEF Second, Kept, RequestTyped, HistoryKept, EpisodesKept, Answering, Fields, Views
<1>3. CASE q.op = "alerts"
  <2> DEFINE s == [listed |-> q.answer, active |-> ActiveCount]
  <2>1. s.listed = q.answer
    OBVIOUS
  <2>2. Second(q) = Answering(q, s)
    BY <1>3 DEF Second
  <2> HIDE DEF s
  <2>3. ~q.error /\ q.from = changes => q.answer = {Episode(e) : e \in Listed}
    BY <1>3 DEF Kept, EpisodesKept
  <2>4. QED
    BY <1>1, <1>3, <2>1, <2>2, <2>3
    DEF Kept, RequestTyped, HistoryKept, EpisodesKept, Answering, Fields, Views
<1>4. CASE q.op = "history"
  <2> DEFINE h == History(q.device, q.window)
             r == [[[q EXCEPT !.from = changes] EXCEPT !.at = "done"] EXCEPT !.answer = h]
  <2>1. Drawn(h) /\ NewestOf(q.device, q.window, h)
    BY HistoryIsNewest DEF TablesTyped
  <2>2. Second(q) = r
    BY <1>1, <1>4 DEF Second, Answering, Fields
  <2> HIDE DEF h
  <2>3. /\ DOMAIN r = Fields /\ r.op = "history" /\ r.at = "done" /\ r.from = changes
        /\ r.answer = h /\ r.device = q.device /\ r.window = q.window
    BY <1>1, <1>4 DEF Fields
  <2> HIDE DEF r
  <2>4. Kept(r)
    BY <1>1, <2>1, <2>3 DEF Kept, RequestTyped, HistoryKept, EpisodesKept, Views
  <2>5. QED
    BY <2>2, <2>4
<1>5. QED
  BY <1>1, <1>2, <1>3, <1>4

-----------------------------------------------------------------------------
(* The tables                                                              *)

Grows ==
    /\ changes' = changes + 1
    /\ rows' = rows \/ \E r \in Reading : rows' = Append(rows, r)
    /\ UNCHANGED <<poll, stale, shown, view, rerender, selection>>

LEMMA EpisodesGrow ==
    ASSUME EpisodesTyped
    PROVE  /\ \A d \in Devices, time \in 1..2 : OpenEpisode(d, time) => EpisodesTyped'
           /\ \A e \in DOMAIN episodes : ResolveEpisode(e) => EpisodesTyped'
<1> DEFINE R == [device : Devices, open : Nat, resolved : BOOLEAN]
<1>1. ASSUME NEW d \in Devices, NEW time \in 1..2, OpenEpisode(d, time)
      PROVE  EpisodesTyped'
  <2>1. PICK x \in R : x = [device |-> d, open |-> time, resolved |-> FALSE]
    <3>1. d \in Devices /\ time \in Nat /\ FALSE \in BOOLEAN
      OBVIOUS
    <3>2. [device |-> d, open |-> time, resolved |-> FALSE] \in R
      BY <3>1
    <3>3. QED
      BY <3>2, Zenon
  <2>2. episodes' = Append(episodes, x)
    BY <1>1, <2>1 DEF OpenEpisode
  <2>3. PICK S : S = R
    OBVIOUS
  <2>4. episodes \in Seq(S) /\ x \in S
    BY <2>1, <2>3 DEF EpisodesTyped
  <2>5. episodes' \in Seq(S)
    BY <2>2, <2>4
  <2>6. QED
    BY <2>3, <2>5 DEF EpisodesTyped
<1>2. ASSUME NEW e \in DOMAIN episodes, ResolveEpisode(e)
      PROVE  EpisodesTyped'
  <2>1. PICK S : S = R
    OBVIOUS
  <2>2. episodes \in Seq(S) /\ episodes[e] \in S
    <3>1. episodes \in Seq(S)
      BY <2>1 DEF EpisodesTyped
    <3>2. QED
      BY ONLY <3>1, e \in DOMAIN episodes
  <2>3. PICK x : x = [episodes[e] EXCEPT !.resolved = TRUE]
    OBVIOUS
  <2>4. x \in S
    BY <2>1, <2>2, <2>3
  <2>5. episodes' = [episodes EXCEPT ![e] = x]
    BY <1>2, <2>3 DEF ResolveEpisode
  <2>6. episodes' \in Seq(S)
    BY <2>2, <2>4, <2>5
  <2>7. QED
    BY <2>1, <2>6 DEF EpisodesTyped
<1>3. QED
  BY <1>1, <1>2

\* Every commit counts, and rows are only added.
LEMMA TableSteps ==
    ASSUME TablesTyped, [Next]_vars
    PROVE  TablesTyped' /\ (UNCHANGED tables \/ Grows)
<1>1. CASE UNCHANGED tables
  BY <1>1 DEF TablesTyped, EpisodesTyped, tables
<1>2. CASE Execute
  BY <1>2 DEF Execute, TablesTyped, EpisodesTyped, tables, Grows, screen
<1>3. CASE Others
  <2>1. UNCHANGED <<view, poll, stale, screen, rerender, selection, change, removed>>
    BY <1>3 DEF Others
  <2>2. CASE \E r \in Readings : StoreReading(r)
    <3>1. PICK r \in Reading : /\ rows' = Append(rows, r) /\ changes' = changes + 1
                               /\ UNCHANGED <<registered, episodes>>
      BY <2>2, ReadAssumption DEF StoreReading
    <3>2. TablesTyped'
      BY <3>1 DEF TablesTyped, EpisodesTyped
    <3>3. QED
      BY <2>1, <3>1, <3>2 DEF Grows, screen
  <2>3. CASE \/ \E d \in Devices, time \in 1..2 : OpenEpisode(d, time)
             \/ \E e \in DOMAIN episodes : ResolveEpisode(e)
    <3>1. EpisodesTyped'
      BY <2>3, EpisodesGrow DEF TablesTyped
    <3>2. rows' = rows /\ changes' = changes + 1
      BY <2>3 DEF OpenEpisode, ResolveEpisode
    <3>3. QED
      BY <2>1, <3>1, <3>2 DEF Grows, TablesTyped, screen
  <2>4. QED
    BY <1>3, <2>2, <2>3 DEF Others
<1>4. CASE \E d \in Devices : RegisterElsewhere(d)
  BY <1>4 DEF RegisterElsewhere, TablesTyped, EpisodesTyped, tables, Grows, screen
<1>5. CASE Browser \/ Clicks \/ PollFails \/ ChangeFails \/ Serve
  <2>1. UNCHANGED tables
    BY <1>5
    DEF Browser, Render, Again, Answered, Choose, Changed, AnsweredLate, Clicks, Navigate,
        Refresh, Select, Submit, PollFails, ChangeFails, Serve
  <2>2. QED
    BY <1>1, <2>1
<1>6. CASE UNCHANGED vars
  BY <1>1, <1>6 DEF vars
<1>7. QED
  BY <1>2, <1>3, <1>4, <1>5, <1>6 DEF Next

\* A request does not notice a commit that came after it.
LEMMA StillKept ==
    ASSUME TablesTyped, UNCHANGED tables \/ Grows, NEW q, Kept(q)
    PROVE  Kept(q)'
<1>1. CASE UNCHANGED tables
  <2>1. rows' = rows /\ episodes' = episodes /\ changes' = changes
    BY <1>1 DEF tables
  <2>2. /\ \A i, j : Before(i, j)' = Before(i, j)
        /\ \A i, j : Connected(i, j)' = Connected(i, j)
        /\ \A d, w : InWindow(d, w)' = InWindow(d, w)
    BY <2>1 DEF Before, Connected, InWindow, RowsOf
  <2>3. Drawn(q.answer)' = Drawn(q.answer)
    BY <2>1, <2>2 DEF Drawn
  <2>4. NewestOf(q.device, q.window, q.answer)' = NewestOf(q.device, q.window, q.answer)
    BY <2>2 DEF NewestOf
  <2>5. {Episode(e) : e \in Listed}' = {Episode(e) : e \in Listed}
    BY <2>1 DEF Episode, Listed, Prior
  <2>6. RequestTyped(q)'
    BY <2>1 DEF Kept, RequestTyped
  <2>7. HistoryKept(q)'
    BY <2>1, <2>3, <2>4 DEF Kept, HistoryKept
  <2>8. EpisodesKept(q)'
    BY <2>1, <2>5 DEF Kept, EpisodesKept
  <2>9. QED
    BY <2>6, <2>7, <2>8 DEF Kept
<1>2. CASE Grows
  <2>1. /\ q.from \in Nat /\ q.from <= changes /\ changes \in Nat /\ changes' = changes + 1
    BY <1>2 DEF Kept, RequestTyped, TablesTyped, Grows
  <2>2. q.from <= changes' /\ q.from # changes'
    BY <2>1
  <2>3. \A i \in DOMAIN rows : i \in DOMAIN rows' /\ rows'[i] = rows[i]
    <3>1. CASE rows' = rows
      BY <3>1
    <3>2. CASE \E r \in Reading : rows' = Append(rows, r)
      BY <3>2 DEF TablesTyped
    <3>3. QED
      BY <1>2, <3>1, <3>2 DEF Grows
  <2>4. ASSUME Drawn(q.answer) PROVE Drawn(q.answer)'
    <3>1. SUFFICES ASSUME NEW k \in DOMAIN q.answer.ids
                   PROVE  /\ k \in Nat /\ q.answer.ids[k] \in DOMAIN rows'
                          /\ k > 1 /\ ~q.answer.gaps[k] =>
                               /\ k - 1 \in DOMAIN q.answer.ids
                               /\ Connected(q.answer.ids[k - 1], q.answer.ids[k])'
      BY DEF Drawn
    <3>2. k \in Nat /\ q.answer.ids[k] \in DOMAIN rows'
      BY <2>3, <2>4 DEF Drawn
    <3>3. ASSUME k > 1, ~q.answer.gaps[k]
          PROVE  /\ k - 1 \in DOMAIN q.answer.ids
                 /\ Connected(q.answer.ids[k - 1], q.answer.ids[k])'
      <4>1. /\ k - 1 \in DOMAIN q.answer.ids
            /\ q.answer.ids[k - 1] \in DOMAIN rows /\ q.answer.ids[k] \in DOMAIN rows
            /\ Connected(q.answer.ids[k - 1], q.answer.ids[k])
        BY <2>4, <3>3 DEF Drawn
      <4>2. PICK x \in DOMAIN rows, y \in DOMAIN rows :
              x = q.answer.ids[k - 1] /\ y = q.answer.ids[k]
        BY <4>1
      <4>3. Connected(x, y)'
        BY <2>3, <4>1, <4>2 DEF Connected
      <4>4. QED
        BY <4>1, <4>2, <4>3
    <3>4. QED
      BY <3>2, <3>3
  <2>5. RequestTyped(q)'
    BY <2>2 DEF Kept, RequestTyped
  <2>6. HistoryKept(q)' /\ EpisodesKept(q)'
    BY <2>2, <2>4 DEF Kept, HistoryKept, EpisodesKept
  <2>7. QED
    BY <2>5, <2>6 DEF Kept
<1>3. QED
  BY <1>1, <1>2

-----------------------------------------------------------------------------
(* Clicks and effects                                                      *)

\* One request at most is live, and only the view that sent a change hears of it.
ClicksInv ==
    /\ poll # <<>> => poll = <<poll[1]>>
    /\ view \in Views \cup {"none"}
    /\ rerender \in BOOLEAN /\ (view = "none" => ~rerender)
    /\ change # NoChange =>
         /\ DOMAIN change = {"kind", "device", "at", "mounted"}
         /\ change.mounted => view = "devices"

LEMMA ClicksStep ==
    ASSUME ClicksInv, [Next]_vars
    PROVE  ClicksInv'
<1>1. CASE \E v \in Views : Navigate(v)
  <2>1. PICK v \in Views : Navigate(v)
    BY <1>1
  <2>2. view' = v /\ rerender' = FALSE
    BY <2>1 DEF Navigate
  <2>3. PICK q : poll' = <<q>>
    BY <2>1 DEF Navigate
  <2>4. poll' = <<poll'[1]>>
    BY <2>3
  <2>5. change' # NoChange =>
          DOMAIN change' = {"kind", "device", "at", "mounted"} /\ ~change'.mounted
    <3>1. CASE change = NoChange
      BY <2>1, <3>1 DEF Navigate
    <3>2. CASE change # NoChange
      <4>1. change' = [change EXCEPT !.mounted = FALSE]
        BY <2>1, <3>2 DEF Navigate
      <4>2. QED
        BY <3>2, <4>1 DEF ClicksInv
    <3>3. QED
      BY <3>1, <3>2
  <2>6. QED
    BY <2>2, <2>4, <2>5 DEF ClicksInv
<1>2. CASE Render
  BY <1>2 DEF ClicksInv, Render, Request
<1>3. CASE Again
  BY <1>3 DEF ClicksInv, Again, Request
<1>4. CASE Answered \/ Choose
  <2>1. /\ poll' = <<>> /\ UNCHANGED <<view, change>>
        /\ rerender' = rerender \/ (rerender' = TRUE /\ view = "history")
    BY <1>4 DEF Answered, Choose
  <2>2. rerender' \in BOOLEAN /\ (view = "none" => ~rerender')
    <3>1. CASE rerender' = rerender
      BY <3>1, Zenon DEF ClicksInv
    <3>2. CASE rerender' = TRUE /\ view = "history"
      BY <3>2
    <3>3. QED
      BY <2>1, <3>1, <3>2
  <2>3. QED
    BY <2>1, <2>2, Zenon DEF ClicksInv
<1>5. CASE Changed
  BY <1>5 DEF ClicksInv, Changed, Views
<1>6. CASE PollFails \/ Serve
  BY <1>6 DEF ClicksInv, PollFails, Serve
<1>7. CASE Refresh \/ \E d \in Devices, w \in Windows : Select(d, w)
  BY <1>7 DEF ClicksInv, Refresh, Select
<1>8. CASE \E d \in Devices, kind \in {"register", "remove"} : Submit(kind, d)
  BY <1>8 DEF ClicksInv, Submit
<1>9. CASE Execute
  BY <1>9 DEF ClicksInv, Execute
<1>10. CASE ChangeFails
  BY <1>10 DEF ClicksInv, ChangeFails
<1>11. CASE \/ \E q \in stale : AnsweredLate(q)
            \/ \E d \in Devices : RegisterElsewhere(d)
            \/ Others \/ UNCHANGED vars
  BY <1>11 DEF ClicksInv, AnsweredLate, Others, RegisterElsewhere, vars
<1>12. QED
  BY <1>1, <1>2, <1>3, <1>4, <1>5, <1>6, <1>7, <1>8, <1>9, <1>10, <1>11 DEF Next, Browser, Clicks

-----------------------------------------------------------------------------
(* Answers, wherever they are                                              *)

AnswersInv == TablesTyped /\ ClicksInv /\ \A q \in Asked : Kept(q)

LEMMA AskedNow ==
    /\ poll = <<>> => Asked = stale
    /\ \A q : poll = <<q>> => Asked = stale \cup {q}
BY DEF Asked

LEMMA AskedNext ==
    /\ poll' = <<>> => Asked' = stale'
    /\ \A q : poll' = <<q>> => Asked' = stale' \cup {q}
BY DEF Asked

\* The cleanup of an effect keeps or refuses its request.
LEMMA CleanupKeeps ==
    ASSUME \A q \in Asked : Kept(q), Cleanup
    PROVE  \A q \in stale' : Kept(q)
<1>1. \A q \in Asked : Kept(Aborted(q))
  BY RefusingIsKept DEF Aborted
<1>2. stale' = stale \cup {Aborted(poll[k]) : k \in DOMAIN poll}
  BY DEF Cleanup
<1>3. \A k \in DOMAIN poll : poll[k] \in Asked
  BY DEF Asked
<1>4. \A q \in stale : q \in Asked
  BY DEF Asked
<1>5. QED
  BY <1>1, <1>2, <1>3, <1>4

\* What the requests of the next state are.
LEMMA AskedSteps ==
    ASSUME AnswersInv, [Next]_vars
    PROVE  \A q \in Asked' : Kept(q)
<1>1. /\ \A q \in Asked : Kept(q)
      /\ poll # <<>> => poll = <<poll[1]>> /\ poll[1] \in Asked
      /\ stale \subseteq Asked /\ changes \in Nat
  BY DEF AnswersInv, ClicksInv, TablesTyped, Asked
<1>2. CASE \E v \in Views : Navigate(v)
  <2>1. PICK v \in Views : Navigate(v)
    BY <1>2
  <2>2. PICK op \in Views : poll' = <<Ask(op, "", <<>>)>>
    <3>1. PICK op : op = IF v = "history" THEN "equipment" ELSE v
      OBVIOUS
    <3>2. poll' = <<Ask(op, "", <<>>)>>
      BY <2>1, <3>1 DEF Navigate
    <3>3. op \in Views
      BY <2>1, <3>1 DEF Views
    <3>4. QED
      BY <3>2, <3>3
  <2>3. \A q \in stale' : Kept(q)
    BY <1>1, <2>1, CleanupKeeps DEF Navigate
  <2>4. PICK a : a = Ask(op, "", <<>>)
    OBVIOUS
  <2>5. Kept(a)
    BY <1>1, <2>4, AskIsKept
  <2>6. poll' = <<a>>
    BY <2>2, <2>4
  <2>7. Asked' = stale' \cup {a}
    BY <2>6, AskedNext
  <2>8. QED
    BY <2>3, <2>5, <2>7
<1>3. CASE Render \/ Again
  <2>1. view \in Views
    BY <1>3 DEF Render, Again, Polled, AnswersInv, ClicksInv
  <2>2. PICK device, window : Request = <<Ask(view, device, window)>>
    BY DEF Request
  <2>3. poll' = <<Ask(view, device, window)>>
    BY <1>3, <2>2 DEF Render, Again
  <2>4. \A q \in stale' : Kept(q)
    <3>1. CASE Render
      BY <1>1, <3>1, CleanupKeeps DEF Render
    <3>2. CASE Again
      BY <1>1, <3>2 DEF Again
    <3>3. QED
      BY <1>3, <3>1, <3>2
  <2>5. Kept(Ask(view, device, window))
    BY <1>1, <2>1, AskIsKept
  <2>6. PICK a : a = Ask(view, device, window)
    OBVIOUS
  <2>7. poll' = <<a>>
    BY <2>3, <2>6
  <2>8. Asked' = stale' \cup {a}
    BY <2>7, AskedNext
  <2>9. QED
    BY <2>4, <2>5, <2>6, <2>8
<1>4. CASE Answered \/ Choose \/ \E q \in stale : AnsweredLate(q)
  <2>1. Asked' \subseteq Asked
    <3>1. CASE Answered \/ Choose
      BY <1>1, <3>1, AskedNext DEF Answered, Choose
    <3>2. CASE \E q \in stale : AnsweredLate(q)
      BY <3>2 DEF AnsweredLate, Asked
    <3>3. QED
      BY <1>4, <3>1, <3>2
  <2>2. QED
    BY <1>1, <2>1
<1>5. CASE PollFails \/ Serve
  <2>1. PICK q \in Asked : q = poll[1]
    BY <1>1, <1>5 DEF PollFails, Serve
  <2>2. stale' = stale
    BY <1>5 DEF PollFails, Serve
  <2>3. CASE PollFails
    <3>1. poll' = <<Refusing(q)>>
      BY <2>1, <2>3 DEF PollFails
    <3>2. Kept(Refusing(q))
      BY <1>1, RefusingIsKept
    <3>3. QED
      BY <1>1, <2>2, <3>1, <3>2, AskedNext
  <2>4. CASE Serve
    <3>1. poll' = <<Served(q)>> /\ q.at # "done"
      BY <2>1, <2>4 DEF Serve
    <3>2. q.at \in {"first", "second"}
      BY <1>1, <3>1 DEF Kept, RequestTyped
    <3>3. TablesTyped
      BY DEF AnswersInv
    <3>4. Kept(Served(q))
      BY <1>1, <3>2, <3>3, FirstIsKept, SecondIsKept DEF Served
    <3>5. QED
      BY <1>1, <2>2, <3>1, <3>4, AskedNext
  <2>5. QED
    BY <1>5, <2>3, <2>4
<1>6. CASE UNCHANGED <<poll, stale>>
  <2>1. Asked' = Asked
    BY <1>6 DEF Asked
  <2>2. QED
    BY <1>1, <2>1
<1>7. CASE \/ Changed \/ Refresh \/ ChangeFails \/ Execute \/ Others
           \/ \E d \in Devices, w \in Windows : Select(d, w)
  BY <1>6, <1>7 DEF Changed, Refresh, ChangeFails, Execute, Others, Select
<1>8. CASE \/ \E d \in Devices, kind \in {"register", "remove"} : Submit(kind, d)
           \/ \E d \in Devices : RegisterElsewhere(d)
  BY <1>6, <1>8 DEF Submit, RegisterElsewhere
<1>9. CASE UNCHANGED vars
  BY <1>6, <1>9 DEF vars
<1>10. QED
  BY <1>2, <1>3, <1>4, <1>5, <1>7, <1>8, <1>9 DEF Next, Browser, Clicks

LEMMA AnswersStep ==
    ASSUME AnswersInv, [Next]_vars
    PROVE  AnswersInv'
<1>1. TablesTyped' /\ (UNCHANGED tables \/ Grows)
  BY TableSteps DEF AnswersInv
<1>2. ClicksInv'
  BY ClicksStep DEF AnswersInv
<1>3. \A q \in Asked' : Kept(q)'
  BY <1>1, AskedSteps, StillKept DEF AnswersInv
<1>4. QED
  BY <1>1, <1>2, <1>3 DEF AnswersInv

LEMMA AnswersInit == Init => AnswersInv
<1> SUFFICES ASSUME Init PROVE AnswersInv
  OBVIOUS
<1>1. TablesTyped
  BY DEF Init, TablesTyped, EpisodesTyped
<1>2. ClicksInv
  BY DEF Init, ClicksInv
<1>3. Asked = {}
  BY AskedNow DEF Init
<1>4. QED
  BY <1>1, <1>2, <1>3 DEF AnswersInv

\* Whatever is stored, clicked, lost or late: the requests and the tables stay
\* related as AnswersInv says.
THEOREM AnswersInvariance == Spec => []AnswersInv
BY AnswersInit, AnswersStep, PTL DEF Spec

\* An answer that has arrived in the browser leaves out only what is less worth
\* showing: a history the older rows of its window (and says so), a chart line no
\* reading, a list of episodes no active one.
THEOREM AnswersComplete == Spec => []AnswersAreComplete
<1>1. ASSUME AnswersInv PROVE AnswersAreComplete
  <2>1. SUFFICES ASSUME NEW q \in Asked, q.at = "done", ~q.error
                 PROVE  /\ q.op = "history" => HistoryIsComplete(q)
                        /\ q.op = "alerts"  => EpisodesAreComplete(q)
    BY DEF AnswersAreComplete, Asked
  <2>2. TablesTyped /\ Kept(q)
    BY <1>1 DEF AnswersInv
  <2>3. ASSUME q.op = "history" PROVE HistoryIsComplete(q)
    <3>1. Drawn(q.answer) /\ (q.from = changes => NewestOf(q.device, q.window, q.answer))
      BY <2>1, <2>2, <2>3 DEF Kept, HistoryKept
    <3>2. \A k \in DOMAIN q.answer.ids : k > 1 /\ ~q.answer.gaps[k] =>
             /\ rows[q.answer.ids[k - 1]].boot = rows[q.answer.ids[k]].boot
             /\ \A i \in RowsOf(q.device) :
                  rows[i].boot = rows[q.answer.ids[k]].boot =>
                     \/ rows[i].n <= rows[q.answer.ids[k - 1]].n
                     \/ rows[i].n >= rows[q.answer.ids[k]].n
      BY <2>2, <3>1, DrawnSkipsNothing DEF TablesTyped
    <3>3. QED
      BY <3>1, <3>2 DEF HistoryIsComplete, NewestOf
  <2>4. ASSUME q.op = "alerts" PROVE EpisodesAreComplete(q)
    <3>1. SUFFICES ASSUME \E e \in q.answer.listed : e.resolved, q.from = changes,
                          NEW e \in DOMAIN episodes \ {x.id : x \in q.answer.listed}
                   PROVE  episodes[e].resolved
      BY Zenon DEF EpisodesAreComplete
    <3>2. q.answer.listed = {Episode(x) : x \in Listed}
      BY <2>1, <2>2, <2>4, <3>1 DEF Kept, EpisodesKept
    <3>3. PICK r \in Listed : episodes[r].resolved
      BY <3>1, <3>2 DEF Episode
    <3>4. e \notin Listed
      <4>1. SUFFICES ASSUME e \in Listed PROVE FALSE
        OBVIOUS
      <4>2. Episode(e) \in q.answer.listed /\ Episode(e).id = e
        BY <3>2, <4>1 DEF Episode
      <4>3. QED
        BY <3>1, <4>2
    <3>5. QED
      BY <2>2, <3>3, <3>4, ActiveIsListedFirst DEF TablesTyped
  <2>5. QED
    BY <2>3, <2>4
<1>2. QED
  BY <1>1, AnswersInvariance, PTL

-----------------------------------------------------------------------------
(* The screen                                                              *)

Selected(q) == q.device = selection.device /\ q.window = selection.window

\* What is shown came from an effect of this view; a polling view asks again only
\* after its answer; what History asks for and shows is the selection, except
\* between a click and the next render.
ShownTyped ==
    shown = Nothing \/ /\ DOMAIN shown = Fields
                       /\ shown.op \in Views /\ shown.op = view
                       /\ shown.from \in Nat /\ shown.from <= changes

PollIsNewer ==
    view \in Polled /\ shown # Nothing /\ poll # <<>> =>
        poll[1].at = "first" \/ poll[1].error \/ poll[1].from >= shown.from

HistoryIsSelected ==
    view = "history" /\ ~rerender =>
        /\ poll # <<>> /\ poll[1].op = "history" => Selected(poll[1])
        /\ shown.op = "history" => Selected(shown)

ScreenInv == ShownTyped /\ PollIsNewer /\ HistoryIsSelected

\* ShownIsCurrent without its box.
Current ==
    /\ shown'.op # "none" => shown'.op = view'
    /\ shown.op # "none" /\ shown'.op = shown.op /\ view \in Polled => shown'.from >= shown.from
    /\ shown'.op = "history" /\ ~rerender' =>
         shown'.device = selection'.device /\ shown'.window = selection'.window

LEMMA NothingIsShown == Nothing.op = "none"
BY DEF Nothing

\* An answer knows of every commit before its first statement.
LEMMA ServedIsNewer ==
    ASSUME TablesTyped, NEW q, Kept(q), q.at # "done"
    PROVE  LET s == Served(q) IN
           /\ s.op = q.op /\ s.device = q.device /\ s.window = q.window
           /\ s.error \/ s.from = changes \/ (q.at = "second" /\ s.from = q.from /\ s.error = q.error)
<1>1. /\ DOMAIN q = Fields /\ q.op \in Views /\ q.at \in {"first", "second"}
      /\ q.at = "second" => q.op \in {"devices", "alerts", "history"}
  BY DEF Kept, RequestTyped
<1> DEFINE known(at, a) == [[[q EXCEPT !.from = changes] EXCEPT !.at = at] EXCEPT !.answer = a]
           same(a) == [[q EXCEPT !.at = "done"] EXCEPT !.answer = a]
<1>2. CASE q.at = "first"
  <2>1. \/ \E at, a : First(q) = known(at, a)
        \/ First(q) = Refusing(q)
        \/ First(q) = [[q EXCEPT !.from = changes] EXCEPT !.at = "second"]
    <3>1. PICK s, e : s = Status /\ e = {Episode(x) : x \in Listed}
      OBVIOUS
    <3>2. First(q) \in {known("done", s), known("second", s), known("done", <<>>),
                        known("second", e), Refusing(q),
                        [[q EXCEPT !.from = changes] EXCEPT !.at = "second"]}
      BY <1>1, <3>1 DEF First, Answering, Fields, Views
    <3>3. QED
      BY <3>2
  <2>2. QED
    BY <1>1, <1>2, <2>1 DEF Served, Refusing, Fields
<1>3. CASE q.at = "second"
  <2>1. (\E a : Second(q) = same(a)) \/ (\E a : Second(q) = known("done", a))
    <3>1. PICK s, h : /\ s = [listed |-> q.answer, active |-> ActiveCount]
                      /\ h = History(q.device, q.window)
      OBVIOUS
    <3>2. Second(q) \in {same(q.answer), same(s), known("done", h)}
      BY <1>1, <1>3, <3>1 DEF Second, Answering, Fields
    <3>3. QED
      BY <3>2
  <2>2. QED
    BY <1>1, <1>3, <2>1 DEF Served, Fields
<1>4. QED
  BY <1>1, <1>2, <1>3

LEMMA NavigateOnScreen ==
    ASSUME NEW v \in Views, Navigate(v)
    PROVE  ScreenInv' /\ Current
<1>1. shown' = Nothing /\ rerender' = FALSE /\ view' = v
  BY DEF Navigate
<1>2. PICK op : op = IF v = "history" THEN "equipment" ELSE v
  OBVIOUS
<1>3. poll' = <<Ask(op, "", <<>>)>>
  BY <1>2 DEF Navigate
<1>4. poll'[1].op = op
  BY <1>3 DEF Ask
<1>5. ~(view' = "history" /\ poll'[1].op = "history")
  BY <1>1, <1>2, <1>4
<1>6. QED
  BY <1>1, <1>5, NothingIsShown
  DEF ScreenInv, ShownTyped, PollIsNewer, HistoryIsSelected, Current

LEMMA RenderOnScreen ==
    ASSUME ScreenInv, Render
    PROVE  ScreenInv' /\ Current
<1>1. /\ rerender' = FALSE /\ view' = view /\ selection' = selection /\ changes' = changes
      /\ poll' = Request
  BY DEF Render, tables
<1>2. CASE view = "history"
  <2>1. shown' = Nothing
    BY <1>2 DEF Render
  <2>2. poll' = <<Ask("history", selection.device, selection.window)>>
    BY <1>1, <1>2 DEF Request
  <2>3. poll'[1].device = selection.device /\ poll'[1].window = selection.window
    BY <2>2 DEF Ask
  <2>4. QED
    BY <1>1, <1>2, <2>1, <2>3, NothingIsShown
    DEF ScreenInv, ShownTyped, PollIsNewer, HistoryIsSelected, Current, Selected, Polled
<1>3. CASE view # "history"
  <2>1. shown' = shown
    BY <1>3 DEF Render, screen
  <2>2. poll' = <<Ask(view, "", <<>>)>>
    BY <1>1, <1>3 DEF Request
  <2>3. poll'[1].at = "first"
    BY <2>2 DEF Ask
  <2>4. shown.op # "none" => shown.op = view /\ shown.from \in Nat
    BY NothingIsShown DEF ScreenInv, ShownTyped
  <2>5. QED
    BY <1>1, <1>3, <2>1, <2>3, <2>4
    DEF ScreenInv, ShownTyped, PollIsNewer, HistoryIsSelected, Current, Polled
<1>4. QED
  BY <1>2, <1>3

LEMMA AgainOnScreen ==
    ASSUME ScreenInv, Again
    PROVE  ScreenInv' /\ Current
<1>1. /\ view \in Polled /\ view # "history" /\ poll' = Request
      /\ UNCHANGED <<view, rerender, selection, shown, changes>>
  BY DEF Again, Polled, tables, screen
<1>2. poll' = <<Ask(view, "", <<>>)>>
  BY <1>1 DEF Request
<1>3. poll'[1].at = "first"
  BY <1>2 DEF Ask
<1>4. shown.op # "none" => shown.op = view /\ shown.from \in Nat
  BY NothingIsShown DEF ScreenInv, ShownTyped
<1>5. QED
  BY <1>1, <1>3, <1>4 DEF ScreenInv, ShownTyped, PollIsNewer, HistoryIsSelected, Current

LEMMA AnsweredOnScreen ==
    ASSUME AnswersInv, ScreenInv, Answered
    PROVE  ScreenInv' /\ Current
<1>1. PICK q \in Asked : q = poll[1]
  BY DEF AnswersInv, ClicksInv, Asked, Answered
<1>2. /\ q.at = "done" /\ q.op = view /\ poll # <<>> /\ poll' = <<>>
      /\ UNCHANGED <<view, rerender, selection, changes>>
  BY <1>1 DEF Answered, tables
<1>3. DOMAIN q = Fields /\ q.op \in Views /\ q.from \in Nat /\ q.from <= changes
  BY DEF AnswersInv, Kept, RequestTyped
<1>4. shown.op # "none" => shown # Nothing /\ shown.op = view /\ shown.from \in Nat
  BY NothingIsShown DEF ScreenInv, ShownTyped
<1>5. CASE q.error
  <2>1. shown' = shown
    BY <1>1, <1>5 DEF Answered
  <2>2. QED
    BY <1>2, <1>4, <2>1 DEF ScreenInv, ShownTyped, PollIsNewer, HistoryIsSelected, Current, Selected, Polled
<1>6. CASE ~q.error
  <2>1. shown' = q
    BY <1>1, <1>6 DEF Answered
  <2>2. ShownTyped'
    BY <1>2, <1>3, <2>1 DEF ShownTyped
  <2>3. view = "history" /\ ~rerender => Selected(q)
    BY <1>1, <1>2 DEF ScreenInv, HistoryIsSelected
  <2>4. PollIsNewer' /\ HistoryIsSelected'
    BY <1>2, <2>1, <2>3 DEF PollIsNewer, HistoryIsSelected, Selected
  <2>5. view \in Polled /\ shown # Nothing => q.from >= shown.from
    BY <1>1, <1>2, <1>6 DEF ScreenInv, PollIsNewer
  <2>6. Current
    BY <1>2, <1>4, <2>1, <2>3, <2>5 DEF Current, Selected
  <2>7. QED
    BY <2>2, <2>4, <2>6 DEF ScreenInv
<1>7. QED
  BY <1>5, <1>6

\* The list of History's devices selects, and what to ask changes.
LEMMA ChooseOnScreen ==
    ASSUME ScreenInv, Choose
    PROVE  ScreenInv' /\ Current
<1>1. /\ poll' = <<>> /\ view = "history" /\ UNCHANGED <<view, shown, changes>>
      /\ rerender' = TRUE \/ UNCHANGED <<selection, rerender>>
  BY DEF Choose, tables
<1>2. shown.op # "none" => shown.op = view
  BY NothingIsShown DEF ScreenInv, ShownTyped
<1>3. ShownTyped' /\ PollIsNewer'
  BY <1>1 DEF ScreenInv, ShownTyped, PollIsNewer
<1>4. ~rerender' => ~rerender /\ selection' = selection
  BY <1>1
<1>5. HistoryIsSelected' /\ Current
  BY <1>1, <1>2, <1>4 DEF ScreenInv, HistoryIsSelected, Current, Selected, Polled
<1>6. QED
  BY <1>3, <1>5 DEF ScreenInv

\* A removed device leaves the list, whose age stays.
LEMMA ChangedOnScreen ==
    ASSUME AnswersInv, ScreenInv, Changed
    PROVE  ScreenInv' /\ Current
<1>1. UNCHANGED <<view, poll, selection, changes>>
  BY DEF Changed, tables
<1>2. shown.op # "none" =>
        /\ shown # Nothing /\ DOMAIN shown = Fields /\ shown.op = view /\ shown.from \in Nat
  BY NothingIsShown DEF ScreenInv, ShownTyped
<1>3. CASE shown' = shown /\ (rerender' = TRUE \/ rerender' = rerender)
  <2>1. ~rerender' => ~rerender
    BY <1>3
  <2>2. QED
    BY <1>1, <1>2, <1>3, <2>1
    DEF ScreenInv, ShownTyped, PollIsNewer, HistoryIsSelected, Current, Selected
<1>4. CASE shown.op = "devices" /\ rerender' = TRUE /\ \E a : shown' = [shown EXCEPT !.answer = a]
  <2>1. DOMAIN shown = Fields /\ shown.op = view /\ shown # Nothing
    BY <1>2, <1>4
  <2>2. DOMAIN shown' = Fields /\ shown'.op = shown.op /\ shown'.from = shown.from
    BY <1>4, <2>1 DEF Fields
  <2>3. QED
    BY <1>1, <1>2, <1>4, <2>1, <2>2
    DEF ScreenInv, ShownTyped, PollIsNewer, HistoryIsSelected, Current
<1>5. QED
  <2>1. \/ UNCHANGED <<rerender, shown>>
        \/ rerender' = TRUE /\ shown' = shown
        \/ /\ rerender' = TRUE /\ shown.op = "devices"
           /\ \E a : shown' = [shown EXCEPT !.answer = a]
    BY Zenon DEF Changed
  <2>2. QED
    BY <1>3, <1>4, <2>1

\* A request on its way gets no older.
LEMMA ServeOnScreen ==
    ASSUME AnswersInv, ScreenInv, PollFails \/ Serve
    PROVE  ScreenInv' /\ Current
<1>1. PICK q \in Asked : q = poll[1]
  BY DEF AnswersInv, ClicksInv, Asked, PollFails, Serve
<1>2. /\ poll # <<>> /\ q.at # "done" /\ Kept(q) /\ TablesTyped
      /\ UNCHANGED <<view, rerender, selection, shown, changes>>
  BY <1>1 DEF PollFails, Serve, AnswersInv, tables, screen
<1>3. PICK s : /\ poll' = <<s>> /\ s.op = q.op /\ s.device = q.device /\ s.window = q.window
               /\ \/ s.error \/ s.from = changes
                  \/ q.at = "second" /\ s.from = q.from /\ s.error = q.error
  <2>1. CASE PollFails
    <3>1. poll' = <<Refusing(q)>>
      BY <1>1, <2>1 DEF PollFails
    <3>2. DOMAIN q = Fields
      BY <1>2 DEF Kept, RequestTyped
    <3>3. /\ Refusing(q).error /\ Refusing(q).op = q.op
          /\ Refusing(q).device = q.device /\ Refusing(q).window = q.window
      BY <3>2 DEF Refusing, Fields
    <3>4. QED
      BY <3>1, <3>3
  <2>2. CASE Serve
    <3>1. poll' = <<Served(q)>>
      BY <1>1, <2>2 DEF Serve
    <3>2. QED
      BY <1>2, <3>1, ServedIsNewer
  <2>3. QED
    BY <2>1, <2>2
<1>4. poll'[1] = s
  BY <1>3
<1>5. shown # Nothing => shown.op = view /\ shown.from \in Nat /\ shown.from <= changes
  BY DEF ScreenInv, ShownTyped
<1>6. view \in Polled /\ shown # Nothing => s.error \/ s.from >= shown.from
  <2>1. ASSUME view \in Polled, shown # Nothing, q.at = "second"
        PROVE  q.error \/ q.from >= shown.from
    BY <1>1, <1>2, <2>1 DEF ScreenInv, PollIsNewer
  <2>2. changes \in Nat
    BY <1>2 DEF TablesTyped
  <2>3. QED
    BY <1>3, <1>5, <2>1, <2>2
<1>7. view = "history" /\ ~rerender =>
        /\ s.op = "history" => Selected(s)
        /\ shown.op = "history" => Selected(shown)
  BY <1>1, <1>2, <1>3 DEF ScreenInv, HistoryIsSelected, Selected
<1>8. ShownTyped' /\ PollIsNewer' /\ HistoryIsSelected'
  BY <1>2, <1>4, <1>6, <1>7
  DEF ScreenInv, ShownTyped, PollIsNewer, HistoryIsSelected, Selected
<1>9. Current
  BY <1>2, <1>5, <1>7, NothingIsShown DEF Current, Selected
<1>10. QED
  BY <1>8, <1>9 DEF ScreenInv

\* The screen stays, and so does what it should show, or a click was noted.
LEMMA QuietOnScreen ==
    ASSUME AnswersInv, ScreenInv, UNCHANGED <<view, poll, shown>>,
           changes' \in {changes, changes + 1},
           rerender' = TRUE \/ UNCHANGED <<rerender, selection>>
    PROVE  ScreenInv' /\ Current
<1>1. shown # Nothing => shown.op = view /\ shown.from \in Nat /\ shown.from <= changes
  BY DEF ScreenInv, ShownTyped
<1>2. changes \in Nat /\ changes <= changes'
  BY DEF AnswersInv, TablesTyped
<1>3. ~rerender' => ~rerender /\ selection' = selection
  OBVIOUS
<1>4. ShownTyped' /\ PollIsNewer'
  BY <1>1, <1>2 DEF ScreenInv, ShownTyped, PollIsNewer
<1>5. HistoryIsSelected'
  BY <1>3 DEF ScreenInv, HistoryIsSelected, Selected
<1>6. shown.op = "history" /\ ~rerender' => Selected(shown)
  BY <1>1, <1>3, NothingIsShown DEF ScreenInv, HistoryIsSelected
<1>7. Current
  BY <1>1, <1>3, <1>6, NothingIsShown DEF Current, Selected
<1>8. QED
  BY <1>4, <1>5, <1>7 DEF ScreenInv

LEMMA ScreenStep ==
    ASSUME AnswersInv, ScreenInv, [Next]_vars
    PROVE  ScreenInv' /\ Current
<1>1. CASE Refresh \/ \E d \in Devices, w \in Windows : Select(d, w)
  BY <1>1, QuietOnScreen DEF Refresh, Select, tables, screen
<1>2. CASE \/ \E d \in Devices, kind \in {"register", "remove"} : Submit(kind, d)
           \/ \E q \in stale : AnsweredLate(q)
           \/ ChangeFails
  BY <1>2, QuietOnScreen DEF Submit, AnsweredLate, ChangeFails, tables, screen
<1>3. CASE UNCHANGED vars
  BY <1>3, QuietOnScreen DEF vars, tables, screen
<1>4. CASE Execute \/ Others \/ \E d \in Devices : RegisterElsewhere(d)
  <2>1. UNCHANGED <<view, poll, shown, rerender, selection>>
    BY <1>4 DEF Execute, Others, RegisterElsewhere, screen
  <2>2. changes' \in {changes, changes + 1}
    BY TableSteps DEF AnswersInv, Grows, tables
  <2>3. QED
    BY <2>1, <2>2, QuietOnScreen
<1>5. QED
  BY <1>1, <1>2, <1>3, <1>4, NavigateOnScreen, RenderOnScreen, AgainOnScreen, AnsweredOnScreen,
     ChooseOnScreen, ChangedOnScreen, ServeOnScreen
  DEF Next, Browser, Clicks

LEMMA ScreenInit == Init => ScreenInv
BY NothingIsShown DEF Init, ScreenInv, ShownTyped, PollIsNewer, HistoryIsSelected

THEOREM ScreenInvariance == Spec => []ScreenInv
BY AnswersInvariance, ScreenInit, ScreenStep, PTL DEF Spec

\* However late an answer comes and whatever is clicked meanwhile, a polling view
\* shows no older answer than before and History the selection of its last render.
THEOREM ShownStaysCurrent == Spec => ShownIsCurrent
<1>1. Spec => [][Current]_vars
  BY AnswersInvariance, ScreenInvariance, ScreenStep, PTL DEF Spec
<1>2. [][Current]_vars => ShownIsCurrent
  BY DEF Current, ShownIsCurrent
<1>3. QED
  BY <1>1, <1>2, PTL
=============================================================================
