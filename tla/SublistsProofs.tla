---------------------------- MODULE SublistsProofs ----------------------------
(***************************************************************************)
(* What filtering, removing duplicates, sorting and joining of lists keep, *)
(* for lists of any length.                                                *)
(***************************************************************************)
EXTENDS Sublists, FiniteSetTheorems, SequenceTheorems, WellFoundedInduction, TLAPS

-----------------------------------------------------------------------------
(* Places *)

\* A set of numbers has a least one: induction by the least counterexample.
LEMMA LeastExists ==
    ASSUME NEW S \in SUBSET Nat, S # {}
    PROVE  \E m \in S : \A k \in S : m <= k
<1>. DEFINE R == {p \in Nat \X Nat : p[1] < p[2]}
<1>1. IsWellFoundedOn(R, Nat)
  BY NatLessThanWellFounded, Zenon DEF OpToRel
<1>2. PICK m \in S : \A k \in S : ~ (<<k, m>> \in R)
  <2>. HIDE DEF R
  <2>. QED
    BY <1>1, WFMin
<1>3. ASSUME NEW k \in S PROVE m <= k
  <2>1. m \in Nat /\ k \in Nat /\ <<k, m>> \in Nat \X Nat /\ <<k, m>>[1] = k /\ <<k, m>>[2] = m
    OBVIOUS
  <2>2. ~(k < m)
    BY <1>2, <2>1
  <2>. QED
    BY <2>1, <2>2
<1>. QED
  BY <1>3

\* R orders the finite set I strictly and totally.
Orders(R, I) ==
    /\ IsFiniteSet(I)
    /\ \A i \in I : <<i, i>> \notin R
    /\ \A i, j, k \in I : <<i, j>> \in R /\ <<j, k>> \in R => <<i, k>> \in R
    /\ \A i, j \in I : i # j => <<i, j>> \in R \/ <<j, i>> \in R

Place(R, I, k) == Cardinality({j \in I : <<j, k>> \in R}) + 1

LEMMA LaterPlace ==
    ASSUME NEW R, NEW I, Orders(R, I), NEW i \in I, NEW k \in I, <<i, k>> \in R
    PROVE  Place(R, I, i) < Place(R, I, k)
<1>. DEFINE A == {j \in I : <<j, i>> \in R}
            B == {j \in I : <<j, k>> \in R}
<1>1. IsFiniteSet(B)
  BY FS_Subset DEF Orders
<1>2. A \in SUBSET B /\ i \in B /\ i \notin A
  BY DEF Orders
<1>3. /\ IsFiniteSet(A) /\ Cardinality(A) <= Cardinality(B)
      /\ Cardinality(B) = Cardinality(A) => B = A
  <2>. HIDE DEF A, B
  <2>. QED
    BY <1>1, <1>2, FS_Subset
<1>4. Cardinality(A) \in Nat /\ Cardinality(B) \in Nat
  <2>. HIDE DEF A, B
  <2>. QED
    BY <1>1, <1>3, FS_CardinalityType
<1>5. Cardinality(A) # Cardinality(B)
  BY <1>2, <1>3
<1>6. Cardinality(A) < Cardinality(B)
  <2>. HIDE DEF A, B
  <2>. QED
    BY <1>3, <1>4, <1>5
<1>. QED
  BY <1>4, <1>6 DEF Place

LEMMA PlaceRange ==
    ASSUME NEW R, NEW I, Orders(R, I), NEW k \in I
    PROVE  Cardinality(I) \in Nat /\ Place(R, I, k) \in 1 .. Cardinality(I)
<1>. DEFINE A == {j \in I : <<j, k>> \in R}
<1>1. IsFiniteSet(I) /\ A \in SUBSET I /\ k \in I /\ k \notin A
  BY DEF Orders
<1>2. IsFiniteSet(A) /\ Cardinality(A) <= Cardinality(I) /\ (Cardinality(I) = Cardinality(A) => I = A)
  <2>. HIDE DEF A
  <2>. QED
    BY <1>1, FS_Subset
<1>3. Cardinality(A) \in Nat /\ Cardinality(I) \in Nat
  <2>. HIDE DEF A
  <2>. QED
    BY <1>1, <1>2, FS_CardinalityType
<1>4. Cardinality(A) < Cardinality(I)
  <2>1. A # I
    BY <1>1
  <2>. HIDE DEF A
  <2>. QED
    BY <1>2, <1>3, <2>1
<1>. QED
  BY <1>3, <1>4 DEF Place

\* Every place is taken, by one element.
LEMMA PlacesTaken ==
    ASSUME NEW R, NEW I, Orders(R, I)
    PROVE  /\ Cardinality(I) \in Nat
           /\ \A i, k \in I : Place(R, I, i) = Place(R, I, k) => i = k
           /\ \A n \in 1 .. Cardinality(I) : \E k \in I : Place(R, I, k) = n
<1>. DEFINE p == [k \in I |-> Place(R, I, k)]
            N == 1 .. Cardinality(I)
<1>1. IsFiniteSet(I) /\ Cardinality(I) \in Nat
  BY FS_CardinalityType DEF Orders
<1>2. ASSUME NEW i \in I, NEW k \in I, i # k PROVE Place(R, I, i) # Place(R, I, k)
  <2>1. <<i, k>> \in R \/ <<k, i>> \in R
    BY <1>2 DEF Orders
  <2>2. Place(R, I, i) < Place(R, I, k) \/ Place(R, I, k) < Place(R, I, i)
    BY <2>1, LaterPlace
  <2>3. Place(R, I, i) \in Nat /\ Place(R, I, k) \in Nat
    BY <1>1, PlaceRange
  <2>. QED
    BY <2>2, <2>3
<1>3. p \in Injection(I, N)
  <2>1. p \in [I -> N]
    BY PlaceRange
  <2>2. \A i, k \in I : p[i] = p[k] => i = k
    BY <1>2
  <2>. QED
    BY <2>1, <2>2 DEF Injection, IsInjective
<1>4. IsFiniteSet(N) /\ Cardinality(N) = Cardinality(I)
  BY <1>1, FS_Interval
<1>5. p \in Surjection(I, N)
  <2>. HIDE DEF p, N
  <2>. QED
    BY <1>3, <1>4, FS_Injection
<1>6. \A n \in N : \E k \in I : p[k] = n
  <2>. HIDE DEF p
  <2>. QED
    BY <1>5 DEF Surjection
<1>. QED
  BY <1>1, <1>2, <1>6

-----------------------------------------------------------------------------
(* Filtered and sorted lists *)

LEMMA SeqFromFunction ==
    ASSUME NEW T, NEW n \in Nat, NEW t \in [1 .. n -> T]
    PROVE  t \in Seq(T) /\ Len(t) = n
  OBVIOUS

\* The list e of positions of s, as a list of elements.
Picks(t, s, e) ==
    /\ DOMAIN t = DOMAIN e
    /\ \A n \in DOMAIN e : e[n] \in DOMAIN s /\ t[n] = s[e[n]]
    /\ \A m, n \in DOMAIN e : e[m] = e[n] => m = n

\* f is the function of Sublist up to position m.
Filters(f, s, I, m) ==
    f = [k \in 0 .. m |->
            IF k = 0 THEN <<>>
            ELSE IF k \in I THEN Append(f[k - 1], s[k]) ELSE f[k - 1]]

\* There is one for every length.
LEMMA FiltersExist ==
    ASSUME NEW s, NEW I, NEW n \in Nat
    PROVE  \E f : Filters(f, s, I, n)
<1>. DEFINE Bad == {m \in Nat : ~ \E f : Filters(f, s, I, m)}
<1>. SUFFICES ASSUME Bad # {} PROVE FALSE
  OBVIOUS
<1>1. PICK m \in Bad : \A k \in Bad : m <= k
  <2>1. Bad \in SUBSET Nat
    OBVIOUS
  <2>. HIDE DEF Bad
  <2>. QED
    BY <2>1, LeastExists
<1>2. CASE m = 0
  <2>. DEFINE g == [k \in 0 .. 0 |-> <<>>]
  <2>1. g = [k \in 0 .. 0 |-> IF k = 0 THEN <<>>
                              ELSE IF k \in I THEN Append(g[k - 1], s[k]) ELSE g[k - 1]]
    OBVIOUS
  <2>2. Filters(g, s, I, m)
    <3>. HIDE DEF g
    <3>. QED
      BY <1>2, <2>1 DEF Filters
  <2>. QED
    BY <2>2
<1>3. CASE m # 0
  <2>1. m \in Nat /\ m - 1 \in Nat /\ ~(m <= m - 1)
    BY <1>3
  <2>2. m - 1 \notin Bad
    BY <1>1, <2>1
  <2>3. PICK f : Filters(f, s, I, m - 1)
    BY <2>1, <2>2
  <2>. DEFINE g == [k \in 0 .. m |->
                        IF k = 0 THEN <<>>
                        ELSE IF k \in I THEN Append(f[k - 1], s[k]) ELSE f[k - 1]]
  <2>4. \A k \in 0 .. m - 1 :
            f[k] = IF k = 0 THEN <<>> ELSE IF k \in I THEN Append(f[k - 1], s[k]) ELSE f[k - 1]
    BY <2>3 DEF Filters
  <2>5. \A k \in 0 .. m - 1 : g[k] = f[k]
    <3>. TAKE k \in 0 .. m - 1
    <3>1. k \in 0 .. m
      BY <2>1
    <3>2. g[k] = IF k = 0 THEN <<>> ELSE IF k \in I THEN Append(f[k - 1], s[k]) ELSE f[k - 1]
      BY <3>1
    <3>. HIDE DEF g
    <3>. QED
      BY <2>4, <3>2
  <2>6. \A k \in 0 .. m :
            g[k] = IF k = 0 THEN <<>> ELSE IF k \in I THEN Append(g[k - 1], s[k]) ELSE g[k - 1]
    <3>. TAKE k \in 0 .. m
    <3>1. CASE k = 0
      BY <3>1
    <3>2. CASE k # 0
      <4>1. k - 1 \in 0 .. m - 1
        BY <2>1, <3>2
      <4>2. g[k - 1] = f[k - 1]
        BY <2>5, <4>1
      <4>3. g[k] = IF k \in I THEN Append(f[k - 1], s[k]) ELSE f[k - 1]
        BY <3>2
      <4>. HIDE DEF g
      <4>. QED
        BY <3>2, <4>2, <4>3
    <3>. HIDE DEF g
    <3>. QED
      BY <3>1, <3>2
  <2>7. g = [k \in 0 .. m |-> g[k]]
    OBVIOUS
  <2>8. Filters(g, s, I, m)
    <3>. HIDE DEF g
    <3>. QED
      BY <2>6, <2>7 DEF Filters
  <2>. QED
    BY <2>8
<1>. QED
  BY <1>2, <1>3

\* What the function has picked up to position k.
Picked(t, s, T, I, k) ==
    /\ t \in Seq(T)
    /\ \E e \in Seq(Nat) : Picks(t, s, e) /\ {e[n] : n \in DOMAIN e} = I \cap (1 .. k)

LEMMA PickedOne ==
    ASSUME NEW T, NEW s \in Seq(T), NEW I, NEW k \in 1 .. Len(s),
           NEW t, Picked(t, s, T, I, k - 1)
    PROVE  IF k \in I THEN Picked(Append(t, s[k]), s, T, I, k) ELSE Picked(t, s, T, I, k)
<1>1. Len(s) \in Nat /\ DOMAIN s = 1 .. Len(s) /\ s[k] \in T /\ k \in Nat
  BY LenProperties, ElementOfSeq
<1>2. 1 .. k = (1 .. k - 1) \cup {k} /\ k \notin 1 .. k - 1
  BY <1>1
<1>3. PICK e \in Seq(Nat) : Picks(t, s, e) /\ {e[n] : n \in DOMAIN e} = I \cap (1 .. k - 1)
  BY DEF Picked
<1>4. CASE k \in I
  <2>1. t \in Seq(T) /\ Len(t) = Len(e) /\ Len(e) \in Nat /\ DOMAIN e = 1 .. Len(e) /\ DOMAIN t = 1 .. Len(e)
    <3>1. DOMAIN t = 1 .. Len(t) /\ DOMAIN e = 1 .. Len(e) /\ Len(t) \in Nat /\ Len(e) \in Nat
      BY LenProperties DEF Picked
    <3>2. DOMAIN t = DOMAIN e
      BY <1>3 DEF Picks
    <3>3. t \in Seq(T)
      BY DEF Picked
    <3>4. Len(t) <= Len(e)
      <4>. SUFFICES ASSUME ~(Len(t) <= Len(e)) PROVE FALSE
        OBVIOUS
      <4>1. Len(t) \in DOMAIN t /\ Len(t) \notin 1 .. Len(e)
        BY <3>1
      <4>. QED
        BY <3>1, <3>2, <4>1
    <3>5. Len(e) <= Len(t)
      <4>. SUFFICES ASSUME ~(Len(e) <= Len(t)) PROVE FALSE
        OBVIOUS
      <4>1. Len(e) \in DOMAIN e /\ Len(e) \notin 1 .. Len(t)
        BY <3>1
      <4>. QED
        BY <3>1, <3>2, <4>1
    <3>6. \A x, y \in Nat : x <= y /\ y <= x => x = y
      OBVIOUS
    <3>7. Len(t) = Len(e)
      BY <3>1, <3>4, <3>5, <3>6, Zenon
    <3>. QED
      BY <3>1, <3>3, <3>7
  <2>. DEFINE u == Append(t, s[k])
              d == Append(e, k)
  <2>2. /\ u \in Seq(T) /\ d \in Seq(Nat)
        /\ DOMAIN u = 1 .. Len(e) + 1 /\ DOMAIN d = 1 .. Len(e) + 1
        /\ \A n \in 1 .. Len(e) : u[n] = t[n] /\ d[n] = e[n]
        /\ u[Len(e) + 1] = s[k] /\ d[Len(e) + 1] = k
    BY <1>1, <2>1, AppendProperties
  <2>. HIDE DEF u, d
  <2>3. 1 .. Len(e) + 1 = (1 .. Len(e)) \cup {Len(e) + 1}
    BY <2>1
  <2>4. \A n \in 1 .. Len(e) : e[n] \in DOMAIN s /\ t[n] = s[e[n]] /\ e[n] # k
    BY <1>2, <1>3, <2>1 DEF Picks
  <2>5. \A n \in DOMAIN d : d[n] \in DOMAIN s /\ u[n] = s[d[n]]
    <3>. TAKE n \in DOMAIN d
    <3>1. CASE n \in 1 .. Len(e)
      BY <2>2, <2>4, <3>1
    <3>2. CASE n = Len(e) + 1
      BY <1>1, <2>2, <3>2
    <3>. QED
      BY <2>2, <2>3, <3>1, <3>2
  <2>6. \A m, n \in DOMAIN d : d[m] = d[n] => m = n
    <3>1. \A m, n \in 1 .. Len(e) : e[m] = e[n] => m = n
      BY <1>3, <2>1 DEF Picks
    <3>2. \A n \in 1 .. Len(e) : d[n] # d[Len(e) + 1]
      BY <2>2, <2>4
    <3>3. \A m, n \in 1 .. Len(e) : d[m] = d[n] => m = n
      BY <2>2, <3>1
    <3>4. DOMAIN d = (1 .. Len(e)) \cup {Len(e) + 1}
      BY <2>2, <2>3
    <3>. QED
      BY <3>2, <3>3, <3>4
  <2>7. {d[n] : n \in DOMAIN d} = {e[n] : n \in DOMAIN e} \cup {k}
    BY <2>1, <2>2, <2>3
  <2>8. {d[n] : n \in DOMAIN d} = I \cap (1 .. k)
    BY <1>2, <1>3, <1>4, <2>7
  <2>9. Picks(u, s, d)
    BY <2>2, <2>5, <2>6 DEF Picks
  <2>10. Picked(u, s, T, I, k)
    BY <2>2, <2>8, <2>9 DEF Picked
  <2>. QED
    BY <1>4, <2>10 DEF u
<1>5. CASE k \notin I
  <2>1. I \cap (1 .. k) = I \cap (1 .. k - 1)
    BY <1>2, <1>5
  <2>. QED
    BY <1>3, <1>5, <2>1 DEF Picked
<1>. QED
  BY <1>4, <1>5

LEMMA FiltersPick ==
    ASSUME NEW T, NEW s \in Seq(T), NEW I, NEW f, Filters(f, s, I, Len(s))
    PROVE  Picked(f[Len(s)], s, T, I, Len(s))
<1>. DEFINE Bad == {k \in 0 .. Len(s) : ~ Picked(f[k], s, T, I, k)}
<1>1. Len(s) \in Nat /\ Len(s) \in 0 .. Len(s)
  BY LenProperties
<1>2. \A k \in 0 .. Len(s) :
        f[k] = IF k = 0 THEN <<>> ELSE IF k \in I THEN Append(f[k - 1], s[k]) ELSE f[k - 1]
  BY DEF Filters
<1>. SUFFICES ASSUME Bad # {} PROVE FALSE
  BY <1>1
<1>3. PICK k \in Bad : \A m \in Bad : k <= m
  <2>1. Bad \in SUBSET Nat
    OBVIOUS
  <2>. HIDE DEF Bad
  <2>. QED
    BY <2>1, LeastExists
<1>4. CASE k = 0
  <2>1. f[k] = <<>> /\ <<>> \in Seq(T) /\ <<>> \in Seq(Nat)
    BY <1>1, <1>2, <1>4
  <2>2. Picks(<<>>, s, <<>>) /\ {<<>>[n] : n \in DOMAIN <<>>} = I \cap (1 .. k)
    BY <1>4 DEF Picks
  <2>3. Picked(f[k], s, T, I, k)
    BY <2>1, <2>2 DEF Picked
  <2>. QED
    BY <2>3
<1>5. CASE k # 0
  <2>1. k \in 1 .. Len(s) /\ k - 1 \in 0 .. Len(s) /\ ~(k <= k - 1)
    BY <1>1, <1>5
  <2>2. k - 1 \notin Bad
    BY <1>3, <2>1
  <2>3. Picked(f[k - 1], s, T, I, k - 1)
    BY <2>1, <2>2
  <2>4. f[k] = IF k \in I THEN Append(f[k - 1], s[k]) ELSE f[k - 1]
    BY <1>2, <1>5
  <2>5. Picked(f[k], s, T, I, k)
    <3>. HIDE DEF Bad
    <3>. QED
      BY <2>1, <2>3, <2>4, PickedOne
  <2>. QED
    BY <2>5
<1>. QED
  BY <1>4, <1>5

\* A filtered list has the elements at the positions in I, each once.
LEMMA SublistOf ==
    ASSUME NEW T, NEW s \in Seq(T), NEW I \in SUBSET DOMAIN s
    PROVE  /\ Sublist(s, I) \in Seq(T)
           /\ ToSet(Sublist(s, I)) = {s[k] : k \in I}
           /\ \E e : Picks(Sublist(s, I), s, e) /\ {e[n] : n \in DOMAIN e} = I
<1>. DEFINE f == CHOOSE f : f = [k \in 0 .. Len(s) |->
                        IF k = 0 THEN <<>>
                        ELSE IF k \in I THEN Append(f[k - 1], s[k]) ELSE f[k - 1]]
<1>1. Len(s) \in Nat /\ DOMAIN s = 1 .. Len(s)
  BY LenProperties
<1>2. Sublist(s, I) = f[Len(s)]
  BY DEF Sublist
<1>3. Filters(f, s, I, Len(s))
  <2>1. \E g : Filters(g, s, I, Len(s))
    BY <1>1, FiltersExist
  <2>. QED
    BY <2>1, Zenon DEF Filters
<1>. HIDE DEF f
<1>4. Picked(Sublist(s, I), s, T, I, Len(s))
  BY <1>2, <1>3, FiltersPick
<1>5. I \cap (1 .. Len(s)) = I
  BY <1>1
<1>6. PICK e : Picks(Sublist(s, I), s, e) /\ {e[n] : n \in DOMAIN e} = I
  BY <1>4, <1>5 DEF Picked
<1>7. ToSet(Sublist(s, I)) = {s[e[n]] : n \in DOMAIN e}
  BY <1>6 DEF ToSet, Picks
<1>8. {s[e[n]] : n \in DOMAIN e} = {s[k] : k \in I}
  <2>1. ASSUME NEW k \in I PROVE s[k] \in {s[e[n]] : n \in DOMAIN e}
    BY <1>6
  <2>2. ASSUME NEW n \in DOMAIN e PROVE s[e[n]] \in {s[k] : k \in I}
    BY <1>6
  <2>. QED
    BY <2>1, <2>2
<1>. QED
  BY <1>4, <1>6, <1>7, <1>8 DEF Picked

\* A sorted list has the same elements, each as often as before.
LEMMA SortedOf ==
    ASSUME NEW T, NEW s \in Seq(T), NEW keys \in [DOMAIN s -> Nat]
    PROVE  /\ SortedByKey(s, keys) \in Seq(T)
           /\ Len(SortedByKey(s, keys)) = Len(s)
           /\ ToSet(SortedByKey(s, keys)) = ToSet(s)
           /\ \E e : Picks(SortedByKey(s, keys), s, e)
<1>. DEFINE I == DOMAIN s
            before(i, k) == keys[i] > keys[k] \/ (keys[i] = keys[k] /\ i < k)
            R == {p \in I \X I : before(p[1], p[2])}
            place(k) == Cardinality({j \in I : before(j, k)}) + 1
            e == [n \in I |-> CHOOSE k \in I : place(k) = n]
<1>1. I = 1 .. Len(s) /\ Len(s) \in Nat
  BY LenProperties
<1>2. \A j, k \in I : <<j, k>> \in R <=> before(j, k)
  OBVIOUS
<1>3. Orders(R, I) /\ Cardinality(I) = Len(s)
  <2>1. IsFiniteSet(I) /\ Cardinality(I) = Len(s)
    <3>1. 1 \in Int /\ Len(s) \in Int /\ Len(s) \in Nat
      BY <1>1
    <3>2. IsFiniteSet(1 .. Len(s))
      BY <3>1, FS_Interval
    <3>3. Cardinality(1 .. Len(s)) = IF 1 > Len(s) THEN 0 ELSE Len(s) - 1 + 1
      BY <3>1, FS_Interval
    <3>. HIDE DEF I
    <3>. QED
      BY <1>1, <3>1, <3>2, <3>3
  <2>2. \A k \in I : keys[k] \in Nat /\ k \in Nat
    BY <1>1
  <2>3. \A i \in I : <<i, i>> \notin R
    BY <1>2, <2>2
  <2>4. \A i, j, k \in I : <<i, j>> \in R /\ <<j, k>> \in R => <<i, k>> \in R
    <3>. HIDE DEF I, R
    <3>. QED
      BY <1>2, <2>2
  <2>5. \A i, j \in I : i # j => <<i, j>> \in R \/ <<j, i>> \in R
    <3>. HIDE DEF I, R
    <3>. QED
      BY <1>2, <2>2
  <2>. HIDE DEF R, I
  <2>. QED
    BY <2>1, <2>3, <2>4, <2>5 DEF Orders
<1>4. /\ \A i, k \in I : Place(R, I, i) = Place(R, I, k) => i = k
      /\ \A n \in I : \E k \in I : Place(R, I, k) = n
      /\ \A k \in I : Place(R, I, k) \in I
  <2>. HIDE DEF R
  <2>. QED
    BY <1>1, <1>3, PlacesTaken, PlaceRange
<1>5. SortedByKey(s, keys) = [n \in I |-> s[e[n]]]
  <2>1. SortedByKey(s, keys) = [n \in I |-> s[CHOOSE k \in I : place(k) = n]]
    BY DEF SortedByKey
  <2>2. \A n \in I : e[n] = CHOOSE k \in I : place(k) = n
    OBVIOUS
  <2>. HIDE DEF e, place, I
  <2>. QED
    BY <2>1, <2>2
<1>6. \A k \in I : place(k) = Place(R, I, k)
  <2>. TAKE k \in I
  <2>1. {j \in I : before(j, k)} = {j \in I : <<j, k>> \in R}
    BY <1>2
  <2>. QED
    BY <2>1 DEF Place
<1>7. \A n \in I : e[n] \in I /\ Place(R, I, e[n]) = n
  <2>. HIDE DEF R, place
  <2>. QED
    BY <1>4, <1>6
<1>8. DOMAIN e = I
  OBVIOUS
<1>9. \A k \in I : e[Place(R, I, k)] = k
  <2>. HIDE DEF R, e
  <2>. QED
    BY <1>4, <1>7
<1>. HIDE DEF e, R, before
<1>10. SortedByKey(s, keys) \in Seq(T) /\ Len(SortedByKey(s, keys)) = Len(s)
  <2>1. \A n \in I : s[e[n]] \in T
    BY <1>1, <1>7, ElementOfSeq
  <2>2. [n \in I |-> s[e[n]]] \in [1 .. Len(s) -> T]
    BY <1>1, <2>1
  <2>. QED
    BY <1>1, <1>5, <2>2, SeqFromFunction
<1>11. ToSet(SortedByKey(s, keys)) = ToSet(s)
  <2>1. \A k \in I : Place(R, I, k) \in I /\ e[Place(R, I, k)] = k
    BY <1>4, <1>9
  <2>. HIDE DEF I
  <2>2. DOMAIN SortedByKey(s, keys) = I
    BY <1>5
  <2>3. \A n \in I : SortedByKey(s, keys)[n] = s[e[n]] /\ e[n] \in I
    BY <1>5, <1>7
  <2>4. ToSet(SortedByKey(s, keys)) = {s[e[n]] : n \in I}
    BY <2>2, <2>3 DEF ToSet
  <2>5. ToSet(s) = {s[k] : k \in I}
    BY DEF ToSet, I
  <2>6. ASSUME NEW k \in I PROVE s[k] \in {s[e[n]] : n \in I}
    BY <2>1
  <2>7. ASSUME NEW n \in I PROVE s[e[n]] \in {s[k] : k \in I}
    BY <2>3
  <2>. QED
    BY <2>4, <2>5, <2>6, <2>7, Zenon
<1>12. Picks(SortedByKey(s, keys), s, e)
  BY <1>7, <1>5, <1>8 DEF Picks
<1>. QED
  BY <1>10, <1>11, <1>12

\* e picks t from s, one of the elements with the same id.
PicksOnce(t, s, ids, e) ==
    /\ Picks(t, s, e)
    /\ \A m, n \in DOMAIN e : ids[e[m]] = ids[e[n]] => m = n
    /\ \A k \in DOMAIN s : \E n \in DOMAIN e : ids[e[n]] = ids[k]

\* Of elements with the same id the first stays: no id comes twice, none is lost.
LEMMA OnceEachOf ==
    ASSUME NEW T, NEW s \in Seq(T), NEW ids, DOMAIN ids = DOMAIN s
    PROVE  OnceEach(s, ids) \in Seq(T) /\ \E e : PicksOnce(OnceEach(s, ids), s, ids, e)
<1>. DEFINE I == {k \in DOMAIN s : \A j \in 1 .. k - 1 : ids[j] # ids[k]}
<1>1. DOMAIN s = 1 .. Len(s) /\ Len(s) \in Nat
  BY LenProperties
<1>2. PICK e : Picks(Sublist(s, I), s, e) /\ {e[n] : n \in DOMAIN e} = I
  <2>1. I \in SUBSET DOMAIN s
    OBVIOUS
  <2>. HIDE DEF I
  <2>. QED
    BY <2>1, SublistOf
<1>3. Sublist(s, I) \in Seq(T) /\ OnceEach(s, ids) = Sublist(s, I)
  BY SublistOf DEF OnceEach
<1>4. ASSUME NEW m \in DOMAIN e, NEW n \in DOMAIN e, ids[e[m]] = ids[e[n]] PROVE m = n
  <2>1. e[m] \in I /\ e[n] \in I
    BY <1>2
  <2>2. e[m] \in Nat /\ e[n] \in Nat /\ ~(e[m] < e[n]) /\ ~(e[n] < e[m])
    BY <1>1, <1>4, <2>1
  <2>3. e[m] = e[n]
    BY <2>2
  <2>. QED
    BY <1>2, <2>3 DEF Picks
<1>5. ASSUME NEW k \in DOMAIN s PROVE \E n \in DOMAIN e : ids[e[n]] = ids[k]
  <2>. DEFINE J == {j \in DOMAIN s : ids[j] = ids[k]}
  <2>1. PICK j \in J : \A i \in J : j <= i
    <3>1. J \in SUBSET Nat /\ J # {}
      BY <1>1
    <3>. HIDE DEF J
    <3>. QED
      BY <3>1, LeastExists
  <2>2. j \in I
    BY <1>1, <2>1
  <2>3. PICK n \in DOMAIN e : e[n] = j
    BY <1>2, <2>2
  <2>. QED
    BY <2>1, <2>3
<1>. QED
  BY <1>2, <1>3, <1>4, <1>5 DEF PicksOnce

\* What is picked from a list of distinct elements is distinct.
LEMMA PicksInjective ==
    ASSUME NEW t, NEW s, NEW e, Picks(t, s, e), IsInjective(s)
    PROVE  IsInjective(t)
  BY DEF Picks, IsInjective

-----------------------------------------------------------------------------
(* Lists that are joined *)

\* f is FlattenSeq's function on the first m lists.
Joins(f, ss, m) ==
    f = [i \in 1 .. m |-> IF i = 1 THEN ss[i] ELSE f[i - 1] \o ss[i]]

Elements(ss, i) == UNION {ToSet(ss[k]) : k \in 1 .. i}

LEMMA ElementsOfMore ==
    ASSUME NEW T, NEW ss \in Seq(Seq(T)), NEW i \in 1 .. Len(ss)
    PROVE  /\ Elements(ss, i) = Elements(ss, i - 1) \cup ToSet(ss[i])
           /\ Elements(ss, 0) = {}
<1>1. Len(ss) \in Nat
  BY LenProperties
<1>2. 1 .. i = (1 .. i - 1) \cup {i}
  BY <1>1
<1>3. 1 .. 0 = {}
  OBVIOUS
<1>. QED
  BY <1>2, <1>3 DEF Elements

LEMMA ToSetOfConcat ==
    ASSUME NEW T, NEW s \in Seq(T), NEW t \in Seq(T)
    PROVE  s \o t \in Seq(T) /\ ToSet(s \o t) = ToSet(s) \cup ToSet(t)
<1>1. /\ s \o t \in Seq(T) /\ Len(s) \in Nat /\ Len(t) \in Nat
      /\ DOMAIN (s \o t) = 1 .. Len(s) + Len(t)
      /\ DOMAIN s = 1 .. Len(s) /\ DOMAIN t = 1 .. Len(t)
      /\ \A i \in 1 .. Len(s) + Len(t) :
            (s \o t)[i] = IF i <= Len(s) THEN s[i] ELSE t[i - Len(s)]
  BY ConcatProperties, LenProperties
<1>2. ASSUME NEW i \in 1 .. Len(s) + Len(t) PROVE (s \o t)[i] \in ToSet(s) \cup ToSet(t)
  <2>1. CASE i <= Len(s)
    BY <1>1, <2>1 DEF ToSet
  <2>2. CASE ~(i <= Len(s))
    <3>1. i - Len(s) \in 1 .. Len(t)
      BY <1>1, <2>2
    <3>. QED
      BY <1>1, <2>2, <3>1 DEF ToSet
  <2>. QED
    BY <2>1, <2>2
<1>3. ASSUME NEW i \in DOMAIN s PROVE s[i] \in ToSet(s \o t)
  <2>1. i \in DOMAIN (s \o t) /\ (s \o t)[i] = s[i]
    BY <1>1
  <2>. QED
    BY <2>1 DEF ToSet
<1>4. ASSUME NEW i \in DOMAIN t PROVE t[i] \in ToSet(s \o t)
  <2>1. Len(s) + i \in DOMAIN (s \o t) /\ (s \o t)[Len(s) + i] = t[i]
    BY <1>1
  <2>. QED
    BY <2>1 DEF ToSet
<1>5. ToSet(s \o t) \subseteq ToSet(s) \cup ToSet(t)
  BY <1>1, <1>2 DEF ToSet
<1>6. ToSet(s) \cup ToSet(t) \subseteq ToSet(s \o t)
  BY <1>3, <1>4 DEF ToSet
<1>. QED
  BY <1>1, <1>5, <1>6

\* What such a function holds.
LEMMA JoinsHold ==
    ASSUME NEW T, NEW ss \in Seq(Seq(T)), NEW m \in 0 .. Len(ss), NEW f, Joins(f, ss, m)
    PROVE  \A i \in 1 .. m : f[i] \in Seq(T) /\ ToSet(f[i]) = Elements(ss, i)
<1>. DEFINE Bad == {i \in 1 .. m : ~(f[i] \in Seq(T) /\ ToSet(f[i]) = Elements(ss, i))}
<1>0. Len(ss) \in Nat /\ m \in Nat /\ m <= Len(ss)
  BY LenProperties
<1>1. \A i \in 1 .. m : f[i] = IF i = 1 THEN ss[i] ELSE f[i - 1] \o ss[i]
  BY DEF Joins
<1>2. \A i \in 1 .. m : ss[i] \in Seq(T) /\ i \in 1 .. Len(ss)
  BY <1>0, ElementOfSeq
<1>. SUFFICES ASSUME Bad # {} PROVE FALSE
  OBVIOUS
<1>3. PICK i \in Bad : \A k \in Bad : i <= k
  <2>1. Bad \in SUBSET Nat
    OBVIOUS
  <2>. HIDE DEF Bad
  <2>. QED
    BY <2>1, LeastExists
<1>4. CASE i = 1
  <2>1. f[i] = ss[i] /\ ss[i] \in Seq(T)
    BY <1>1, <1>2, <1>4
  <2>2. Elements(ss, i) = ToSet(ss[i])
    <3>1. i \in 1 .. Len(ss) /\ i - 1 = 0
      BY <1>2, <1>4
    <3>2. Elements(ss, i) = Elements(ss, i - 1) \cup ToSet(ss[i]) /\ Elements(ss, 0) = {}
      BY <3>1, ElementsOfMore
    <3>. QED
      BY <3>1, <3>2
  <2>. QED
    BY <2>1, <2>2
<1>5. CASE i # 1
  <2>1. i - 1 \in 1 .. m /\ i - 1 \notin Bad
    <3>1. i \in 1 .. m /\ ~(i <= i - 1)
      BY <1>0
    <3>2. i - 1 \notin Bad
      BY <1>3, <3>1
    <3>. QED
      BY <1>0, <1>5, <3>1, <3>2
  <2>2. f[i - 1] \in Seq(T) /\ ToSet(f[i - 1]) = Elements(ss, i - 1)
    BY <2>1
  <2>3. f[i] = f[i - 1] \o ss[i] /\ ss[i] \in Seq(T)
    BY <1>1, <1>2, <1>5
  <2>4. f[i] \in Seq(T) /\ ToSet(f[i]) = ToSet(f[i - 1]) \cup ToSet(ss[i])
    BY <2>2, <2>3, ToSetOfConcat
  <2>5. Elements(ss, i) = Elements(ss, i - 1) \cup ToSet(ss[i])
    BY <1>2, ElementsOfMore
  <2>. QED
    BY <2>2, <2>4, <2>5
<1>. QED
  BY <1>4, <1>5

\* There is one for every number of lists.
LEMMA JoinsExist ==
    ASSUME NEW T, NEW ss \in Seq(Seq(T)), NEW n \in Nat
    PROVE  \E f : Joins(f, ss, n)
<1>. DEFINE Bad == {m \in Nat : ~ \E f : Joins(f, ss, m)}
<1>. SUFFICES ASSUME Bad # {} PROVE FALSE
  OBVIOUS
<1>1. PICK m \in Bad : \A k \in Bad : m <= k
  <2>1. Bad \in SUBSET Nat
    OBVIOUS
  <2>. HIDE DEF Bad
  <2>. QED
    BY <2>1, LeastExists
<1>2. CASE m = 0
  <2>1. Joins([i \in 1 .. 0 |-> 0], ss, m)
    BY <1>2 DEF Joins
  <2>. QED
    BY <2>1
<1>3. CASE m # 0
  <2>1. m \in Nat /\ m - 1 \in Nat /\ ~(m <= m - 1)
    BY <1>3
  <2>2. m - 1 \notin Bad
    BY <1>1, <2>1
  <2>3. PICK f : Joins(f, ss, m - 1)
    BY <2>1, <2>2
  <2>. DEFINE g == [i \in 1 .. m |-> IF i = 1 THEN ss[i] ELSE f[i - 1] \o ss[i]]
  <2>4. DOMAIN f = 1 .. m - 1 /\ \A i \in 1 .. m - 1 : f[i] = IF i = 1 THEN ss[i] ELSE f[i - 1] \o ss[i]
    BY <2>3 DEF Joins
  <2>5. \A i \in 1 .. m - 1 : i \in 1 .. m /\ g[i] = f[i]
    <3>. TAKE i \in 1 .. m - 1
    <3>1. i \in 1 .. m
      BY <2>1
    <3>2. g[i] = IF i = 1 THEN ss[i] ELSE f[i - 1] \o ss[i]
      BY <3>1
    <3>. HIDE DEF g
    <3>. QED
      BY <2>4, <3>1, <3>2
  <2>6. \A i \in 1 .. m : g[i] = IF i = 1 THEN ss[i] ELSE g[i - 1] \o ss[i]
    <3>. TAKE i \in 1 .. m
    <3>1. CASE i = 1
      BY <3>1
    <3>2. CASE i # 1
      <4>1. i - 1 \in 1 .. m - 1
        BY <2>1, <3>2
      <4>2. g[i - 1] = f[i - 1]
        BY <2>5, <4>1
      <4>3. g[i] = f[i - 1] \o ss[i]
        BY <3>2
      <4>. HIDE DEF g
      <4>. QED
        BY <3>2, <4>2, <4>3
    <3>. HIDE DEF g
    <3>. QED
      BY <3>1, <3>2
  <2>7. g = [i \in 1 .. m |-> g[i]]
    OBVIOUS
  <2>8. Joins(g, ss, m)
    <3>. HIDE DEF g
    <3>. QED
      BY <2>6, <2>7 DEF Joins
  <2>. QED
    BY <2>8
<1>. QED
  BY <1>2, <1>3

\* A joined list has the elements of all lists.
LEMMA FlattenOf ==
    ASSUME NEW T, NEW ss \in Seq(Seq(T))
    PROVE  /\ FlattenSeq(ss) \in Seq(T)
           /\ ToSet(FlattenSeq(ss)) = UNION {ToSet(ss[i]) : i \in DOMAIN ss}
<1>1. Len(ss) \in Nat /\ DOMAIN ss = 1 .. Len(ss)
  BY LenProperties
<1>2. CASE Len(ss) = 0
  <2>1. FlattenSeq(ss) = ss /\ ss = <<>>
    BY <1>2, EmptySeq DEF FlattenSeq
  <2>2. DOMAIN ss = {}
    BY <1>1, <1>2
  <2>. QED
    BY <2>1, <2>2, EmptySeq DEF ToSet
<1>3. CASE Len(ss) # 0
  <2>. DEFINE f == CHOOSE f : f = [i \in 1 .. Len(ss) |-> IF i = 1 THEN ss[i] ELSE f[i - 1] \o ss[i]]
  <2>1. FlattenSeq(ss) = f[Len(ss)]
    BY <1>3 DEF FlattenSeq
  <2>2. Joins(f, ss, Len(ss))
    BY <1>1, JoinsExist DEF Joins
  <2>3. Len(ss) \in 1 .. Len(ss) /\ Len(ss) \in 0 .. Len(ss)
    BY <1>1, <1>3
  <2>. HIDE DEF f
  <2>4. FlattenSeq(ss) \in Seq(T) /\ ToSet(FlattenSeq(ss)) = Elements(ss, Len(ss))
    BY <2>1, <2>2, <2>3, JoinsHold
  <2>. QED
    BY <1>1, <2>4 DEF Elements
<1>. QED
  BY <1>2, <1>3

-----------------------------------------------------------------------------
(* Lists without duplicates *)

LEMMA SeqOfToSet ==
    ASSUME NEW T, NEW s \in Seq(T), NEW U, ToSet(s) \subseteq U
    PROVE  s \in Seq(U)
<1>1. Len(s) \in Nat /\ DOMAIN s = 1 .. Len(s) /\ s = [k \in 1 .. Len(s) |-> s[k]]
  BY LenProperties
<1>2. \A k \in 1 .. Len(s) : s[k] \in U
  BY <1>1 DEF ToSet
<1>3. s \in [1 .. Len(s) -> U]
  BY <1>1, <1>2
<1>. QED
  BY <1>1, <1>3, SeqFromFunction

\* The orders in which a finite set may be listed.
LEMMA SetToSeqsOf ==
    ASSUME NEW S, IsFiniteSet(S), NEW t \in SetToSeqs(S)
    PROVE  t \in Seq(S) /\ IsInjective(t) /\ ToSet(t) = S
<1>. DEFINE D == 1 .. Cardinality(S)
<1>1. Cardinality(S) \in Nat
  BY FS_CardinalityType
<1>2. t \in [D -> S] /\ \A i, j \in D : i # j => t[i] # t[j]
  BY DEF SetToSeqs
<1>3. t \in Injection(D, S) /\ IsInjective(t)
  BY <1>2 DEF Injection, IsInjective
<1>4. IsFiniteSet(D) /\ Cardinality(D) = Cardinality(S)
  BY <1>1, FS_Interval
<1>5. t \in Surjection(D, S)
  <2>. HIDE DEF D
  <2>. QED
    BY <1>3, <1>4, FS_Injection
<1>6. ToSet(t) = S
  <2>. HIDE DEF D
  <2>. QED
    BY <1>2, <1>5 DEF ToSet, Surjection
<1>7. t \in Seq(S)
  BY <1>1, <1>2, SeqFromFunction
<1>. QED
  BY <1>3, <1>6, <1>7

LEMMA OnceEachItself ==
    ASSUME NEW T, NEW s \in Seq(T)
    PROVE  /\ OnceEach(s, s) \in Seq(T)
           /\ IsInjective(OnceEach(s, s))
           /\ ToSet(OnceEach(s, s)) = ToSet(s)
<1>. DEFINE t == OnceEach(s, s)
<1>1. PICK e : PicksOnce(t, s, s, e)
  BY OnceEachOf
<1>2. t \in Seq(T)
  BY OnceEachOf
<1>. HIDE DEF t
<1>3. IsInjective(t)
  BY <1>1 DEF Picks, PicksOnce, IsInjective
<1>4. ToSet(t) \subseteq ToSet(s)
  BY <1>1 DEF Picks, PicksOnce, ToSet
<1>5. ToSet(s) \subseteq ToSet(t)
  BY <1>1 DEF Picks, PicksOnce, ToSet
<1>. QED
  BY <1>2, <1>3, <1>4, <1>5 DEF t

LEMMA ConcatInjective ==
    ASSUME NEW T, NEW s \in Seq(T), NEW t \in Seq(T),
           IsInjective(s), IsInjective(t), ToSet(s) \cap ToSet(t) = {}
    PROVE  IsInjective(s \o t)
<1>. DEFINE u == s \o t
<1>1. /\ Len(s) \in Nat /\ Len(t) \in Nat
      /\ DOMAIN u = 1 .. Len(s) + Len(t)
      /\ DOMAIN s = 1 .. Len(s) /\ DOMAIN t = 1 .. Len(t)
      /\ \A i \in 1 .. Len(s) + Len(t) : u[i] = IF i <= Len(s) THEN s[i] ELSE t[i - Len(s)]
  BY ConcatProperties, LenProperties
<1>. HIDE DEF u
<1>2. ASSUME NEW i \in DOMAIN u
      PROVE  IF i <= Len(s) THEN i \in DOMAIN s /\ u[i] = s[i] /\ u[i] \in ToSet(s)
             ELSE i - Len(s) \in DOMAIN t /\ u[i] = t[i - Len(s)] /\ u[i] \in ToSet(t)
  <2>1. CASE i <= Len(s)
    <3>1. i \in DOMAIN s /\ u[i] = s[i]
      BY <1>1, <2>1
    <3>. QED
      BY <2>1, <3>1 DEF ToSet
  <2>2. CASE ~(i <= Len(s))
    <3>1. i - Len(s) \in DOMAIN t /\ u[i] = t[i - Len(s)]
      BY <1>1, <2>2
    <3>. QED
      BY <2>2, <3>1 DEF ToSet
  <2>. QED
    BY <2>1, <2>2
<1>3. ASSUME NEW i \in DOMAIN u, NEW j \in DOMAIN u, u[i] = u[j] PROVE i = j
  <2>0. i \in Nat /\ j \in Nat
    BY <1>1
  <2>1. CASE i <= Len(s) /\ j <= Len(s)
    <3>1. i \in DOMAIN s /\ j \in DOMAIN s /\ s[i] = s[j]
      BY <1>2, <1>3, <2>1
    <3>. QED
      BY <3>1 DEF IsInjective
  <2>2. CASE ~(i <= Len(s)) /\ ~(j <= Len(s))
    <3>1. i - Len(s) \in DOMAIN t /\ j - Len(s) \in DOMAIN t /\ t[i - Len(s)] = t[j - Len(s)]
      BY <1>2, <1>3, <2>2
    <3>2. i - Len(s) = j - Len(s)
      BY <3>1 DEF IsInjective
    <3>. QED
      BY <1>1, <2>0, <3>2
  <2>3. CASE (i <= Len(s)) # (j <= Len(s))
    <3>1. u[i] \in ToSet(s) \cap ToSet(t)
      BY <1>2, <1>3, <2>3
    <3>. QED
      BY <3>1
  <2>. QED
    BY <2>1, <2>2, <2>3
<1>. QED
  BY <1>3 DEF IsInjective, u

\* The one order that stands for a set.
LEMMA SetToSeqOf ==
    ASSUME NEW S, IsFiniteSet(S)
    PROVE  SetToSeq(S) \in Seq(S) /\ IsInjective(SetToSeq(S)) /\ ToSet(SetToSeq(S)) = S
<1>. DEFINE D == 1 .. Cardinality(S)
<1>1. Cardinality(S) \in Nat /\ ExistsBijection(D, S)
  BY FS_CardinalityType
<1>2. PICK f : f \in Bijection(D, S)
  BY <1>1 DEF ExistsBijection
<1>3. f \in [D -> S] /\ IsInjective(f)
  BY <1>2 DEF Bijection, Injection
<1>4. SetToSeq(S) \in [D -> S] /\ IsInjective(SetToSeq(S))
  BY <1>3 DEF SetToSeq
<1>5. \A i, j \in D : i # j => SetToSeq(S)[i] # SetToSeq(S)[j]
  BY <1>4 DEF IsInjective
<1>6. SetToSeq(S) \in SetToSeqs(S)
  BY <1>4, <1>5 DEF SetToSeqs
<1>. QED
  BY <1>6, SetToSeqsOf

\* A finite set of numbers has a greatest one.
LEMMA MaxOf ==
    ASSUME NEW S \in SUBSET Nat, IsFiniteSet(S), S # {}
    PROVE  Max(S) \in S /\ \A y \in S : y <= Max(S)
<1>. DEFINE R == {p \in S \X S : p[1] > p[2]}
<1>1. \A i, j \in S : <<i, j>> \in R <=> i > j
  OBVIOUS
<1>. HIDE DEF R
<1>2. Orders(R, S)
  <2>1. \A i, j, k \in S : <<i, j>> \in R /\ <<j, k>> \in R => <<i, k>> \in R
    BY <1>1
  <2>2. \A i, j \in S : i # j => <<i, j>> \in R \/ <<j, i>> \in R
    BY <1>1
  <2>3. \A i \in S : <<i, i>> \notin R
    BY <1>1
  <2>. QED
    BY <2>1, <2>2, <2>3 DEF Orders
<1>3. Cardinality(S) \in Nat /\ Cardinality(S) # 0
  BY FS_CardinalityType, FS_EmptySet
<1>4. PICK k \in S : Place(R, S, k) = 1
  <2>1. 1 \in 1 .. Cardinality(S)
    BY <1>3
  <2>. QED
    BY <1>2, <2>1, PlacesTaken
<1>5. ASSUME NEW y \in S PROVE y <= k
  <2>1. ~(Place(R, S, y) < 1)
    BY <1>2, PlaceRange
  <2>2. <<y, k>> \notin R
    BY <1>2, <1>4, <2>1, LaterPlace
  <2>. QED
    BY <1>1, <2>2
<1>6. \E x \in S : \A y \in S : x >= y
  BY <1>5
<1>7. Max(S) \in S /\ \A y \in S : Max(S) >= y
  BY <1>6 DEF Max
<1>. QED
  BY <1>7
=============================================================================
