----------------------------- MODULE TableProofs -----------------------------
(***************************************************************************)
(* What the passes over result rows do to rows of any number and content.  *)
(*                                                                         *)
(* Induction over the elements a pass has read goes through the set of the *)
(* counts at which a claim holds: it has 0 and the successor of each of    *)
(* its members.  The lemmas it takes are used for the other passes, too.   *)
(***************************************************************************)
EXTENDS Table, FiniteSetTheorems, SequenceTheorems, WellFoundedInduction, TLAPS

----------------------------------------------------------------------------
(* Counts and positions. *)

\* Induction up to n, over a set of counts.
LEMMA UpTo ==
  ASSUME NEW n \in Nat, NEW G, 0 \in G, \A i \in 1..n : i - 1 \in G => i \in G
  PROVE  \A i \in 0..n : i \in G
<1> SUFFICES ASSUME NEW j \in 0..n, j \notin G PROVE FALSE
  OBVIOUS
<1> DEFINE T == {i \in 0..n : i \notin G}
<1>1. T \subseteq Nat /\ T # {}
  OBVIOUS
<1>2. PICK i \in T : \A k \in T : ~ (<<k, i>> \in OpToRel(<, Nat))
  BY <1>1, WFMin, NatLessThanWellFounded
<1>3. \A k \in T : ~ (k < i)
  BY <1>1, <1>2 DEF OpToRel
<1>4. i \in 1..n /\ i - 1 \in 0..n
  <2>1. i \in 0..n /\ i # 0
    OBVIOUS
  <2> QED BY <2>1
<1>5. i - 1 \notin T
  BY <1>3, <1>4
<1> QED
  BY <1>2, <1>4, <1>5

\* A non-empty set of positions has a first one.
LEMMA MinExists ==
  ASSUME NEW S \in SUBSET Nat, S # {}
  PROVE  Min(S) \in S /\ \A y \in S : Min(S) <= y
<1>1. PICK i \in S : \A j \in S : ~ (<<j, i>> \in OpToRel(<, Nat))
  BY WFMin, NatLessThanWellFounded
<1>2. \A j \in S : ~ (j < i)
  BY <1>1 DEF OpToRel
<1>3. \A j \in S : i <= j
  BY <1>2
<1> QED BY <1>3 DEF Min

\* A non-empty set of positions has a last one (the loop over the services
\* has a last match).
LEMMA MaxExists ==
  ASSUME NEW n \in Nat, NEW S \in SUBSET (1..n), S # {}
  PROVE  Max(S) \in S /\ \A x \in S : Max(S) >= x
<1> DEFINE T == {n - x : x \in S}
<1>1. T \subseteq Nat /\ T # {}
  <2>1. ASSUME NEW x \in S PROVE n - x \in Nat
    OBVIOUS
  <2>2. PICK x \in S : TRUE
    OBVIOUS
  <2> QED BY <2>1, <2>2
<1>2. PICK t \in T : \A u \in T : ~ (<<u, t>> \in OpToRel(<, Nat))
  BY <1>1, WFMin, NatLessThanWellFounded
<1>3. \A u \in T : ~ (u < t)
  BY <1>1, <1>2 DEF OpToRel
<1>4. PICK x \in S : t = n - x
  BY <1>2
<1>5. \A y \in S : x >= y
  BY <1>3, <1>4
<1> QED
  BY <1>5 DEF Max

\* The position that is least among some is the first of them.
LEMMA MinIs ==
  ASSUME NEW S \in SUBSET Nat, NEW x \in S, \A y \in S : x <= y
  PROVE  Min(S) = x
<1> DEFINE m == Min(S)
<1>1. m \in S /\ \A y \in S : m <= y
  BY DEF Min
<1> HIDE DEF m
<1>2. m \in Nat /\ x \in Nat
  BY <1>1
<1>3. m <= x /\ x <= m
  BY <1>1
<1>4. m = x
  BY <1>2, <1>3
<1> QED BY <1>4 DEF m

\* The position that is greatest among some is the last of them.
LEMMA MaxIs ==
  ASSUME NEW S \in SUBSET Nat, NEW x \in S, \A y \in S : x >= y
  PROVE  Max(S) = x
<1> DEFINE m == Max(S)
<1>1. m \in S /\ \A y \in S : m >= y
  BY DEF Max
<1> HIDE DEF m
<1>2. m \in Nat /\ x \in Nat
  BY <1>1
<1>3. m >= x /\ x >= m
  BY <1>1
<1>4. m = x
  BY <1>2, <1>3
<1> QED BY <1>4 DEF m

\* What a sequence is of, it is also of anything more.
LEMMA SeqOfMore ==
  ASSUME NEW A, NEW B, A \subseteq B, NEW s \in Seq(A)
  PROVE  s \in Seq(B)
<1>1. s \in [1..Len(s) -> B] /\ Len(s) \in Nat
  OBVIOUS
<1> QED BY <1>1, SeqDef

----------------------------------------------------------------------------
(* Positions in order. *)

\* Places are counted one by one.
LEMMA PlaceStep ==
  ASSUME NEW N \in Nat, NEW F \in SUBSET (1..N)
  PROVE  /\ Place(F, 0) = 0
         /\ \A n \in 0..N : Place(F, n) \in 0..n
         /\ \A n \in 1..N : Place(F, n) = IF n \in F THEN Place(F, n - 1) + 1
                                          ELSE Place(F, n - 1)
         /\ Place(F, N) = Cardinality(F)
<1> DEFINE U(n) == {j \in F : j <= n}
<1>0. \A j \in F : j \in 1..N
  OBVIOUS
<1>1. \A n \in 0..N : IsFiniteSet(U(n)) /\ Cardinality(U(n)) \in Nat
  <2>1. IsFiniteSet(1..N)
    BY FS_Interval
  <2>2. \A n \in 0..N : U(n) \in SUBSET (1..N)
    OBVIOUS
  <2> HIDE DEF U
  <2> QED BY <2>1, <2>2, FS_Subset, FS_CardinalityType
<1>2. Place(F, 0) = 0
  <2>1. U(0) = {}
    <3>1. \A j \in F : ~(j <= 0)
      BY <1>0
    <3> QED BY <3>1, Zenon
  <2> QED BY <2>1, FS_EmptySet DEF Place
<1>3. ASSUME NEW n \in 1..N
      PROVE  Place(F, n) = IF n \in F THEN Place(F, n - 1) + 1 ELSE Place(F, n - 1)
  <2>0. n - 1 \in 0..N /\ \A j \in F : j <= n <=> j <= n - 1 \/ j = n
    BY <1>0
  <2>1. n \notin F => U(n) = U(n - 1)
    BY <2>0
  <2>2. n \in F => U(n) = U(n - 1) \cup {n} /\ n \notin U(n - 1)
    <3>1. ~(n <= n - 1) /\ n <= n
      OBVIOUS
    <3> QED BY <2>0, <3>1, Zenon
  <2>3. IsFiniteSet(U(n - 1)) /\ Cardinality(U(n - 1)) \in Nat
    BY <1>1, <2>0
  <2>4. Place(F, n) = Cardinality(U(n)) /\ Place(F, n - 1) = Cardinality(U(n - 1))
    BY DEF Place
  <2> HIDE DEF U
  <2>5. n \in F => Cardinality(U(n)) = Cardinality(U(n - 1)) + 1
    BY <2>2, <2>3, FS_AddElement
  <2> QED BY <2>1, <2>4, <2>5
<1>4. \A n \in 0..N : Place(F, n) \in 0..n
  <2> DEFINE G == {n \in 0..N : Place(F, n) \in 0..n}
  <2>1. 0 \in G
    BY <1>2
  <2>2. \A n \in 1..N : n - 1 \in G => n \in G
    BY <1>3
  <2> HIDE DEF G
  <2>3. \A n \in 0..N : n \in G
    BY <2>1, <2>2, UpTo
  <2> QED BY <2>3 DEF G
<1>5. Place(F, N) = Cardinality(F)
  <2>1. U(N) = F
    <3>1. \A j \in F : j <= N
      BY <1>0
    <3> QED BY <3>1, Zenon
  <2> QED BY <2>1 DEF Place
<1> QED BY <1>2, <1>3, <1>4, <1>5

\* Later members have greater places.
LEMMA PlaceGrows ==
  ASSUME NEW N \in Nat, NEW F \in SUBSET (1..N)
  PROVE  /\ \A n \in 0..N : \A i \in 0..n : Place(F, i) <= Place(F, n)
         /\ \A i, j \in F : i < j => Place(F, i) < Place(F, j)
         /\ \A n \in 0..N : \A i \in F : i <= n => Place(F, i) \in 1..Place(F, n)
<1>1. /\ \A n \in 0..N : Place(F, n) \in Nat
      /\ \A n \in 1..N : Place(F, n) = IF n \in F THEN Place(F, n - 1) + 1 ELSE Place(F, n - 1)
  BY PlaceStep
<1>2. \A n \in 0..N : \A i \in 0..n : Place(F, i) <= Place(F, n)
  <2> DEFINE G == {n \in 0..N : \A i \in 0..n : Place(F, i) <= Place(F, n)}
  <2>1. 0 \in G
    BY <1>1
  <2>2. ASSUME NEW n \in 1..N, n - 1 \in G PROVE n \in G
    <3>1. n - 1 \in 0..N /\ n \in 0..N /\ \A i \in 0..n : i \in 0..n-1 \/ i = n
      OBVIOUS
    <3>2. \A i \in 0..n-1 : Place(F, i) <= Place(F, n - 1) /\ Place(F, i) \in Nat
      BY <1>1, <2>2
    <3>3. Place(F, n - 1) <= Place(F, n) /\ Place(F, n) \in Nat /\ Place(F, n - 1) \in Nat
      BY <1>1, <3>1
    <3> QED BY <3>1, <3>2, <3>3
  <2> HIDE DEF G
  <2>3. \A n \in 0..N : n \in G
    BY <2>1, <2>2, UpTo
  <2> QED BY <2>3 DEF G
<1>3. ASSUME NEW i \in F, NEW j \in F, i < j PROVE Place(F, i) < Place(F, j)
  <2>1. i \in 0..j-1 /\ j - 1 \in 0..N /\ j \in 1..N /\ i \in 0..N
    BY <1>3
  <2>2. Place(F, i) <= Place(F, j - 1)
    BY <1>2, <2>1
  <2> QED BY <1>1, <2>1, <2>2
<1>4. ASSUME NEW n \in 0..N, NEW i \in F, i <= n PROVE Place(F, i) \in 1..Place(F, n)
  <2>1. i \in 1..N /\ i - 1 \in 0..N /\ i \in 0..n
    BY <1>4
  <2>2. Place(F, i) = Place(F, i - 1) + 1 /\ Place(F, i - 1) \in Nat /\ Place(F, n) \in Nat
    BY <1>1, <2>1
  <2>3. Place(F, i) <= Place(F, n)
    BY <1>2, <2>1
  <2> QED BY <2>2, <2>3
<1> QED BY <1>2, <1>3, <1>4

\* Every place is that of a member.
LEMMA PlaceTaken ==
  ASSUME NEW N \in Nat, NEW F \in SUBSET (1..N), NEW n \in 0..N, NEW k \in 1..Place(F, n)
  PROVE  \E i \in F : i <= n /\ Place(F, i) = k
<1> DEFINE G == {m \in 0..N : \A p \in 1..Place(F, m) : \E i \in F : i <= m /\ Place(F, i) = p}
<1>0. \A m : 0..m \subseteq Nat
  OBVIOUS
<1>1. /\ Place(F, 0) = 0
      /\ \A m \in 0..N : Place(F, m) \in Nat
      /\ \A m \in 1..N : Place(F, m) = IF m \in F THEN Place(F, m - 1) + 1 ELSE Place(F, m - 1)
  <2> HIDE DEF G
  <2> QED BY <1>0, PlaceStep
<1>2. 0 \in G
  BY <1>1
<1>3. ASSUME NEW m \in 1..N, m - 1 \in G PROVE m \in G
  <2> SUFFICES ASSUME NEW p \in 1..Place(F, m)
               PROVE  \E i \in F : i <= m /\ Place(F, i) = p
    OBVIOUS
  <2>1. m - 1 \in 0..N /\ Place(F, m - 1) \in Nat /\ Place(F, m) \in Nat
    BY <1>1
  <2>2. CASE p \in 1..Place(F, m - 1)
    BY <1>3, <2>2
  <2>3. CASE p \notin 1..Place(F, m - 1)
    <3>1. m \in F /\ p = Place(F, m)
      BY <1>1, <2>1, <2>3
    <3> QED BY <3>1
  <2> QED BY <2>2, <2>3
<1> HIDE DEF G
<1>4. \A m \in 0..N : m \in G
  BY <1>2, <1>3, UpTo
<1> QED BY <1>4 DEF G

\* The first position of a key leads.
LEMMA Leader ==
  ASSUME NEW N \in Nat, NEW S \in SUBSET (1..N), NEW key, NEW j \in S
  PROVE  \E i \in Leading(S, key) : i <= j /\ key[i] = key[j]
<1> DEFINE T == {i \in S : key[i] = key[j]}
<1>0. \A i \in S : i \in Nat
  OBVIOUS
<1>1. T \in SUBSET Nat /\ j \in T
  BY <1>0
<1>2. Min(T) \in T /\ \A i \in T : Min(T) <= i
  BY <1>1, MinExists
<1>3. Min(T) \in Leading(S, key)
  <2> DEFINE m == Min(T)
  <2> HIDE DEF m
  <2>1. ASSUME NEW i \in S, i < m PROVE key[i] # key[m]
    <3>1. i \in Nat /\ m \in Nat
      BY <1>0, <1>2 DEF m
    <3>2. ~(m <= i)
      BY <2>1, <3>1
    <3> QED BY <1>2, <3>2 DEF m
  <2>2. m \in S
    BY <1>2 DEF m
  <2> QED BY <2>1, <2>2 DEF Leading, m
<1> QED BY <1>1, <1>2, <1>3

\* Leading positions have different keys.
LEMMA LeadersDiffer ==
  ASSUME NEW N \in Nat, NEW S \in SUBSET (1..N), NEW key
  PROVE  /\ Leading(S, key) \in SUBSET (1..N)
         /\ \A i, j \in Leading(S, key) : key[i] = key[j] => i = j
<1>1. \A i, j \in Leading(S, key) : i \in 1..N /\ j \in 1..N /\ (key[i] = key[j] => ~(i < j) /\ ~(j < i))
  BY DEF Leading
<1>2. \A i, j \in 1..N : ~(i < j) /\ ~(j < i) => i = j
  OBVIOUS
<1> QED BY <1>1, <1>2 DEF Leading

\* The keys of the positions that lead are kept, each at its place.
KeptBefore(n, S, key, kept) ==
  \A i \in Leading(S, key) : i < n => kept[Place(Leading(S, key), i)] = key[i]

\* A position leads iff its key is not among those kept so far.
LEMMA IsNew ==
  ASSUME NEW N \in Nat, NEW S \in SUBSET (1..N), NEW key, NEW n \in 1..N, NEW kept,
         KeptBefore(n, S, key, kept)
  PROVE  LET F == Leading(S, key) IN
         n \in F <=> n \in S /\ \A k \in 1..Place(F, n - 1) : kept[k] # key[n]
<1> DEFINE F == Leading(S, key)
<1>1. F \in SUBSET (1..N) /\ F \subseteq S
  BY DEF Leading
<1>2. ASSUME n \in F PROVE n \in S /\ \A k \in 1..Place(F, n - 1) : kept[k] # key[n]
  <2> SUFFICES ASSUME NEW k \in 1..Place(F, n - 1) PROVE kept[k] # key[n]
    BY <1>1, <1>2
  <2>1. n - 1 \in 0..N
    OBVIOUS
  <2> HIDE DEF F
  <2>2. PICK i \in F : i <= n - 1 /\ Place(F, i) = k
    BY <1>1, <2>1, PlaceTaken
  <2>3. i \in S /\ i < n /\ kept[k] = key[i]
    BY <1>1, <2>2 DEF F, KeptBefore
  <2> QED BY <1>2, <2>3 DEF F, Leading
<1>3. ASSUME n \in S, n \notin F PROVE \E k \in 1..Place(F, n - 1) : kept[k] = key[n]
  <2>1. PICK j \in S : j < n /\ key[j] = key[n]
    BY <1>3 DEF Leading
  <2>2. PICK i \in F : i <= j /\ key[i] = key[j]
    BY Leader
  <2>3. i \in 1..N /\ i <= n - 1 /\ i < n /\ n - 1 \in 0..N
    BY <1>1, <2>1, <2>2
  <2> HIDE DEF F
  <2>4. Place(F, i) \in 1..Place(F, n - 1)
    BY <1>1, <2>3, PlaceGrows
  <2> QED BY <2>1, <2>2, <2>3, <2>4 DEF F, KeptBefore
<1> HIDE DEF F
<1> QED BY <1>1, <1>2, <1>3 DEF F

\* s holds v of the first n positions of F, as many as fit.
InOrderTo(s, F, max, v, n) ==
  /\ Len(s) = IF Place(F, n) < max THEN Place(F, n) ELSE max
  /\ \A i \in F : i <= n /\ Place(F, i) <= max => s[Place(F, i)] = v[i]

\* A position that is passed over, and one that is appended.
LEMMA InOrderStep ==
  ASSUME NEW N \in Nat, NEW F \in SUBSET (1..N), NEW max \in Nat, NEW v, NEW n \in 1..N,
         NEW V, NEW s \in Seq(V), InOrderTo(s, F, max, v, n - 1), v[n] \in V
  PROVE  /\ n \notin F \/ Len(s) >= max => InOrderTo(s, F, max, v, n)
         /\ n \in F /\ ~(Len(s) >= max) => InOrderTo(Append(s, v[n]), F, max, v, n)
<1>1. /\ n - 1 \in 0..N /\ n \in 0..N
      /\ Place(F, n) = IF n \in F THEN Place(F, n - 1) + 1 ELSE Place(F, n - 1)
      /\ Place(F, n - 1) \in Nat
  <2>1. n - 1 \in 0..N /\ n \in 0..N /\ \A x : 0..x \subseteq Nat
    OBVIOUS
  <2>2. /\ \A x \in 0..N : Place(F, x) \in 0..x
        /\ \A x \in 1..N : Place(F, x) = IF x \in F THEN Place(F, x - 1) + 1
                                          ELSE Place(F, x - 1)
    BY ONLY N \in Nat, F \in SUBSET (1..N), PlaceStep
  <2>3. Place(F, n - 1) \in 0..n-1
    BY <2>1, <2>2
  <2> QED BY <2>1, <2>2, <2>3
<1>2. \A i \in F : i \in 1..N /\ (i <= n => i = n \/ i <= n - 1)
  OBVIOUS
<1>3. ASSUME n \notin F PROVE InOrderTo(s, F, max, v, n)
  BY <1>1, <1>2, <1>3 DEF InOrderTo
<1>4. ASSUME n \in F, Len(s) >= max PROVE InOrderTo(s, F, max, v, n)
  <2>1. Place(F, n - 1) >= max /\ Len(s) = max
    BY <1>1, <1>4 DEF InOrderTo
  <2>2. ~(Place(F, n) <= max)
    BY <1>1, <1>4, <2>1
  <2> QED BY <1>1, <1>2, <2>1, <2>2 DEF InOrderTo
<1>5. ASSUME n \in F, ~(Len(s) >= max) PROVE InOrderTo(Append(s, v[n]), F, max, v, n)
  <2> DEFINE t == Append(s, v[n])
  <2>1. /\ t \in Seq(V) /\ Len(t) = Len(s) + 1 /\ t[Len(s) + 1] = v[n]
        /\ \A k \in 1..Len(s) : t[k] = s[k]
        /\ Len(s) \in Nat
    OBVIOUS
  <2> HIDE DEF t
  <2>2. Len(s) = Place(F, n - 1) /\ Place(F, n) = Len(s) + 1 /\ Place(F, n) <= max
    BY <1>1, <1>5, <2>1 DEF InOrderTo
  <2>3. ASSUME NEW i \in F, i <= n PROVE t[Place(F, i)] = v[i]
    <3>1. CASE i = n
      BY <2>1, <2>2, <3>1
    <3>2. CASE i <= n - 1
      <4>1. Place(F, i) \in 1..Place(F, n - 1)
        BY <1>1, <3>2, PlaceGrows
      <4>2. Place(F, i) <= max
        BY <1>1, <2>2, <4>1
      <4>3. s[Place(F, i)] = v[i]
        BY <3>2, <4>2 DEF InOrderTo
      <4> QED BY <2>1, <2>2, <4>1, <4>3
    <3> QED BY <1>2, <2>3, <3>1, <3>2
  <2>4. Len(t) = IF Place(F, n) < max THEN Place(F, n) ELSE max
    BY <1>1, <2>1, <2>2
  <2> QED BY <2>3, <2>4 DEF InOrderTo, t
<1> QED BY <1>3, <1>4, <1>5

\* All positions: what the properties say.
LEMMA InOrderAll ==
  ASSUME NEW N \in Nat, NEW F \in SUBSET (1..N), NEW max, NEW v, NEW s,
         InOrderTo(s, F, max, v, N)
  PROVE  InOrder(s, F, max, v)
<1>1. Place(F, N) = Cardinality(F) /\ \A i \in F : i <= N
  BY PlaceStep
<1> QED BY <1>1 DEF InOrderTo, InOrder

----------------------------------------------------------------------------
(* Appending to the browser's array. *)

\* The array after n rows of the source.
Filled(dst, max, src) ==
  CHOOSE f : f = [n \in 0..Len(src) |->
                    IF n = 0 THEN dst ELSE AppendRow(f[n - 1], max, src[n])]

\* The loop of append_results_unique is defined for every source.
LEMMA FilledDef ==
  ASSUME NEW dst, NEW max, NEW src, Len(src) \in Nat
  PROVE  LET f == Filled(dst, max, src) IN
         /\ AppendUnique(dst, max, src) = f[Len(src)]
         /\ f[0] = dst
         /\ \A n \in 1..Len(src) : f[n] = AppendRow(f[n - 1], max, src[n])
<1> DEFINE Body(f, m) == [n \in 0..m |->
                    IF n = 0 THEN dst ELSE AppendRow(f[n - 1], max, src[n])]
           G == {m \in 0..Len(src) : \E f : f = Body(f, m)}
<1>1. 0 \in G
  <2> DEFINE f == [n \in 0..0 |-> dst]
  <2>1. f = Body(f, 0)
    OBVIOUS
  <2> HIDE DEF f, Body
  <2> QED BY <2>1
<1>2. ASSUME NEW i \in 1..Len(src), i - 1 \in G PROVE i \in G
  <2>1. PICK f : f = Body(f, i - 1)
    BY <1>2
  <2> DEFINE g == [n \in 0..i |-> IF n = i THEN AppendRow(f[i - 1], max, src[i]) ELSE f[n]]
  <2>2. ASSUME NEW n \in 0..i
        PROVE  g[n] = IF n = 0 THEN dst ELSE AppendRow(g[n - 1], max, src[n])
    <3>1. CASE n = i
      BY <3>1
    <3>2. CASE n # i
      <4>1. n \in 0..i-1
        BY <3>2
      <4>2. g[n] = f[n] /\ (n # 0 => g[n - 1] = f[n - 1])
        BY <4>1
      <4>3. f[n] = Body(f, i - 1)[n]
        BY <2>1
      <4> QED BY <4>1, <4>2, <4>3
    <3> QED BY <3>1, <3>2
  <2>3. g = Body(g, i)
    BY <2>2
  <2> HIDE DEF g, Body
  <2> QED BY <2>3
<1>3. Len(src) \in G
  <2> HIDE DEF G
  <2>1. \A i \in 1..Len(src) : i - 1 \in G => i \in G
    BY <1>2
  <2>2. \A i \in 0..Len(src) : i \in G
    BY <1>1, <2>1, UpTo
  <2> QED BY <2>2
<1> DEFINE f == Filled(dst, max, src)
<1>4. f = Body(f, Len(src))
  BY <1>3 DEF Filled
<1>5. AppendUnique(dst, max, src) = f[Len(src)]
  BY DEF AppendUnique, Filled
<1> HIDE DEF f
<1>6. ASSUME NEW n \in 0..Len(src)
      PROVE  f[n] = IF n = 0 THEN dst ELSE AppendRow(f[n - 1], max, src[n])
  <2>1. f[n] = Body(f, Len(src))[n]
    BY <1>4
  <2> QED BY <2>1
<1>7. f[0] = dst /\ \A n \in 1..Len(src) : f[n] = AppendRow(f[n - 1], max, src[n])
  BY <1>6
<1> QED BY <1>5, <1>7 DEF f

\* No two rows of a sequence are alike.
Distinct(d) == \A i, j \in 1..Len(d) : i # j => ~Alike(d[i], d[j])

\* One row: the array keeps its rows in place, its bound and its
\* distinctness; unless it is full, a row like the new one is in it.
RowKept(R, d, e, max, r) ==
  /\ e \in Seq(R) /\ Len(e) <= max
  /\ Len(d) <= Len(e) /\ \A k \in 1..Len(d) : e[k] = d[k]
  /\ Distinct(d) => Distinct(e)
  /\ Len(e) < max => \E k \in 1..Len(e) : Alike(e[k], r)

\* One row appended, or not.
LEMMA AppendRowKeeps ==
  ASSUME NEW R, NEW d \in Seq(R), NEW max \in Nat, NEW r \in R, Len(d) <= max,
         NEW e, e = AppendRow(d, max, r)
  PROVE  RowKept(R, d, e, max, r)
<1> USE DEF RowKept
<1>1. CASE Len(d) >= max
  BY <1>1 DEF AppendRow
<1>2. CASE Len(d) < max /\ \E k \in 1..Len(d) : Alike(d[k], r)
  BY <1>2 DEF AppendRow
<1>3. CASE Len(d) < max /\ ~ \E k \in 1..Len(d) : Alike(d[k], r)
  <2>1. e = Append(d, r)
    BY <1>3 DEF AppendRow
  <2>2. /\ e \in Seq(R) /\ Len(e) = Len(d) + 1
        /\ \A k \in 1..Len(d) : e[k] = d[k]
        /\ e[Len(d) + 1] = r
    BY <2>1
  <2>3. Alike(r, r)
    BY DEF Alike
  <2>4. \A k \in 1..Len(d) : ~Alike(d[k], r) /\ ~Alike(r, d[k])
    BY <1>3 DEF Alike
  <2>5. ASSUME Distinct(d), NEW i \in 1..Len(e), NEW j \in 1..Len(e), i # j
        PROVE  ~Alike(e[i], e[j])
    <3>1. CASE i \in 1..Len(d) /\ j \in 1..Len(d)
      BY <2>2, <2>5, <3>1 DEF Distinct
    <3>2. CASE i = Len(d) + 1
      <4>1. j \in 1..Len(d)
        BY <2>2, <2>5, <3>2
      <4> QED BY <2>2, <2>4, <3>2, <4>1
    <3>3. CASE j = Len(d) + 1
      <4>1. i \in 1..Len(d)
        BY <2>2, <2>5, <3>3
      <4> QED BY <2>2, <2>4, <3>3, <4>1
    <3> QED BY <2>2, <3>1, <3>2, <3>3
  <2>6. Distinct(d) => Distinct(e)
    BY <2>5 DEF Distinct
  <2>7. \E k \in 1..Len(e) : Alike(e[k], r)
    BY <2>2, <2>3
  <2>8. Len(e) <= max /\ Len(d) <= Len(e)
    BY <1>3, <2>2
  <2> QED BY <2>2, <2>6, <2>7, <2>8
<1> QED BY <1>1, <1>2, <1>3

\* Any packet: the rows collected before stay where they are, the array
\* keeps its bound and its distinctness, and unless it is full it has a row
\* like each one of the packet.
THEOREM AppendUniqueKeeps ==
  ASSUME NEW R, NEW dst \in Seq(R), NEW max \in Nat, NEW src \in Seq(R),
         Len(dst) <= max
  PROVE  LET d == AppendUnique(dst, max, src) IN
         /\ d \in Seq(R) /\ Len(d) <= max
         /\ Len(dst) <= Len(d) /\ \A k \in 1..Len(dst) : d[k] = dst[k]
         /\ Distinct(dst) => Distinct(d)
         /\ Len(d) < max => \A i \in 1..Len(src) : \E k \in 1..Len(d) : Alike(d[k], src[i])
<1> DEFINE f == Filled(dst, max, src)
           Good(n) ==
             /\ f[n] \in Seq(R) /\ Len(f[n]) <= max
             /\ Len(dst) <= Len(f[n]) /\ \A k \in 1..Len(dst) : f[n][k] = dst[k]
             /\ Distinct(dst) => Distinct(f[n])
             /\ Len(f[n]) < max =>
                  \A i \in 1..n : \E k \in 1..Len(f[n]) : Alike(f[n][k], src[i])
           G == {n \in 0..Len(src) : Good(n)}
<1>1. /\ AppendUnique(dst, max, src) = f[Len(src)]
      /\ f[0] = dst
      /\ \A n \in 1..Len(src) : f[n] = AppendRow(f[n - 1], max, src[n])
  BY FilledDef
<1> HIDE DEF f
<1>2. Good(0)
  BY <1>1
<1>3. ASSUME NEW n \in 1..Len(src), Good(n - 1) PROVE Good(n)
  <2> DEFINE d == f[n - 1]
             e == f[n]
  <2>1. src[n] \in R
    OBVIOUS
  <2>2. /\ e \in Seq(R) /\ Len(e) <= max
        /\ Len(d) <= Len(e) /\ \A k \in 1..Len(d) : e[k] = d[k]
        /\ Distinct(d) => Distinct(e)
        /\ Len(e) < max => \E k \in 1..Len(e) : Alike(e[k], src[n])
    <3> HIDE DEF G
    <3>1. d \in Seq(R) /\ Len(d) <= max
      BY <1>3
    <3>2. e = AppendRow(d, max, src[n])
      BY <1>1
    <3> HIDE DEF d, e
    <3>3. RowKept(R, d, e, max, src[n])
      BY <2>1, <3>1, <3>2, AppendRowKeeps
    <3> QED BY <3>3 DEF RowKept
  <2>3. /\ d \in Seq(R) /\ Len(dst) <= Len(d) /\ \A k \in 1..Len(dst) : d[k] = dst[k]
        /\ Distinct(dst) => Distinct(d)
        /\ Len(d) < max =>
             \A i \in 1..n-1 : \E k \in 1..Len(d) : Alike(d[k], src[i])
    BY <1>3
  <2> HIDE DEF d, e
  <2>4. Len(dst) <= Len(e) /\ \A k \in 1..Len(dst) : e[k] = dst[k]
    BY <2>2, <2>3
  <2>5. ASSUME Len(e) < max, NEW i \in 1..n
        PROVE  \E k \in 1..Len(e) : Alike(e[k], src[i])
    <3>1. CASE i = n
      BY <2>2, <2>5, <3>1
    <3>2. CASE i # n
      <4>1. i \in 1..n-1 /\ Len(d) < max
        BY <2>2, <2>3, <2>5, <3>2
      <4>2. PICK k \in 1..Len(d) : Alike(d[k], src[i])
        BY <2>3, <4>1
      <4>3. k \in 1..Len(e) /\ e[k] = d[k]
        BY <2>2, <2>3, <4>2
      <4> QED BY <4>2, <4>3
    <3> QED BY <3>1, <3>2
  <2> QED BY <2>2, <2>3, <2>4, <2>5 DEF e
<1>4. \A n \in 0..Len(src) : n \in G
  <2>1. 0 \in G
    BY <1>2
  <2>2. ASSUME NEW n \in 1..Len(src), n - 1 \in G PROVE n \in G
    BY <1>3, <2>2
  <2> HIDE DEF G
  <2>3. \A n \in 1..Len(src) : n - 1 \in G => n \in G
    BY <2>2
  <2>4. Len(src) \in Nat
    OBVIOUS
  <2> QED BY <2>1, <2>3, <2>4, UpTo
<1>5. Good(Len(src))
  BY <1>4
<1> QED BY <1>1, <1>5

----------------------------------------------------------------------------
(* Extracting the service types. *)

\* The types found in the first n rows.
Extracted(rows, max) ==
  CHOOSE f : f = [n \in 0..Len(rows) |->
                    IF n = 0 THEN << >> ELSE AddType(f[n - 1], max, rows[n])]

\* The loop of extract_service_types is defined for any rows.
LEMMA FoundDef ==
  ASSUME NEW max, NEW rows, Len(rows) \in Nat
  PROVE  LET f == Extracted(rows, max) IN
         /\ ServiceTypes(rows, max) = f[Len(rows)]
         /\ f[0] = << >>
         /\ \A n \in 1..Len(rows) : f[n] = AddType(f[n - 1], max, rows[n])
<1> DEFINE Body(f, m) == [n \in 0..m |->
                    IF n = 0 THEN << >> ELSE AddType(f[n - 1], max, rows[n])]
           G == {m \in 0..Len(rows) : \E f : f = Body(f, m)}
<1>1. 0 \in G
  <2> DEFINE f == [n \in 0..0 |-> << >>]
  <2>1. f = Body(f, 0)
    OBVIOUS
  <2> HIDE DEF f, Body
  <2> QED BY <2>1
<1>2. ASSUME NEW i \in 1..Len(rows), i - 1 \in G PROVE i \in G
  <2>1. PICK f : f = Body(f, i - 1)
    BY <1>2
  <2> DEFINE g == [n \in 0..i |-> IF n = i THEN AddType(f[i - 1], max, rows[i]) ELSE f[n]]
  <2>2. ASSUME NEW n \in 0..i
        PROVE  g[n] = IF n = 0 THEN << >> ELSE AddType(g[n - 1], max, rows[n])
    <3>1. CASE n = i
      BY <3>1
    <3>2. CASE n # i
      <4>1. n \in 0..i-1
        BY <3>2
      <4>2. g[n] = f[n] /\ (n # 0 => g[n - 1] = f[n - 1])
        BY <4>1
      <4>3. f[n] = Body(f, i - 1)[n]
        BY <2>1
      <4> QED BY <4>1, <4>2, <4>3
    <3> QED BY <3>1, <3>2
  <2>3. g = Body(g, i)
    BY <2>2
  <2> HIDE DEF g, Body
  <2> QED BY <2>3
<1>3. Len(rows) \in G
  <2> HIDE DEF G
  <2>1. \A i \in 1..Len(rows) : i - 1 \in G => i \in G
    BY <1>2
  <2>2. \A i \in 0..Len(rows) : i \in G
    BY <1>1, <2>1, UpTo
  <2> QED BY <2>2
<1> DEFINE f == Extracted(rows, max)
<1>4. f = Body(f, Len(rows))
  BY <1>3 DEF Extracted
<1>5. ServiceTypes(rows, max) = f[Len(rows)]
  BY DEF ServiceTypes, Extracted
<1> HIDE DEF f
<1>6. ASSUME NEW n \in 0..Len(rows)
      PROVE  f[n] = IF n = 0 THEN << >> ELSE AddType(f[n - 1], max, rows[n])
  <2>1. f[n] = Body(f, Len(rows))[n]
    BY <1>4
  <2> QED BY <2>1
<1>7. f[0] = << >> /\ \A n \in 1..Len(rows) : f[n] = AddType(f[n - 1], max, rows[n])
  BY <1>6
<1> QED BY <1>5, <1>7 DEF f

\* What holds of the types ts found in the first n rows.
TypesFound(I, ts, max, rows, n) ==
  /\ ts \in Seq(I) /\ Len(ts) <= max
  /\ \A j, k \in 1..Len(ts) : ts[j] = ts[k] => j = k
  /\ \A k \in 1..Len(ts) : \E i \in 1..n : NamesType(rows[i]) /\ ts[k] = rows[i].instance
  /\ Len(ts) < max =>
       \A i \in 1..n : NamesType(rows[i]) => \E k \in 1..Len(ts) : ts[k] = rows[i].instance

\* ts is the beginning of us.
Begins(ts, us) == Len(ts) <= Len(us) /\ \A k \in 1..Len(ts) : us[k] = ts[k]

\* One row: at most one type is added, at the end.
LEMMA AddTypeKeeps ==
  ASSUME NEW I, NEW max \in Nat, NEW rows, NEW n \in Nat \ {0},
         rows[n].instance \in I,
         NEW ts, TypesFound(I, ts, max, rows, n - 1),
         NEW us, us = AddType(ts, max, rows[n])
  PROVE  TypesFound(I, us, max, rows, n) /\ Begins(ts, us)
<1> DEFINE x == rows[n].instance
<1> USE DEF TypesFound, Begins
<1>1. CASE Len(ts) >= max \/ ~NamesType(rows[n]) \/ \E k \in 1..Len(ts) : ts[k] = x
  <2>1. us = ts
    BY <1>1 DEF AddType
  <2>2. ASSUME NEW k \in 1..Len(us)
        PROVE  \E i \in 1..n : NamesType(rows[i]) /\ us[k] = rows[i].instance
    <3>1. PICK i \in 1..n-1 : NamesType(rows[i]) /\ ts[k] = rows[i].instance
      BY <2>1
    <3> QED BY <2>1, <3>1
  <2>3. ASSUME Len(us) < max, NEW i \in 1..n, NamesType(rows[i])
        PROVE  \E k \in 1..Len(us) : us[k] = rows[i].instance
    <3>1. CASE i = n
      BY <1>1, <2>1, <2>3, <3>1
    <3>2. CASE i \in 1..n-1
      BY <2>1, <2>3, <3>2
    <3> QED BY <3>1, <3>2
  <2> QED BY <2>1, <2>2, <2>3
<1>2. CASE /\ Len(ts) < max /\ NamesType(rows[n])
           /\ ~ \E k \in 1..Len(ts) : ts[k] = x
  <2>1. us = Append(ts, x)
    BY <1>2 DEF AddType
  <2>2. /\ us \in Seq(I) /\ Len(us) = Len(ts) + 1 /\ Len(ts) \in Nat
        /\ \A k \in 1..Len(ts) : us[k] = ts[k]
        /\ us[Len(ts) + 1] = x
    BY <2>1
  <2>3. Len(us) <= max /\ Begins(ts, us)
    BY <1>2, <2>2
  <2>4. \A k \in 1..Len(us) : k \in 1..Len(ts) \/ k = Len(ts) + 1
    BY <2>2
  <2>5. ASSUME NEW j \in 1..Len(us), NEW k \in 1..Len(us), us[j] = us[k] PROVE j = k
    BY <1>2, <2>2, <2>4, <2>5
  <2>6. ASSUME NEW k \in 1..Len(us)
        PROVE  \E i \in 1..n : NamesType(rows[i]) /\ us[k] = rows[i].instance
    <3>1. CASE k = Len(ts) + 1
      BY <1>2, <2>2, <3>1
    <3>2. CASE k \in 1..Len(ts)
      <4>1. PICK i \in 1..n-1 : NamesType(rows[i]) /\ ts[k] = rows[i].instance
        BY <3>2
      <4> QED BY <2>2, <3>2, <4>1
    <3> QED BY <2>4, <3>1, <3>2
  <2>7. ASSUME NEW i \in 1..n, NamesType(rows[i])
        PROVE  \E k \in 1..Len(us) : us[k] = rows[i].instance
    <3>1. CASE i = n
      BY <2>2, <3>1
    <3>2. CASE i # n
      <4>1. i \in 1..n-1
        BY <3>2
      <4>2. PICK k \in 1..Len(ts) : ts[k] = rows[i].instance
        BY <1>2, <2>7, <4>1
      <4> QED BY <2>2, <4>2
    <3> QED BY <3>1, <3>2
  <2> QED BY <2>2, <2>3, <2>5, <2>6, <2>7
<1> QED BY <1>1, <1>2

\* After any number of rows.
LEMMA FoundKeeps ==
  ASSUME NEW I, NEW max \in Nat, NEW rows, Len(rows) \in Nat,
         \A i \in 1..Len(rows) : rows[i].instance \in I,
         NEW n \in 0..Len(rows)
  PROVE  TypesFound(I, Extracted(rows, max)[n], max, rows, n)
<1> DEFINE f == Extracted(rows, max)
           G == {i \in 0..Len(rows) : TypesFound(I, f[i], max, rows, i)}
<1>1. f[0] = << >> /\ \A i \in 1..Len(rows) : f[i] = AddType(f[i - 1], max, rows[i])
  BY FoundDef
<1> HIDE DEF f
<1>2. 0 \in G
  <2>1. << >> \in Seq(I) /\ Len(<< >>) = 0
    OBVIOUS
  <2>2. TypesFound(I, << >>, max, rows, 0)
    BY <2>1 DEF TypesFound
  <2> QED BY <1>1, <2>2
<1>3. ASSUME NEW i \in 1..Len(rows), i - 1 \in G PROVE i \in G
  <2>1. TypesFound(I, f[i - 1], max, rows, i - 1)
    BY <1>3
  <2>2. i \in Nat \ {0} /\ rows[i].instance \in I /\ f[i] = AddType(f[i - 1], max, rows[i])
    BY <1>1
  <2>3. TypesFound(I, f[i], max, rows, i)
    BY <2>1, <2>2, AddTypeKeeps
  <2> QED BY <2>3
<1>4. \A i \in 0..Len(rows) : i \in G
  <2> HIDE DEF G
  <2>1. \A i \in 1..Len(rows) : i - 1 \in G => i \in G
    BY <1>3
  <2> QED BY <1>2, <2>1, UpTo
<1>5. TypesFound(I, f[n], max, rows, n)
  BY <1>4
<1> QED BY <1>5 DEF f

\* The types queried in a cycle are distinct, at most max, each one named by
\* a row, and all the types named unless there is no room for more.
THEOREM ServiceTypesFound ==
  ASSUME NEW I, NEW max \in Nat, NEW rows, Len(rows) \in Nat,
         \A i \in 1..Len(rows) : rows[i].instance \in I
  PROVE  TypesFound(I, ServiceTypes(rows, max), max, rows, Len(rows))
<1>1. ServiceTypes(rows, max) = Extracted(rows, max)[Len(rows)]
  BY FoundDef
<1>2. Len(rows) \in 0..Len(rows)
  OBVIOUS
<1> QED BY <1>1, <1>2, FoundKeeps

\* Rows that come later change nothing in the types found before.
LEMMA TypesStay ==
  ASSUME NEW R, NEW max \in Nat, NEW rows \in Seq(R), NEW more \in Seq(R), Begins(rows, more)
  PROVE  Begins(ServiceTypes(rows, max), ServiceTypes(more, max))
<1> DEFINE f == Extracted(rows, max)
           g == Extracted(more, max)
           L == Len(rows)
           N == Len(more)
           I == {r.instance : r \in R}
<1>1. L \in Nat /\ N \in Nat /\ L <= N /\ \A i \in 1..L : more[i] = rows[i]
  BY DEF Begins
<1>2. /\ ServiceTypes(rows, max) = f[L] /\ f[0] = << >>
      /\ \A n \in 1..L : f[n] = AddType(f[n - 1], max, rows[n])
  BY FoundDef
<1>3. /\ ServiceTypes(more, max) = g[N] /\ g[0] = << >>
      /\ \A n \in 1..N : g[n] = AddType(g[n - 1], max, more[n])
  BY FoundDef
<1>4. \A i \in 1..N : more[i].instance \in I
  OBVIOUS
<1>5. \A n \in 0..N : TypesFound(I, g[n], max, more, n)
  BY <1>1, <1>4, FoundKeeps
<1> HIDE DEF f, g, L, N, I
<1>6. f[L] = g[L]
  <2> DEFINE G == {n \in 0..L : f[n] = g[n]}
  <2>1. 0 \in G
    BY <1>1, <1>2, <1>3
  <2>2. ASSUME NEW n \in 1..L, n - 1 \in G PROVE n \in G
    <3>1. f[n - 1] = g[n - 1] /\ more[n] = rows[n] /\ n \in 1..N
      BY <1>1, <2>2
    <3>2. f[n] = g[n]
      BY <1>2, <1>3, <3>1
    <3> QED BY <1>1, <3>2
  <2> HIDE DEF G
  <2>3. \A n \in 1..L : n - 1 \in G => n \in G
    BY <2>2
  <2>4. \A n \in 0..L : n \in G
    BY <1>1, <2>1, <2>3, UpTo
  <2>5. L \in G
    BY <1>1, <2>4
  <2> QED BY <2>5 DEF G
<1>7. Begins(g[L], g[N])
  <2> DEFINE G == {k \in 0..(N - L) : Begins(g[L], g[L + k])}
  <2>1. 0 \in G
    <3>1. Len(g[L]) \in Nat
      BY <1>1, <1>5 DEF TypesFound
    <3> QED BY <1>1, <3>1 DEF Begins
  <2>2. ASSUME NEW k \in 1..(N - L), k - 1 \in G PROVE k \in G
    <3> DEFINE m == L + k
    <3>1. Begins(g[L], g[m - 1])
      <4>1. L + (k - 1) = m - 1
        BY <1>1
      <4> QED BY <2>2, <4>1
    <3>2. m \in 1..N /\ m \in Nat \ {0} /\ m - 1 \in 0..N
      BY <1>1
    <3> HIDE DEF m
    <3>3. TypesFound(I, g[m - 1], max, more, m - 1)
      BY <1>5, <3>2
    <3>4. more[m].instance \in I /\ g[m] = AddType(g[m - 1], max, more[m])
      BY <1>3, <1>4, <3>2
    <3>5. Begins(g[m - 1], g[m])
      BY <3>2, <3>3, <3>4, AddTypeKeeps
    <3>6. Len(g[L]) \in Nat /\ Len(g[m - 1]) \in Nat /\ Len(g[m]) \in Nat
      BY <1>1, <1>5, <3>2 DEF TypesFound
    <3>7. Begins(g[L], g[m])
      BY <3>1, <3>5, <3>6 DEF Begins
    <3>8. k \in G
      BY <3>7 DEF m
    <3> QED BY <3>8
  <2> HIDE DEF G
  <2>3. \A k \in 1..(N - L) : k - 1 \in G => k \in G
    BY <2>2
  <2>4. N - L \in Nat
    BY <1>1
  <2>5. \A k \in 0..(N - L) : k \in G
    BY <2>1, <2>3, <2>4, UpTo
  <2>6. N - L \in G
    BY <2>4, <2>5
  <2>7. L + (N - L) = N
    BY <1>1
  <2> QED BY <2>6, <2>7 DEF G
<1> QED BY <1>2, <1>3, <1>6, <1>7

\* The types named by rows that were there before are all among those found,
\* if there is room for them, whatever rows have come since.
THEOREM KnownTypesFound ==
  ASSUME NEW R, NEW max \in Nat, NEW rows \in Seq(R), NEW more \in Seq(R),
         Begins(rows, more), Cardinality(TypesIn(rows)) <= max
  PROVE  TypesIn(rows) \subseteq ToSet(ServiceTypes(more, max))
<1> DEFINE ts == ServiceTypes(rows, max)
           us == ServiceTypes(more, max)
           K == TypesIn(rows)
           I == {r.instance : r \in R}
           N == Len(rows)
<1>1. N \in Nat /\ (\A i \in 1..N : rows[i].instance \in I) /\ DOMAIN rows = 1..N
  OBVIOUS
<1>2. TypesFound(I, ts, max, rows, N)
  BY <1>1, ServiceTypesFound
<1>3. Begins(ts, us)
  BY TypesStay
<1>4. us \in Seq(I)
  <2>1. Len(more) \in Nat /\ \A i \in 1..Len(more) : more[i].instance \in I
    OBVIOUS
  <2>2. TypesFound(I, us, max, more, Len(more))
    BY <2>1, ServiceTypesFound
  <2> QED BY <2>2 DEF TypesFound
<1>5. K = {rows[i].instance : i \in {k \in 1..N : NamesType(rows[k])}}
  BY <1>1 DEF TypesIn, ToSet
<1>6. IsFiniteSet(K)
  <2> DEFINE J == {k \in 1..N : NamesType(rows[k])}
             h == [k \in J |-> rows[k].instance]
  <2>1. IsFiniteSet(J)
    <3>1. IsFiniteSet(1..N) /\ J \in SUBSET (1..N)
      BY <1>1, FS_Interval
    <3> HIDE DEF J
    <3> QED BY <3>1, FS_Subset
  <2>2. h \in Surjection(J, K)
    BY <1>5 DEF Surjection
  <2> HIDE DEF h, J, K
  <2> QED BY <2>1, <2>2, FS_Surjection
<1> HIDE DEF ts, us, I, N
<1>7. ASSUME NEW t \in K PROVE \E k \in 1..Len(ts) : ts[k] = t
  <2>1. CASE Len(ts) < max
    <3>1. PICK i \in 1..N : NamesType(rows[i]) /\ t = rows[i].instance
      BY <1>5, <1>7
    <3> QED BY <1>2, <2>1, <3>1 DEF TypesFound
  <2>2. CASE Len(ts) = max
    <3>1. ts \in [1..max -> K]
      <4>1. ts \in Seq(I) /\ \A k \in 1..Len(ts) : ts[k] \in K
        BY <1>2, <1>5 DEF TypesFound
      <4> QED BY <2>2, <4>1
    <3>2. ts \in Injection(1..max, K)
      BY <1>2, <2>2, <3>1 DEF TypesFound, Injection, IsInjective
    <3>3. IsFiniteSet(1..max) /\ Cardinality(1..max) = max
      BY FS_Interval
    <3>4. Cardinality(K) \in Nat
      BY <1>6, FS_CardinalityType
    <3> HIDE DEF K
    <3>5. /\ Cardinality(1..max) <= Cardinality(K)
          /\ Cardinality(1..max) = Cardinality(K) <=> ts \in Surjection(1..max, K)
      BY <1>6, <3>2, FS_Injection
    <3>6. Cardinality(K) <= max
      BY DEF K
    <3>7. ts \in Surjection(1..max, K)
      BY <3>3, <3>4, <3>5, <3>6
    <3> QED BY <1>7, <2>2, <3>7 DEF Surjection
  <2>3. Len(ts) < max \/ Len(ts) = max
    BY <1>2 DEF TypesFound
  <2> QED BY <2>1, <2>2, <2>3
<1>8. ASSUME NEW t \in K PROVE t \in ToSet(us)
  <2>1. PICK k \in 1..Len(ts) : ts[k] = t
    BY <1>7
  <2>2. k \in DOMAIN us /\ us[k] = t
    <3>1. Len(ts) \in Nat
      BY <1>2 DEF TypesFound
    <3> QED BY <1>3, <1>4, <2>1, <3>1 DEF Begins
  <2> QED BY <2>2 DEF ToSet
<1> QED BY <1>8 DEF us

----------------------------------------------------------------------------
(* Removing duplicates in place. *)

\* The array and its write index after n rows were read.
Compacted(results) ==
  CHOOSE f : f = [n \in 0..Len(results) |->
                    IF n = 0 THEN [rows |-> results, count |-> 0] ELSE KeepNew(f[n - 1], n)]

\* The loop of umdns_table_deduplicate_results is defined for any rows.
LEMMA CompactedDef ==
  ASSUME NEW results, Len(results) \in Nat
  PROVE  LET f == Compacted(results) IN
         /\ Deduplicate(results) = SubSeq(f[Len(results)].rows, 1, f[Len(results)].count)
         /\ f[0] = [rows |-> results, count |-> 0]
         /\ \A n \in 1..Len(results) : f[n] = KeepNew(f[n - 1], n)
<1> DEFINE start == [rows |-> results, count |-> 0]
           Body(f, m) == [n \in 0..m |-> IF n = 0 THEN start ELSE KeepNew(f[n - 1], n)]
           G == {m \in 0..Len(results) : \E f : f = Body(f, m)}
<1> HIDE DEF start
<1>1. 0 \in G
  <2> DEFINE f == [n \in 0..0 |-> start]
  <2>1. f = Body(f, 0)
    OBVIOUS
  <2> HIDE DEF f, Body
  <2> QED BY <2>1
<1>2. ASSUME NEW i \in 1..Len(results), i - 1 \in G PROVE i \in G
  <2>1. PICK f : f = Body(f, i - 1)
    BY <1>2
  <2> DEFINE g == [n \in 0..i |-> IF n = i THEN KeepNew(f[i - 1], i) ELSE f[n]]
  <2>2. ASSUME NEW n \in 0..i
        PROVE  g[n] = IF n = 0 THEN start ELSE KeepNew(g[n - 1], n)
    <3>1. CASE n = i
      BY <3>1
    <3>2. CASE n # i
      <4>1. n \in 0..i-1
        BY <3>2
      <4>2. g[n] = f[n] /\ (n # 0 => g[n - 1] = f[n - 1])
        BY <4>1
      <4>3. f[n] = Body(f, i - 1)[n]
        BY <2>1
      <4> QED BY <4>1, <4>2, <4>3
    <3> QED BY <3>1, <3>2
  <2>3. g = Body(g, i)
    BY <2>2
  <2> HIDE DEF g, Body
  <2> QED BY <2>3
<1>3. Len(results) \in G
  <2> HIDE DEF G
  <2>1. \A i \in 1..Len(results) : i - 1 \in G => i \in G
    BY <1>2
  <2>2. \A i \in 0..Len(results) : i \in G
    BY <1>1, <2>1, UpTo
  <2> QED BY <2>2
<1> DEFINE f == Compacted(results)
<1>4. f = Body(f, Len(results))
  BY <1>3 DEF Compacted, start
<1>5. Deduplicate(results) = SubSeq(f[Len(results)].rows, 1, f[Len(results)].count)
  BY DEF Deduplicate, Compacted
<1> HIDE DEF f
<1>6. ASSUME NEW n \in 0..Len(results)
      PROVE  f[n] = IF n = 0 THEN start ELSE KeepNew(f[n - 1], n)
  <2>1. f[n] = Body(f, Len(results))[n]
    BY <1>4
  <2> QED BY <2>1
<1>7. f[0] = start /\ \A n \in 1..Len(results) : f[n] = KeepNew(f[n - 1], n)
  BY <1>6
<1> QED BY <1>5, <1>7 DEF f, start

\* What holds of the array a and the write index c after n rows: the rows
\* kept are those read, each once, and the rows not yet read are untouched.
Compact(R, a, c, results, n) ==
  /\ a \in [1..Len(results) -> R] /\ c \in 0..n
  /\ \A k \in n+1..Len(results) : a[k] = results[k]
  /\ \A j, k \in 1..c : a[j] = a[k] => j = k
  /\ \A k \in 1..c : \E i \in 1..n : a[k] = results[i]
  /\ \A i \in 1..n : \E k \in 1..c : a[k] = results[i]

\* One row read: it stands where it stood in the beginning, although the
\* rows before it have been moved.
LEMMA KeepNewCompacts ==
  ASSUME NEW R, NEW results \in Seq(R), NEW n \in 1..Len(results),
         NEW t, Compact(R, t.rows, t.count, results, n - 1),
         NEW u, u = KeepNew(t, n)
  PROVE  Compact(R, u.rows, u.count, results, n)
<1> DEFINE a == t.rows
           c == t.count
           N == Len(results)
<1>1. /\ N \in Nat /\ n \in 1..N /\ results[n] \in R
      /\ a \in [1..N -> R] /\ c \in 0..n-1
      /\ \A k \in n..N : a[k] = results[k]
      /\ \A j, k \in 1..c : a[j] = a[k] => j = k
      /\ \A k \in 1..c : \E i \in 1..n-1 : a[k] = results[i]
      /\ \A i \in 1..n-1 : \E k \in 1..c : a[k] = results[i]
  BY DEF Compact
<1>2. u = IF \E k \in 1..c : a[k] = a[n] THEN t ELSE Keep(t, n)
  BY DEF KeepNew
<1>3. a[n] = results[n]
  BY <1>1
<1>4. CASE \E k \in 1..c : a[k] = a[n]
  <2>1. u.rows = a /\ u.count = c
    BY <1>2, <1>4
  <2> HIDE DEF a, c, N
  <2>2. \A k \in 1..c : \E i \in 1..n : a[k] = results[i]
    BY <1>1
  <2>3. \A i \in 1..n : \E k \in 1..c : a[k] = results[i]
    <3>1. \A i \in 1..n : i \in 1..n-1 \/ i = n
      BY <1>1
    <3> QED BY <1>1, <1>3, <1>4, <3>1
  <2>4. c \in 0..n /\ \A k \in n+1..N : a[k] = results[k]
    BY <1>1
  <2> QED BY <1>1, <2>1, <2>2, <2>3, <2>4 DEF Compact, N
<1>5. CASE ~ \E k \in 1..c : a[k] = a[n]
  <2> DEFINE b == [a EXCEPT ![c + 1] = a[n]]
  <2>1. u.rows = b /\ u.count = c + 1
    BY <1>2, <1>5 DEF Keep
  <2> HIDE DEF a, c, N
  <2>2. /\ b \in [1..N -> R] /\ c + 1 \in 1..n /\ b[c + 1] = results[n]
        /\ \A k \in 1..N : k # c + 1 => b[k] = a[k]
    BY <1>1, <1>3
  <2> HIDE DEF b
  <2>3. \A k \in n+1..N : b[k] = results[k]
    BY <1>1, <2>2
  <2>4. \A k \in 1..c+1 : k = c + 1 \/ (k \in 1..c /\ b[k] = a[k])
    BY <1>1, <2>2
  <2>5. \A j, k \in 1..c+1 : b[j] = b[k] => j = k
    BY <1>1, <1>3, <1>5, <2>2, <2>4
  <2>6. ASSUME NEW k \in 1..c+1 PROVE \E i \in 1..n : b[k] = results[i]
    <3>1. CASE k = c + 1
      BY <1>1, <2>2, <3>1
    <3>2. CASE k \in 1..c /\ b[k] = a[k]
      BY <1>1, <3>2
    <3> QED BY <2>4, <3>1, <3>2
  <2>7. ASSUME NEW i \in 1..n PROVE \E k \in 1..c+1 : b[k] = results[i]
    <3>1. CASE i = n
      BY <1>1, <2>2, <3>1
    <3>2. CASE i # n
      <4>1. i \in 1..n-1
        BY <1>1, <3>2
      <4>2. PICK k \in 1..c : a[k] = results[i]
        BY <1>1, <4>1
      <4> QED BY <1>1, <2>2, <4>2
    <3> QED BY <3>1, <3>2
  <2>8. c + 1 \in 0..n
    BY <1>1
  <2> QED BY <2>1, <2>2, <2>3, <2>5, <2>6, <2>7, <2>8 DEF Compact, N
<1> QED BY <1>4, <1>5

\* For any rows, the client's table has the same ones, each once.
THEOREM DeduplicateExact ==
  ASSUME NEW R, NEW results \in Seq(R)
  PROVE  LET d == Deduplicate(results) IN
         d \in Seq(R) /\ ToSet(d) = ToSet(results) /\ IsInjective(d)
<1> DEFINE f == Compacted(results)
           N == Len(results)
           G == {n \in 0..N : Compact(R, f[n].rows, f[n].count, results, n)}
<1>1. /\ N \in Nat
      /\ Deduplicate(results) = SubSeq(f[N].rows, 1, f[N].count)
      /\ f[0] = [rows |-> results, count |-> 0]
      /\ \A n \in 1..N : f[n] = KeepNew(f[n - 1], n)
  BY CompactedDef
<1> HIDE DEF f
<1>2. 0 \in G
  <2>1. Compact(R, results, 0, results, 0)
    BY DEF Compact
  <2> QED BY <1>1, <2>1
<1>3. ASSUME NEW n \in 1..N, n - 1 \in G PROVE n \in G
  <2>1. Compact(R, f[n - 1].rows, f[n - 1].count, results, n - 1)
    BY <1>3
  <2>2. Compact(R, f[n].rows, f[n].count, results, n)
    BY <1>1, <2>1, KeepNewCompacts
  <2> QED BY <1>1, <2>2
<1>4. N \in G
  <2> HIDE DEF G, N
  <2>1. \A n \in 1..N : n - 1 \in G => n \in G
    BY <1>3
  <2>2. \A n \in 0..N : n \in G
    BY <1>1, <1>2, <2>1, UpTo
  <2> QED BY <1>1, <2>2
<1> DEFINE a == f[N].rows
           c == f[N].count
           d == SubSeq(a, 1, c)
<1>5. /\ a \in [1..N -> R] /\ c \in 0..N
      /\ \A j, k \in 1..c : a[j] = a[k] => j = k
      /\ \A k \in 1..c : \E i \in 1..N : a[k] = results[i]
      /\ \A i \in 1..N : \E k \in 1..c : a[k] = results[i]
  BY <1>4 DEF Compact
<1> HIDE DEF a, c
<1>6. a \in Seq(R) /\ Len(a) = N
  <2> HIDE DEF N
  <2>1. a \in [1..N -> R] /\ N \in Nat
    BY <1>1, <1>5
  <2>2. a \in Seq(R)
    BY <2>1, SeqDef
  <2> QED BY <2>1, <2>2, LenProperties
<1>7. d \in Seq(R) /\ DOMAIN d = 1..c /\ \A k \in 1..c : d[k] = a[k]
  BY <1>1, <1>5, <1>6
<1>8. DOMAIN results = 1..N
  OBVIOUS
<1>9. ToSet(d) = ToSet(results) /\ IsInjective(d)
  <2> HIDE DEF d, N
  <2>1. ToSet(d) = {a[k] : k \in 1..c} /\ ToSet(results) = {results[i] : i \in 1..N}
    BY <1>7, <1>8 DEF ToSet
  <2>2. {a[k] : k \in 1..c} = {results[i] : i \in 1..N}
    BY <1>5, SMTT(40)
  <2>3. IsInjective(d)
    BY <1>5, <1>7 DEF IsInjective
  <2> QED BY <2>1, <2>2, <2>3
<1> QED BY <1>1, <1>7, <1>9 DEF a, c

----------------------------------------------------------------------------
(* The passes in order. *)

\* What holds of the array a and the write index c after n rows.
CompactTo(R, a, c, rs, n) ==
  LET F == Leading(DOMAIN rs, rs) IN
  /\ a \in [1..Len(rs) -> R] /\ c = Place(F, n)
  /\ \A k \in n+1..Len(rs) : a[k] = rs[k]
  /\ \A i \in F : i <= n => a[Place(F, i)] = rs[i]

\* One row kept, or not, in its place.
LEMMA KeepNewInOrder ==
  ASSUME NEW R, NEW rs \in Seq(R), NEW n \in 1..Len(rs),
         NEW t, CompactTo(R, t.rows, t.count, rs, n - 1),
         NEW u, u = KeepNew(t, n)
  PROVE  CompactTo(R, u.rows, u.count, rs, n)
<1> DEFINE N == Len(rs)
           S == DOMAIN rs
           F == Leading(S, rs)
           a == t.rows
           c == t.count
<1>1. N \in Nat /\ S = 1..N /\ n \in 1..N /\ n - 1 \in 0..N /\ rs[n] \in R
  OBVIOUS
<1>2. /\ a \in [1..N -> R] /\ c = Place(F, n - 1)
      /\ \A k \in n..N : a[k] = rs[k]
      /\ \A i \in F : i <= n - 1 => a[Place(F, i)] = rs[i]
  BY DEF CompactTo
<1>3. u = IF \E k \in 1..c : a[k] = a[n] THEN t ELSE Keep(t, n)
  BY DEF KeepNew
<1> HIDE DEF N, S, a, c
<1>4. F \in SUBSET (1..N) /\ \A i \in F : i < n => i <= n - 1 /\ i \in 1..N
  BY <1>1 DEF Leading
<1>5. n \in F <=> \A k \in 1..c : a[k] # a[n]
  <2>1. KeptBefore(n, S, rs, a)
    BY <1>2, <1>4 DEF KeptBefore
  <2>2. n \in F <=> n \in S /\ \A k \in 1..Place(F, n - 1) : a[k] # rs[n]
    <3>1. N \in Nat /\ S \in SUBSET (1..N) /\ n \in 1..N
      BY <1>1
    <3> HIDE DEF F
    <3> QED BY ONLY <2>1, <3>1, IsNew DEF F
  <2> QED BY <1>1, <1>2, <2>2
<1> HIDE DEF F
<1>6. /\ Place(F, n - 1) \in 0..n-1
      /\ Place(F, n) = IF n \in F THEN Place(F, n - 1) + 1 ELSE Place(F, n - 1)
  <2>1. /\ \A m \in 0..N : Place(F, m) \in 0..m
        /\ \A m \in 1..N : Place(F, m) = IF m \in F THEN Place(F, m - 1) + 1
                                          ELSE Place(F, m - 1)
    BY ONLY <1>1, <1>4, PlaceStep
  <2> QED BY <1>1, <2>1
<1>7. \A i \in F : i <= n - 1 => Place(F, i) \in 1..Place(F, n - 1)
  BY <1>1, <1>4, PlaceGrows
<1>8. \A i \in F : i <= n => i = n \/ i <= n - 1
  BY <1>1, <1>4
<1>9. CASE n \notin F
  <2>1. u = t
    BY <1>3, <1>5, <1>9
  <2>2. \A k \in n+1..N : k \in n..N
    BY <1>1
  <2> QED BY <1>2, <1>6, <1>8, <1>9, <2>1, <2>2 DEF CompactTo, N, S, F, a, c
<1>10. CASE n \in F
  <2> DEFINE b == [a EXCEPT ![c + 1] = a[n]]
  <2>1. u.rows = b /\ u.count = c + 1
    BY <1>3, <1>5, <1>10 DEF Keep, a, c
  <2>2. c + 1 \in 1..n /\ c + 1 \in 1..N /\ c + 1 = Place(F, n)
    BY <1>1, <1>2, <1>6, <1>10
  <2>3. b \in [1..N -> R] /\ b[c + 1] = rs[n] /\ \A k \in 1..N : k # c + 1 => b[k] = a[k]
    BY <1>1, <1>2, <2>2
  <2> HIDE DEF b
  <2>4. \A k \in n+1..N : b[k] = rs[k]
    BY <1>1, <1>2, <2>2, <2>3
  <2>5. ASSUME NEW i \in F, i <= n PROVE b[Place(F, i)] = rs[i]
    <3>1. CASE i = n
      BY <2>2, <2>3, <3>1
    <3>2. CASE i <= n - 1
      <4>1. Place(F, i) \in 1..c
        BY <1>2, <1>7, <3>2
      <4>2. Place(F, i) \in 1..N /\ Place(F, i) # c + 1
        <5>1. c \in Nat /\ c <= N
          BY <1>1, <1>2, <1>6
        <5> QED BY <1>1, <4>1, <5>1
      <4> QED BY <1>2, <2>3, <3>2, <4>2
    <3> QED BY <1>8, <2>5, <3>1, <3>2
  <2> QED BY <2>1, <2>2, <2>3, <2>4, <2>5 DEF CompactTo, N, S, F
<1> QED BY <1>9, <1>10

\* For any rows, the client's table has the same ones, each once and in the
\* order first received, although they are compacted in place.
THEOREM DeduplicateInOrder ==
  ASSUME NEW R, NEW rs \in Seq(R)
  PROVE  InOrder(Deduplicate(rs), Leading(DOMAIN rs, rs), Len(rs), rs)
<1> DEFINE f == Compacted(rs)
           N == Len(rs)
           F == Leading(DOMAIN rs, rs)
           G == {n \in 0..N : CompactTo(R, f[n].rows, f[n].count, rs, n)}
<1>1. /\ N \in Nat
      /\ Deduplicate(rs) = SubSeq(f[N].rows, 1, f[N].count)
      /\ f[0] = [rows |-> rs, count |-> 0]
      /\ \A n \in 1..N : f[n] = KeepNew(f[n - 1], n)
  BY CompactedDef
<1>2. F \in SUBSET (1..N)
  BY DEF Leading
<1> HIDE DEF f
<1>3. 0 \in G
  <2>1. /\ rs \in [1..N -> R] /\ \A k \in 1..N : k \in DOMAIN rs
        /\ 0 + 1 = 1
    OBVIOUS
  <2>2. \A i \in F : ~(i <= 0)
    <3>1. F \in SUBSET (1..N)
      BY <1>2
    <3>2. \A i \in 1..N : ~(i <= 0)
      BY <1>2
    <3> QED BY ONLY <3>1, <3>2
  <2>3. CompactTo(R, rs, 0, rs, 0)
    BY <1>1, <1>2, <2>1, <2>2, PlaceStep DEF CompactTo
  <2>4. 0 \in 0..N
    BY <1>1
  <2> QED BY <1>1, <2>3, <2>4
<1>4. ASSUME NEW n \in 1..N, n - 1 \in G PROVE n \in G
  <2>1. CompactTo(R, f[n - 1].rows, f[n - 1].count, rs, n - 1)
    BY <1>4
  <2>2. CompactTo(R, f[n].rows, f[n].count, rs, n)
    BY <1>1, <2>1, KeepNewInOrder
  <2> QED BY <1>1, <2>2
<1>5. N \in G
  <2> HIDE DEF G, N
  <2>1. \A n \in 1..N : n - 1 \in G => n \in G
    BY <1>4
  <2>2. \A n \in 0..N : n \in G
    BY <1>1, <1>3, <2>1, UpTo
  <2> QED BY <1>1, <2>2
<1> DEFINE a == f[N].rows
           c == f[N].count
           d == SubSeq(a, 1, c)
<1>6. /\ a \in [1..N -> R] /\ c = Place(F, N)
      /\ \A i \in F : i <= N => a[Place(F, i)] = rs[i]
  BY <1>5 DEF CompactTo
<1> HIDE DEF a, c
<1>7. a \in Seq(R) /\ Len(a) = N
  <2> HIDE DEF N
  <2>1. a \in Seq(R)
    BY <1>1, <1>6, SeqDef
  <2> QED BY <1>1, <1>6, <2>1, LenProperties
<1> HIDE DEF F, N
<1>8. c \in 0..N
  BY <1>1, <1>2, <1>6, PlaceStep
<1>9. d \in Seq(R) /\ Len(d) = c /\ \A k \in 1..c : d[k] = a[k]
  BY <1>1, <1>7, <1>8
<1>10. InOrderTo(d, F, N, rs, N)
  <2>1. Len(d) = IF Place(F, N) < N THEN Place(F, N) ELSE N
    BY <1>1, <1>6, <1>8, <1>9
  <2>2. ASSUME NEW i \in F, i <= N PROVE d[Place(F, i)] = rs[i]
    <3>1. Place(F, i) \in 1..c
      <4>1. N \in 0..N
        BY <1>1
      <4> QED BY <1>1, <1>2, <1>6, <2>2, <4>1, PlaceGrows
    <3> QED BY <1>6, <1>9, <2>2, <3>1
  <2> QED BY <2>1, <2>2 DEF InOrderTo
<1>11. InOrder(d, F, N, rs)
  BY <1>1, <1>2, <1>10, InOrderAll
<1> QED BY <1>1, <1>11 DEF N, F, a, c

\* Rows read in order are appended in order, those alike once: whatever
\* there was before them, the rows of the source are the ones that follow.
THEOREM AppendInOrder ==
  ASSUME NEW R, NEW rs \in Seq(R), NEW max \in Nat, NEW k \in 0..Len(rs),
         NEW dst \in Seq(R), InOrderTo(dst, Leading(DOMAIN rs, Untyped(rs)), max, rs, k),
         NEW src \in Seq(R), k + Len(src) <= Len(rs),
         \A m \in 1..Len(src) : src[m] = rs[k + m]
  PROVE  LET d == AppendUnique(dst, max, src) IN
         /\ d \in Seq(R)
         /\ InOrderTo(d, Leading(DOMAIN rs, Untyped(rs)), max, rs, k + Len(src))
<1> DEFINE N == Len(rs)
           S == DOMAIN rs
           key == Untyped(rs)
           F == Leading(S, key)
           f == Filled(dst, max, src)
           M == Len(src)
           Good(m) == f[m] \in Seq(R) /\ InOrderTo(f[m], F, max, rs, k + m)
           G == {m \in 0..M : Good(m)}
<1>1. /\ AppendUnique(dst, max, src) = f[M] /\ f[0] = dst
      /\ \A m \in 1..M : f[m] = AppendRow(f[m - 1], max, src[m])
  BY FilledDef
<1>2. N \in Nat /\ M \in Nat /\ S = 1..N /\ F \in SUBSET (1..N)
  BY DEF Leading
<1> HIDE DEF f
<1>3. 0 \in G
  <2>1. k + 0 = k /\ 0 \in 0..M
    BY <1>2
  <2> QED BY <1>1, <2>1
<1>4. ASSUME NEW m \in 1..M, Good(m - 1) PROVE Good(m)
  <2> DEFINE n == k + m
             d == f[m - 1]
             e == f[m]
             held == [i \in DOMAIN d |-> [d[i] EXCEPT !.rrtype = ""]]
  <2>1. n \in 1..N /\ k + (m - 1) = n - 1 /\ src[m] = rs[n] /\ rs[n] \in R
    BY <1>2
  <2>2. d \in Seq(R) /\ InOrderTo(d, F, max, rs, n - 1)
    BY <1>4, <2>1
  <2>3. e = IF Len(d) >= max \/ \E i \in 1..Len(d) : Alike(d[i], rs[n]) THEN d
            ELSE Append(d, rs[n])
    BY <1>1, <2>1 DEF AppendRow
  <2>4. /\ n \notin F \/ Len(d) >= max => InOrderTo(d, F, max, rs, n)
        /\ n \in F /\ ~(Len(d) >= max) => InOrderTo(Append(d, rs[n]), F, max, rs, n)
    <3> HIDE DEF F, N, n, d
    <3> QED BY <1>2, <2>1, <2>2, InOrderStep
  <2>5. ASSUME ~(Len(d) >= max)
        PROVE  n \in F <=> ~ \E i \in 1..Len(d) : Alike(d[i], rs[n])
    <3> HIDE DEF F, S, N, n, d
    <3>1. /\ Len(d) = Place(F, n - 1)
          /\ Place(F, n - 1) \in Nat
          /\ n - 1 \in 0..N
          /\ \A i \in 0..n-1 : i \in Nat
      <4>1. n - 1 \in 0..N /\ \A i \in 0..n-1 : i \in Nat
        BY <1>2, <2>1
      <4>2. Place(F, n - 1) \in Nat
        <5>1. Place(F, n - 1) \in 0..n-1
          <6>1. \A j \in 0..N : Place(F, j) \in 0..j
            BY ONLY <1>2, PlaceStep
          <6> QED BY ONLY <4>1, <6>1
        <5>2. \A x : 0..x \subseteq Nat
          OBVIOUS
        <5> QED BY <5>1, <5>2
      <4> QED BY <2>2, <2>5, <4>1, <4>2 DEF InOrderTo
    <3>2. ASSUME NEW i \in F, i < n PROVE held[Place(F, i)] = key[i]
      <4>1. i \in 1..N /\ i <= n - 1
        BY <1>2, <2>1, <3>2
      <4>2. Place(F, i) \in 1..Place(F, n - 1)
        BY <1>2, <3>1, <4>1, PlaceGrows
      <4>3. Place(F, i) \in DOMAIN d /\ Place(F, i) <= max
        BY <2>2, <2>5, <3>1, <4>2
      <4>4. d[Place(F, i)] = rs[i]
        BY <2>2, <4>1, <4>3 DEF InOrderTo
      <4>5. i \in DOMAIN rs
        BY <1>2, <4>1 DEF S
      <4> QED BY <4>3, <4>4, <4>5 DEF Untyped
    <3> HIDE DEF held, key
    <3>3. n \in F <=> n \in S /\ \A i \in 1..Place(F, n - 1) : held[i] # key[n]
      <4>1. S \in SUBSET (1..N)
        BY <1>2
      <4>2. KeptBefore(n, S, key, held)
        BY <3>2 DEF F, KeptBefore
      <4>3. N \in Nat /\ n \in 1..N
        BY <1>2, <2>1
      <4> QED BY ONLY <4>1, <4>2, <4>3, IsNew DEF F
    <3>4. \A i \in 1..Len(d) : held[i] = key[n] <=> Alike(d[i], rs[n])
      <4>1. n \in DOMAIN rs /\ DOMAIN d = 1..Len(d)
        BY <1>2, <2>1, <2>2 DEF S
      <4> QED BY <4>1 DEF held, key, Untyped, Alike
    <3> QED BY <1>2, <2>1, <3>1, <3>3, <3>4
  <2>6. Append(d, rs[n]) \in Seq(R)
    BY <2>1, <2>2
  <2> HIDE DEF d, e, n, F, held
  <2>7. e \in Seq(R) /\ InOrderTo(e, F, max, rs, n)
    BY <2>2, <2>3, <2>4, <2>5, <2>6
  <2> QED BY <2>7 DEF e, n
<1>5. Good(M)
  <2> HIDE DEF Good, M
  <2>1. \A m \in 1..M : m - 1 \in G => m \in G
    BY <1>4
  <2> HIDE DEF G
  <2>2. \A m \in 0..M : m \in G
    BY <1>2, <1>3, <2>1, UpTo
  <2>3. M \in G
    BY <1>2, <2>2
  <2> QED BY <2>3 DEF G
<1> QED BY <1>1, <1>5

\* For any rows, the types queried are those enumerated, each once and in
\* the order they were first enumerated.
THEOREM TypesInOrder ==
  ASSUME NEW R, NEW rs \in Seq(R), NEW max \in Nat
  PROVE  InOrder(ServiceTypes(rs, max),
                 Leading({i \in DOMAIN rs : NamesType(rs[i])}, InstancesOf(rs)),
                 max, InstancesOf(rs))
<1> DEFINE N == Len(rs)
           S == {i \in DOMAIN rs : NamesType(rs[i])}
           v == InstancesOf(rs)
           F == Leading(S, v)
           V == {r.instance : r \in R}
           f == Extracted(rs, max)
           Good(n) == f[n] \in Seq(V) /\ InOrderTo(f[n], F, max, v, n)
           G == {n \in 0..N : Good(n)}
<1>1. /\ ServiceTypes(rs, max) = f[N] /\ f[0] = << >>
      /\ \A n \in 1..N : f[n] = AddType(f[n - 1], max, rs[n])
  BY FoundDef
<1>2. /\ N \in Nat /\ S \in SUBSET (1..N) /\ F \in SUBSET (1..N)
      /\ \A n \in 1..N : rs[n] \in R /\ v[n] = rs[n].instance /\ v[n] \in V
      /\ \A n \in 1..N : n \in S <=> NamesType(rs[n])
  BY DEF Leading, InstancesOf
<1> HIDE DEF f, S, v, V, F, N
<1>3. 0 \in G
  <2>1. << >> \in Seq(V) /\ Len(<< >>) = 0
    OBVIOUS
  <2>2. \A i \in F : ~(i <= 0)
    <3>1. F \in SUBSET (1..N)
      BY <1>2
    <3>2. \A i \in 1..N : ~(i <= 0)
      BY <1>2
    <3> QED BY ONLY <3>1, <3>2
  <2>3. Place(F, 0) = 0
    BY <1>2, PlaceStep
  <2>4. InOrderTo(<< >>, F, max, v, 0)
    BY <2>1, <2>2, <2>3 DEF InOrderTo
  <2>5. 0 \in 0..N
    BY <1>2
  <2> QED BY <1>1, <2>1, <2>4, <2>5
<1>4. ASSUME NEW n \in 1..N, Good(n - 1) PROVE Good(n)
  <2> DEFINE d == f[n - 1]
             e == f[n]
  <2>1. d \in Seq(V) /\ InOrderTo(d, F, max, v, n - 1)
    BY <1>4
  <2>2. e = IF Len(d) >= max \/ ~NamesType(rs[n]) \/ \E k \in 1..Len(d) : d[k] = rs[n].instance
            THEN d ELSE Append(d, rs[n].instance)
    BY <1>1 DEF AddType
  <2>3. n \in 1..N /\ n - 1 \in 0..N /\ v[n] \in V /\ v[n] = rs[n].instance
    BY <1>2
  <2> HIDE DEF d, e
  <2>4. /\ n \notin F \/ Len(d) >= max => InOrderTo(d, F, max, v, n)
        /\ n \in F /\ ~(Len(d) >= max) => InOrderTo(Append(d, v[n]), F, max, v, n)
    BY <1>2, <2>1, <2>3, InOrderStep
  <2>5. ASSUME ~(Len(d) >= max)
        PROVE  n \in F <=> NamesType(rs[n]) /\ ~ \E k \in 1..Len(d) : d[k] = rs[n].instance
    <3>1. Place(F, n - 1) \in Nat
      <4>1. Place(F, n - 1) \in 0..n-1
        BY ONLY <1>2, <2>3, PlaceStep
      <4>2. \A x : 0..x \subseteq Nat
        OBVIOUS
      <4> QED BY <4>1, <4>2
    <3>2. Len(d) = Place(F, n - 1)
      BY <2>1, <2>5, <3>1 DEF InOrderTo
    <3>3. ASSUME NEW i \in F, i < n PROVE d[Place(F, i)] = v[i]
      <4>1. i \in 1..N /\ i <= n - 1
        BY <1>2, <2>3, <3>3
      <4>2. Place(F, i) \in 1..Place(F, n - 1)
        BY <1>2, <2>3, <4>1, PlaceGrows
      <4>3. Place(F, i) <= max
        BY <2>5, <3>1, <3>2, <4>2
      <4> QED BY <2>1, <4>1, <4>3 DEF InOrderTo
    <3>4. n \in F <=> n \in S /\ \A k \in 1..Place(F, n - 1) : d[k] # v[n]
      <4>1. KeptBefore(n, S, v, d)
        BY <3>3 DEF F, KeptBefore
      <4>2. N \in Nat /\ S \in SUBSET (1..N) /\ n \in 1..N
        BY <1>2, <2>3
      <4> QED BY ONLY <4>1, <4>2, IsNew DEF F
    <3> QED BY <1>2, <2>3, <3>2, <3>4
  <2>6. Append(d, v[n]) \in Seq(V)
    BY <2>1, <2>3
  <2>7. e \in Seq(V) /\ InOrderTo(e, F, max, v, n)
    BY <2>1, <2>2, <2>3, <2>4, <2>5, <2>6
  <2> QED BY <2>7 DEF e
<1>5. Good(N)
  <2> HIDE DEF Good
  <2>1. \A n \in 1..N : n - 1 \in G => n \in G
    BY <1>4
  <2> HIDE DEF G
  <2>2. \A n \in 0..N : n \in G
    BY <1>2, <1>3, <2>1, UpTo
  <2>3. N \in G
    BY <1>2, <2>2
  <2> QED BY <2>3 DEF G
<1>6. InOrder(f[N], F, max, v)
  BY <1>2, <1>5, InOrderAll
<1> QED BY <1>1, <1>6 DEF F, S, v

----------------------------------------------------------------------------
(* Merging rows by instance. *)

\* The rows merged of the first n.
Merged(results) ==
  CHOOSE f : f = [n \in 0..Len(results) |->
                    IF n = 0 THEN << >> ELSE MergeRow(f[n - 1], results[n])]

\* The loop of merge_service_results is defined for any rows.
LEMMA MergedDef ==
  ASSUME NEW results, Len(results) \in Nat
  PROVE  LET f == Merged(results) IN
         /\ Merge(results) = f[Len(results)]
         /\ f[0] = << >>
         /\ \A n \in 1..Len(results) : f[n] = MergeRow(f[n - 1], results[n])
<1> DEFINE Body(f, m) == [n \in 0..m |->
                    IF n = 0 THEN << >> ELSE MergeRow(f[n - 1], results[n])]
           G == {m \in 0..Len(results) : \E f : f = Body(f, m)}
<1>1. 0 \in G
  <2> DEFINE f == [n \in 0..0 |-> << >>]
  <2>1. f = Body(f, 0)
    OBVIOUS
  <2> HIDE DEF f, Body
  <2> QED BY <2>1
<1>2. ASSUME NEW i \in 1..Len(results), i - 1 \in G PROVE i \in G
  <2>1. PICK f : f = Body(f, i - 1)
    BY <1>2
  <2> DEFINE g == [n \in 0..i |-> IF n = i THEN MergeRow(f[i - 1], results[i]) ELSE f[n]]
  <2>2. ASSUME NEW n \in 0..i
        PROVE  g[n] = IF n = 0 THEN << >> ELSE MergeRow(g[n - 1], results[n])
    <3>1. CASE n = i
      BY <3>1
    <3>2. CASE n # i
      <4>1. n \in 0..i-1
        BY <3>2
      <4>2. g[n] = f[n] /\ (n # 0 => g[n - 1] = f[n - 1])
        BY <4>1
      <4>3. f[n] = Body(f, i - 1)[n]
        BY <2>1
      <4> QED BY <4>1, <4>2, <4>3
    <3> QED BY <3>1, <3>2
  <2>3. g = Body(g, i)
    BY <2>2
  <2> HIDE DEF g, Body
  <2> QED BY <2>3
<1>3. Len(results) \in G
  <2> HIDE DEF G
  <2>1. \A i \in 1..Len(results) : i - 1 \in G => i \in G
    BY <1>2
  <2>2. \A i \in 0..Len(results) : i \in G
    BY <1>1, <2>1, UpTo
  <2> QED BY <2>2
<1> DEFINE f == Merged(results)
<1>4. f = Body(f, Len(results))
  BY <1>3 DEF Merged
<1>5. Merge(results) = f[Len(results)]
  BY DEF Merge, Merged
<1> HIDE DEF f
<1>6. ASSUME NEW n \in 0..Len(results)
      PROVE  f[n] = IF n = 0 THEN << >> ELSE MergeRow(f[n - 1], results[n])
  <2>1. f[n] = Body(f, Len(results))[n]
    BY <1>4
  <2> QED BY <2>1
<1>7. f[0] = << >> /\ \A n \in 1..Len(results) : f[n] = MergeRow(f[n - 1], results[n])
  BY <1>6
<1> QED BY <1>5, <1>7 DEF f

\* The columns a merged row gathers, and their empty values.
Columns == {"hostname", "service_type", "address", "port", "txt"}
Empty(c) == IF c = "port" THEN 0 ELSE ""

\* A row has the columns of a umdns_result_t.
IsRow(r) == DOMAIN r = DOMAIN NoRow

\* A column is filled only where it is empty.
LEMMA FillColumns ==
  ASSUME NEW a, IsRow(a), NEW b
  PROVE  /\ IsRow(Fill(a, b)) /\ Fill(a, b).instance = a.instance
         /\ \A c \in Columns : Fill(a, b)[c] = IF a[c] = Empty(c) THEN b[c] ELSE a[c]
<1>1. DOMAIN a = {"rrtype", "instance", "hostname", "service_type", "address", "port", "txt"}
  BY DEF IsRow, NoRow
<1>2. DOMAIN Fill(a, b) = DOMAIN a /\ Fill(a, b).instance = a.instance
  BY <1>1 DEF Fill
<1>3. /\ Fill(a, b).hostname = IF a.hostname = "" THEN b.hostname ELSE a.hostname
      /\ Fill(a, b).service_type = IF a.service_type = "" THEN b.service_type ELSE a.service_type
      /\ Fill(a, b).address = IF a.address = "" THEN b.address ELSE a.address
      /\ Fill(a, b).port = IF a.port = 0 THEN b.port ELSE a.port
      /\ Fill(a, b).txt = IF a.txt = "" THEN b.txt ELSE a.txt
  BY <1>1 DEF Fill
<1> DEFINE g == Fill(a, b)
<1> HIDE DEF g
<1>4. \A c \in Columns : g[c] = IF a[c] = Empty(c) THEN b[c] ELSE a[c]
  BY <1>3 DEF Columns, Empty, g
<1> QED BY <1>2, <1>4 DEF IsRow, g

\* The first value heard of a column, one row later.
LEMMA FirstOfStep ==
  ASSUME NEW rs, NEW n \in Nat \ {0}, NEW inst, NEW c, NEW empty
  PROVE  LET old == FirstOf(rs, n - 1, inst, c, empty) IN
         FirstOf(rs, n, inst, c, empty) =
           IF Mergeable(rs[n]) /\ rs[n].instance = inst /\ old = empty THEN rs[n][c] ELSE old
<1> DEFINE Q(i) == Mergeable(rs[i]) /\ rs[i].instance = inst /\ rs[i][c] # empty
           H == {i \in 1..n-1 : Q(i)}
           K == {i \in 1..n : Q(i)}
           old == FirstOf(rs, n - 1, inst, c, empty)
           new == FirstOf(rs, n, inst, c, empty)
<1>1. /\ old = IF H = {} THEN empty ELSE rs[Min(H)][c]
      /\ new = IF K = {} THEN empty ELSE rs[Min(K)][c]
  BY Zenon DEF FirstOf
<1>2. H \in SUBSET Nat /\ K \in SUBSET Nat
  OBVIOUS
<1>3. \A i \in 1..n : i \in 1..n-1 \/ i = n
  OBVIOUS
<1>4. \A i \in 1..n-1 : i \in 1..n /\ i < n
  OBVIOUS
<1>5. n \in 1..n
  OBVIOUS
<1> HIDE DEF Q, old, new
<1>6. CASE H # {}
  <2>1. Min(H) \in H /\ \A i \in H : Min(H) <= i
    BY <1>2, <1>6, MinExists
  <2>2. Min(H) \in K
    BY <1>4, <2>1
  <2>3. \A i \in K : Min(H) <= i
    <3>1. ASSUME NEW i \in K PROVE Min(H) <= i
      <4>1. CASE i \in 1..n-1
        BY <2>1, <4>1
      <4>2. CASE i = n
        <5>1. Min(H) \in 1..n-1
          BY <2>1
        <5> QED BY <4>2, <5>1
      <4> QED BY <1>3, <4>1, <4>2
    <3> QED BY <3>1
  <2> HIDE DEF K, H
  <2>4. Min(K) = Min(H)
    BY <1>2, <2>2, <2>3, MinIs
  <2>5. old = rs[Min(H)][c] /\ new = old
    BY <1>1, <1>6, <2>2, <2>4
  <2>6. old # empty
    BY <2>1, <2>5 DEF H, Q
  <2> QED BY <2>5, <2>6 DEF old, new
<1>7. CASE H = {}
  <2>1. old = empty
    BY <1>1, <1>7
  <2>2. CASE Q(n)
    <3>1. n \in K /\ \A i \in K : n <= i
      BY <1>3, <1>5, <1>7, <2>2
    <3> HIDE DEF K, H
    <3>2. Min(K) = n
      BY <1>2, <3>1, MinIs
    <3>3. new = rs[n][c]
      BY <1>1, <3>1, <3>2
    <3> QED BY <2>1, <2>2, <3>3 DEF Q, old, new
  <2>3. CASE ~Q(n)
    <3>1. K = {}
      BY <1>3, <1>7, <2>3
    <3>2. new = empty
      BY <1>1, <3>1
    <3> QED BY <2>1, <2>3, <3>2 DEF Q, old, new
  <2> QED BY <2>2, <2>3
<1> QED BY <1>6, <1>7

\* Nothing was heard of an instance whose first row is n.
LEMMA FirstOfNone ==
  ASSUME NEW rs, NEW n \in 0..Len(rs), Len(rs) \in Nat, NEW inst,
         \A i \in 1..n : ~(Mergeable(rs[i]) /\ rs[i].instance = inst)
  PROVE  \A c, empty : FirstOf(rs, n, inst, c, empty) = empty
BY DEF FirstOf

\* What r holds after n rows: the first of everything heard of inst.
Gathers(r, rs, n, inst) ==
  /\ IsRow(r) /\ r.instance = inst
  /\ \A c \in Columns : r[c] = FirstOf(rs, n, inst, c, Empty(c))

\* What holds of the rows m merged of the first n.
MergedTo(m, rs, F, n) ==
  /\ (\E V : m \in Seq(V)) /\ Len(m) = Place(F, n)
  /\ \A i \in F : i <= n => Gathers(m[Place(F, i)], rs, n, rs[i].instance)

\* A row of another instance changes nothing, one of this one fills it.
LEMMA GathersStep ==
  ASSUME NEW rs, NEW n \in Nat \ {0}, NEW inst, NEW r, Gathers(r, rs, n - 1, inst)
  PROVE  /\ ~(Mergeable(rs[n]) /\ rs[n].instance = inst) => Gathers(r, rs, n, inst)
         /\ Mergeable(rs[n]) /\ rs[n].instance = inst => Gathers(Fill(r, rs[n]), rs, n, inst)
<1>1. \A c \in Columns :
        FirstOf(rs, n, inst, c, Empty(c)) =
          IF Mergeable(rs[n]) /\ rs[n].instance = inst /\ FirstOf(rs, n - 1, inst, c, Empty(c)) = Empty(c)
          THEN rs[n][c] ELSE FirstOf(rs, n - 1, inst, c, Empty(c))
  BY FirstOfStep
<1>2. /\ IsRow(r) /\ r.instance = inst
      /\ \A c \in Columns : r[c] = FirstOf(rs, n - 1, inst, c, Empty(c))
  BY DEF Gathers
<1> DEFINE g == Fill(r, rs[n])
<1>3. /\ IsRow(g) /\ g.instance = r.instance
      /\ \A c \in Columns : g[c] = IF r[c] = Empty(c) THEN rs[n][c] ELSE r[c]
  BY <1>2, FillColumns
<1> HIDE DEF g
<1>4. ~(Mergeable(rs[n]) /\ rs[n].instance = inst) => Gathers(r, rs, n, inst)
  BY <1>1, <1>2 DEF Gathers
<1>5. ASSUME Mergeable(rs[n]), rs[n].instance = inst PROVE Gathers(g, rs, n, inst)
  BY <1>1, <1>2, <1>3, <1>5 DEF Gathers
<1> QED BY <1>4, <1>5 DEF g

\* The positions of mergeable rows.
Merging(rs) == {i \in DOMAIN rs : Mergeable(rs[i])}

\* One row merged.
LEMMA MergeRowStep ==
  ASSUME NEW R, NEW rs \in Seq(R), \A r \in R : IsRow(r), NEW n \in 1..Len(rs),
         NEW m, MergedTo(m, rs, Leading(Merging(rs), InstancesOf(rs)), n - 1),
         NEW e, e = MergeRow(m, rs[n])
  PROVE  MergedTo(e, rs, Leading(Merging(rs), InstancesOf(rs)), n)
<1> DEFINE N == Len(rs)
           S == Merging(rs)
           v == InstancesOf(rs)
           F == Leading(S, v)
           same == {k \in 1..Len(m) : m[k].instance = rs[n].instance}
<1>1. /\ N \in Nat /\ S \in SUBSET (1..N) /\ n \in 1..N /\ n - 1 \in 0..N
      /\ \A i \in 1..N : v[i] = rs[i].instance /\ (i \in S <=> Mergeable(rs[i]))
      /\ IsRow(rs[n]) /\ n \in Nat \ {0}
  BY DEF Merging, InstancesOf
<1>2. /\ F \in SUBSET (1..N) /\ F \subseteq S
      /\ \A i, j \in F : v[i] = v[j] => i = j
  <2> HIDE DEF S, v, N
  <2>1. N \in Nat /\ S \in SUBSET (1..N)
    BY <1>1
  <2>2. F \subseteq S
    BY DEF Leading
  <2>3. \A i, j \in F : v[i] = v[j] => i = j
    BY ONLY <2>1, LeadersDiffer
  <2> QED BY <2>1, <2>2, <2>3
<1>3. PICK V : m \in Seq(V)
  BY DEF MergedTo
<1>4. /\ Len(m) = Place(F, n - 1) /\ Len(m) \in Nat
      /\ \A i \in F : i <= n - 1 => Gathers(m[Place(F, i)], rs, n - 1, v[i])
  BY <1>1, <1>2, <1>3 DEF MergedTo
<1>5. e = IF ~Mergeable(rs[n]) THEN m
          ELSE IF same = {} THEN Append(m, rs[n])
          ELSE [m EXCEPT ![Min(same)] = Fill(@, rs[n])]
  BY Zenon DEF MergeRow
<1> HIDE DEF N, S, v, same
<1>6. /\ \A i \in F : i \in 1..N /\ (i <= n => i = n \/ i <= n - 1) /\ (i <= n - 1 => i # n)
      /\ \A i \in F : i < n <=> i <= n - 1
  BY <1>1, <1>2
<1>7. n \in F <=> n \in S /\ same = {}
  <2> DEFINE kept == InstancesOf(m)
  <2>1. DOMAIN m = 1..Len(m) /\ \A k \in 1..Len(m) : kept[k] = m[k].instance
    BY <1>3 DEF InstancesOf
  <2> HIDE DEF kept, F
  <2>2. \A i \in F : i <= n - 1 => Place(F, i) \in 1..Place(F, n - 1)
    BY <1>1, <1>2, PlaceGrows
  <2>3. \A i \in F : i < n => kept[Place(F, i)] = v[i]
    BY <1>4, <1>6, <2>1, <2>2 DEF Gathers
  <2>4. KeptBefore(n, S, v, kept)
    BY <2>3 DEF KeptBefore, F
  <2>5. n \in F <=> n \in S /\ \A k \in 1..Place(F, n - 1) : kept[k] # v[n]
    <3>1. N \in Nat /\ S \in SUBSET (1..N) /\ n \in 1..N
      BY <1>1
    <3> QED BY ONLY <2>4, <3>1, IsNew DEF F
  <2>6. same = {} <=> \A k \in 1..Len(m) : kept[k] # v[n]
    BY <1>1, <2>1 DEF same
  <2> QED BY <1>4, <2>5, <2>6
<1>8. /\ Place(F, n) = IF n \in F THEN Place(F, n - 1) + 1 ELSE Place(F, n - 1)
      /\ \A i \in F : i <= n - 1 => Place(F, i) \in 1..Len(m)
      /\ \A i, j \in F : i # j => Place(F, i) # Place(F, j)
  <2> HIDE DEF F
  <2>1. N \in Nat /\ F \in SUBSET (1..N) /\ n \in 1..N /\ n - 1 \in 0..N
    BY <1>1, <1>2
  <2>2. Place(F, n) = IF n \in F THEN Place(F, n - 1) + 1 ELSE Place(F, n - 1)
    <3>1. \A x \in 1..N : Place(F, x) = IF x \in F THEN Place(F, x - 1) + 1 ELSE Place(F, x - 1)
      BY ONLY <2>1, PlaceStep
    <3> QED BY <2>1, <3>1
  <2>3. /\ \A i \in F : i <= n - 1 => Place(F, i) \in 1..Place(F, n - 1)
        /\ \A i, j \in F : i < j => Place(F, i) < Place(F, j)
    BY ONLY <2>1, PlaceGrows
  <2>4. \A i \in F : Place(F, i) \in Nat
    <3>1. \A i \in F : i \in 0..N
      BY <2>1
    <3>2. \A i \in 0..N : Place(F, i) \in 0..i
      BY ONLY <2>1, PlaceStep
    <3>3. \A i \in 0..N : 0..i \subseteq Nat
      OBVIOUS
    <3> QED BY <3>1, <3>2, <3>3
  <2>5. ASSUME NEW i \in F, NEW j \in F, i # j PROVE Place(F, i) # Place(F, j)
    <3>1. i < j \/ j < i
      BY <1>6, <2>5
    <3> QED BY <2>3, <2>4, <3>1
  <2> QED BY <1>4, <2>2, <2>3, <2>5
<1> HIDE DEF F
<1>9. \A i \in F : i <= n - 1 =>
        /\ ~(n \in S /\ v[n] = v[i]) => Gathers(m[Place(F, i)], rs, n, v[i])
        /\ n \in S /\ v[n] = v[i] => Gathers(Fill(m[Place(F, i)], rs[n]), rs, n, v[i])
  BY <1>1, <1>4, GathersStep
<1>10. \A i \in F : v[i] = rs[i].instance
  BY <1>1, <1>2
<1>11. CASE n \notin S
  <2>1. e = m /\ n \notin F
    BY <1>1, <1>2, <1>5, <1>11
  <2> QED BY <1>3, <1>4, <1>6, <1>8, <1>9, <1>10, <1>11, <2>1 DEF MergedTo, F, S, v
<1>12. CASE n \in F
  <2>1. e = Append(m, rs[n])
    BY <1>1, <1>5, <1>7, <1>12
  <2>2. /\ Len(e) = Len(m) + 1 /\ e[Len(m) + 1] = rs[n]
        /\ \A k \in 1..Len(m) : e[k] = m[k]
        /\ e \in Seq(V \cup {rs[n]})
    BY <1>3, <2>1
  <2>3. Gathers(rs[n], rs, n, v[n])
    <3>1. \A i \in 1..n-1 : ~(Mergeable(rs[i]) /\ rs[i].instance = v[n])
      <4>1. \A i \in S : i < n => v[i] # v[n]
        BY <1>12 DEF F, Leading
      <4>2. \A i \in 1..n-1 : i \in 1..N /\ i < n
        BY <1>1
      <4> QED BY <1>1, <4>1, <4>2
    <3>2. n - 1 \in 0..Len(rs) /\ Len(rs) \in Nat
      BY <1>1 DEF N
    <3>3. \A c, empty : FirstOf(rs, n - 1, v[n], c, empty) = empty
      BY ONLY <3>1, <3>2, FirstOfNone
    <3>4. \A c \in Columns :
            FirstOf(rs, n, v[n], c, Empty(c)) =
              IF Mergeable(rs[n]) /\ rs[n].instance = v[n] /\ FirstOf(rs, n - 1, v[n], c, Empty(c)) = Empty(c)
              THEN rs[n][c] ELSE FirstOf(rs, n - 1, v[n], c, Empty(c))
      BY <1>1, FirstOfStep
    <3>5. Mergeable(rs[n]) /\ rs[n].instance = v[n]
      BY <1>1, <1>7, <1>12
    <3> QED BY <1>1, <3>3, <3>4, <3>5 DEF Gathers
  <2>4. ASSUME NEW i \in F, i <= n PROVE Gathers(e[Place(F, i)], rs, n, v[i])
    <3>1. CASE i = n
      <4>1. Place(F, i) = Len(m) + 1
        BY <1>4, <1>8, <1>12, <3>1
      <4> QED BY <2>2, <2>3, <3>1, <4>1
    <3>2. CASE i <= n - 1
      <4>1. v[n] # v[i]
        BY <1>2, <1>6, <1>12, <3>2
      <4> QED BY <1>8, <1>9, <2>2, <3>2, <4>1
    <3> QED BY <1>6, <2>4, <3>1, <3>2
  <2> QED BY <1>4, <1>8, <1>10, <1>12, <2>2, <2>4 DEF MergedTo, F, S, v
<1>13. CASE n \in S /\ n \notin F
  <2> DEFINE k == Min(same)
  <2>1. k \in same
    <3>1. same \in SUBSET Nat
      BY <1>4 DEF same
    <3> QED BY <1>7, <1>13, <3>1, MinExists
  <2>2. k \in 1..Len(m) /\ m[k].instance = v[n] /\ e = [m EXCEPT ![k] = Fill(@, rs[n])]
    BY <1>1, <1>5, <1>7, <1>13, <2>1 DEF same
  <2> HIDE DEF k
  <2>3. /\ e[k] = Fill(m[k], rs[n]) /\ Len(e) = Len(m)
        /\ \A j \in 1..Len(m) : j # k => e[j] = m[j]
        /\ \E W : e \in Seq(W)
    <3>1. m \in Seq(V \cup {Fill(m[k], rs[n])})
      BY <1>3
    <3> QED BY <2>2, <3>1
  <2>4. PICK j \in F : j <= n - 1 /\ Place(F, j) = k
    <3>1. N \in Nat /\ F \in SUBSET (1..N) /\ n - 1 \in 0..N /\ k \in 1..Place(F, n - 1)
      BY <1>1, <1>2, <1>4, <2>2
    <3> QED BY ONLY <3>1, PlaceTaken
  <2>5. v[j] = v[n]
    BY <1>4, <2>2, <2>4 DEF Gathers
  <2>6. ASSUME NEW i \in F, i <= n PROVE Gathers(e[Place(F, i)], rs, n, v[i])
    <3>1. i <= n - 1
      BY <1>6, <1>13, <2>6
    <3>2. CASE i = j
      BY <1>9, <1>13, <2>3, <2>4, <2>5, <3>1, <3>2
    <3>3. CASE i # j
      BY <1>2, <1>8, <1>9, <2>3, <2>4, <2>5, <3>1, <3>3
    <3> QED BY <3>2, <3>3
  <2> QED BY <1>4, <1>8, <1>10, <1>13, <2>3, <2>6 DEF MergedTo, F, S, v
<1> QED BY <1>7, <1>11, <1>12, <1>13

\* For any rows, there is one merged row per instance, in order of
\* appearance, each column of it with the first value heard of the instance.
THEOREM MergeInOrder ==
  ASSUME NEW R, NEW rs \in Seq(R), \A r \in R : IsRow(r)
  PROVE  LET F == Leading(Merging(rs), InstancesOf(rs))
             m == Merge(rs)
         IN  /\ \E V : m \in Seq(V)
             /\ Len(m) = Cardinality(F)
             /\ \A i \in F : Gathers(m[Place(F, i)], rs, Len(rs), rs[i].instance)
<1> DEFINE N == Len(rs)
           F == Leading(Merging(rs), InstancesOf(rs))
           f == Merged(rs)
           G == {n \in 0..N : MergedTo(f[n], rs, F, n)}
<1>1. /\ Merge(rs) = f[N] /\ f[0] = << >>
      /\ \A n \in 1..N : f[n] = MergeRow(f[n - 1], rs[n])
  BY MergedDef
<1>2. N \in Nat /\ F \in SUBSET (1..N)
  BY DEF Leading, Merging
<1> HIDE DEF f
<1>3. 0 \in G
  <2> HIDE DEF F
  <2>1. << >> \in Seq({}) /\ Len(<< >>) = 0
    OBVIOUS
  <2>2. \A i \in F : ~(i <= 0)
    <3>1. F \in SUBSET (1..N)
      BY <1>2
    <3>2. \A i \in 1..N : ~(i <= 0)
      BY <1>2
    <3> QED BY ONLY <3>1, <3>2
  <2>3. Place(F, 0) = 0
    BY <1>2, PlaceStep
  <2>4. MergedTo(<< >>, rs, F, 0)
    BY <2>1, <2>2, <2>3 DEF MergedTo
  <2>5. 0 \in 0..N
    BY <1>2
  <2> QED BY <1>1, <2>4, <2>5
<1>4. ASSUME NEW n \in 1..N, n - 1 \in G PROVE n \in G
  <2>1. MergedTo(f[n - 1], rs, F, n - 1)
    BY <1>4
  <2>2. MergedTo(f[n], rs, F, n)
    BY <1>1, <2>1, MergeRowStep
  <2> QED BY <2>2
<1>5. N \in G
  <2> HIDE DEF G, N
  <2>1. \A n \in 1..N : n - 1 \in G => n \in G
    BY <1>4
  <2>2. \A n \in 0..N : n \in G
    BY <1>2, <1>3, <2>1, UpTo
  <2> QED BY <1>2, <2>2
<1>6. MergedTo(f[N], rs, F, N) /\ Place(F, N) = Cardinality(F) /\ \A i \in F : i <= N
  <2> HIDE DEF F, N
  <2>1. MergedTo(f[N], rs, F, N)
    BY <1>5
  <2> QED BY <1>2, <2>1, PlaceStep
<1> HIDE DEF F
<1> QED BY <1>1, <1>6 DEF MergedTo, F
=============================================================================
