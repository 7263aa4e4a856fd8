--------------------------- MODULE PassesProofs ---------------------------
(***************************************************************************)
(* The passes yield what they are to, for inputs of any length: for any    *)
(* rows, lines and interfaces, where the run takes short sequences of a    *)
(* few of them.                                                            *)
(***************************************************************************)
EXTENDS Passes, ResponderProofs

\* The inputs are sequences of what they are made of.
PassesInv == rows \in Seq(Parsed) /\ file \in Seq(Lines) /\ entries \in Seq(Entries)

\* Whatever the order in which the inputs grow.
LEMMA InputsTyped == Spec => []PassesInv
<1>1. Init => PassesInv
  BY DEF Init, PassesInv
<1>2. ASSUME PassesInv, [Next]_vars PROVE PassesInv'
  <2>1. CASE MoreRows
    BY <1>2, <2>1 DEF MoreRows, PassesInv
  <2>2. CASE MoreLines
    BY <1>2, <2>2 DEF MoreLines, PassesInv
  <2>3. CASE MoreEntries
    BY <1>2, <2>3 DEF MoreEntries, PassesInv
  <2>4. CASE UNCHANGED vars
    BY <1>2, <2>4 DEF vars, PassesInv
  <2> QED BY <1>2, <2>1, <2>2, <2>3, <2>4 DEF Next
<1> QED BY <1>1, <1>2, PTL DEF Spec

----------------------------------------------------------------------------
(* Result rows. *)

\* Deduplication, for every table.
THEOREM TableDeduplicated == Spec => []DedupExact
<1>1. PassesInv => DedupExact
  BY DeduplicateInOrder DEF PassesInv, DedupExact
<1> QED BY <1>1, InputsTyped, PTL

\* Collecting rows packet by packet, however they are split.
THEOREM BatchesAppended == Spec => []AppendInBatches
<1>1. PassesInv => AppendInBatches
  <2> SUFFICES ASSUME PassesInv, NEW k \in 0..Len(rows)
               PROVE  InOrder(AppendUnique(AppendUnique(<< >>, Cap, SubSeq(rows, 1, k)),
                                           Cap, SubSeq(rows, k + 1, Len(rows))),
                              Leading(DOMAIN rows, Untyped(rows)), Cap, rows)
    BY DEF AppendInBatches
  <2> DEFINE N == Len(rows)
             F == Leading(DOMAIN rows, Untyped(rows))
             one == SubSeq(rows, 1, k)
             two == SubSeq(rows, k + 1, N)
             d == AppendUnique(<< >>, Cap, one)
             e == AppendUnique(d, Cap, two)
  <2>1. /\ rows \in Seq(Parsed) /\ N \in Nat /\ Cap \in Nat /\ k \in 0..N /\ 0 \in 0..N
        /\ F \in SUBSET (1..N)
    BY PassesAssumption DEF PassesInv, Leading
  <2>2. /\ one \in Seq(Parsed) /\ Len(one) = k /\ 0 + Len(one) <= N
        /\ \A m \in 1..Len(one) : one[m] = rows[0 + m]
    BY <2>1
  <2>3. /\ two \in Seq(Parsed) /\ Len(two) = N - k /\ k + Len(two) <= N
        /\ \A m \in 1..Len(two) : two[m] = rows[k + m]
    BY <2>1
  <2>4. << >> \in Seq(Parsed) /\ InOrderTo(<< >>, F, Cap, rows, 0)
    <3> HIDE DEF F
    <3>1. << >> \in Seq(Parsed) /\ Len(<< >>) = 0
      OBVIOUS
    <3>2. \A i \in F : ~(i <= 0)
      <4>1. \A i \in 1..N : ~(i <= 0)
        BY <2>1
      <4> QED BY <2>1, <4>1
    <3>3. Place(F, 0) = 0
      BY <2>1, PlaceStep
    <3> QED BY <2>1, <3>1, <3>2, <3>3 DEF InOrderTo
  <2> HIDE DEF one, two, d, e
  <2>5. d \in Seq(Parsed) /\ InOrderTo(d, F, Cap, rows, 0 + Len(one))
    BY <2>1, <2>2, <2>4, AppendInOrder DEF d
  <2>6. 0 + Len(one) = k /\ k + Len(two) = N
    BY <2>1, <2>2, <2>3
  <2>7. InOrderTo(d, F, Cap, rows, k)
    BY <2>5, <2>6
  <2>8. e \in Seq(Parsed) /\ InOrderTo(e, F, Cap, rows, k + Len(two))
    BY <2>1, <2>3, <2>5, <2>7, AppendInOrder DEF e
  <2>9. InOrderTo(e, F, Cap, rows, N)
    BY <2>6, <2>8
  <2>10. InOrder(e, F, Cap, rows)
    BY <2>1, <2>9, InOrderAll
  <2> QED BY <2>10 DEF e, d, one, two
<1> QED BY <1>1, InputsTyped, PTL

\* Extracting the types to query.
THEOREM TypesExtracted == Spec => []TypesExact
<1>1. PassesInv => TypesExact
  BY TypesInOrder, PassesAssumption DEF PassesInv, TypesExact
<1> QED BY <1>1, InputsTyped, PTL

\* Merging into one row per instance.
THEOREM RowsMerged == Spec => []MergeExact
<1>1. PassesInv => MergeExact
  <2> SUFFICES ASSUME PassesInv PROVE MergeExact
    OBVIOUS
  <2> DEFINE F == Leading(Merging(rows), InstancesOf(rows))
             m == Merge(rows)
  <2>1. rows \in Seq(Parsed) /\ \A r \in Parsed : IsRow(r)
    BY PassesAssumption DEF PassesInv, IsRow
  <2>2. /\ Len(m) = Cardinality(F)
        /\ \A i \in F : Gathers(m[Place(F, i)], rows, Len(rows), rows[i].instance)
    BY <2>1, MergeInOrder
  <2> HIDE DEF F, m
  <2>3. ASSUME NEW i \in F, NEW r, r = m[Place(F, i)]
        PROVE  /\ r.instance = rows[i].instance
               /\ \A c \in {"hostname", "service_type", "address", "txt"} :
                    r[c] = FirstOf(rows, Len(rows), rows[i].instance, c, "")
               /\ r.port = FirstOf(rows, Len(rows), rows[i].instance, "port", 0)
    <3>1. Gathers(r, rows, Len(rows), rows[i].instance)
      BY <2>2, <2>3
    <3>2. /\ r.instance = rows[i].instance
          /\ \A c \in Columns : r[c] = FirstOf(rows, Len(rows), rows[i].instance, c, Empty(c))
      BY <3>1 DEF Gathers
    <3>3. /\ \A c \in {"hostname", "service_type", "address", "txt"} : c \in Columns /\ Empty(c) = ""
          /\ "port" \in Columns /\ Empty("port") = 0
      BY DEF Columns, Empty
    <3> QED BY <3>2, <3>3
  <2>4. F = Leading({i \in DOMAIN rows : Mergeable(rows[i])}, InstancesOf(rows))
    BY DEF F, Merging
  <2> QED BY <2>2, <2>3, <2>4, Zenon DEF MergeExact, m
<1> QED BY <1>1, InputsTyped, PTL

----------------------------------------------------------------------------
(* The network interfaces. *)

\* A position that is not before i comes at i or later.
LEMMA NotBefore == \A n \in Nat : \A i, j \in 1..n : j \notin 1..i-1 => i <= j
OBVIOUS

\* The interfaces, one by one.
LEMMA EntriesTyped ==
  ASSUME PassesInv
  PROVE  /\ entries \in Seq(Entry)
         /\ Len(entries) \in Nat /\ DOMAIN entries = 1..Len(entries)
         /\ \A i \in 1..Len(entries) : entries[i] \in Entry
<1>1. entries \in Seq(Entries) /\ Entries \subseteq Entry
  BY PassesAssumption DEF PassesInv
<1>2. entries \in Seq(Entry)
  BY ONLY <1>1, SeqOfMore
<1> QED BY ONLY <1>2

\* The first address that qualifies, or the one that stands in for it.
LEMMA FirstIs ==
  ASSUME NEW S \in SUBSET Nat, NEW n \in Nat, S \subseteq 1..n, NEW a, NEW default,
         IsFirst(a, n, entries, S), \A i \in 1..n : entries[i].address # ""
  PROVE  (IF a = "" THEN default ELSE a) = IF S = {} THEN default ELSE entries[Min(S)].address
<1>1. CASE a = "" /\ \A i \in 1..n : i \notin S
  <2>1. S = {}
    BY <1>1
  <2> QED BY <1>1, <2>1
<1>2. CASE \E i \in 1..n : i \in S /\ a = entries[i].address /\ \A j \in 1..i-1 : j \notin S
  <2>1. PICK i \in 1..n : i \in S /\ a = entries[i].address /\ \A j \in 1..i-1 : j \notin S
    BY <1>2
  <2>2. \A j \in S : i <= j
    BY <2>1, NotBefore
  <2>3. Min(S) = i
    BY <2>1, <2>2, MinIs
  <2> QED BY <2>1, <2>3
<1> QED BY <1>1, <1>2 DEF IsFirst

\* The addresses advertised, on every machine, listed or not.
THEOREM AddressesChosen == Spec => []AddressesExact
<1>1. PassesInv => AddressesExact
  <2> SUFFICES ASSUME PassesInv, NEW wanted, NEW listed \in BOOLEAN
               PROVE  LET d == Discover([named |-> TRUE, hostname |-> <<"web">>, wanted |-> wanted,
                                         listed |-> listed, entries |-> entries])
                          first(f, default) ==
                            LET good == {i \in DOMAIN entries :
                                           listed /\ Candidate(entries[i], f, wanted)}
                            IN  IF good = {} THEN default ELSE entries[Min(good)].address
                      IN  d = [ipv4 |-> first("inet", "127.0.0.1"), ipv6 |-> first("inet6", "::1")]
    BY DEF AddressesExact
  <2> DEFINE n == Len(entries)
             machine == [named |-> TRUE, hostname |-> <<"web">>, wanted |-> wanted,
                         listed |-> listed, entries |-> entries]
             d == Discover(machine)
             a == Found(entries, wanted)
             good(f) == {i \in DOMAIN entries : listed /\ Candidate(entries[i], f, wanted)}
  <2>0. CASE ~listed
    <3>1. d = [ipv4 |-> "127.0.0.1", ipv6 |-> "::1"]
      BY <2>0 DEF Discover, NoAddress
    <3>2. good("inet") = {} /\ good("inet6") = {}
      BY <2>0
    <3> HIDE DEF d, good
    <3>3. d = [ipv4 |-> IF good("inet") = {} THEN "127.0.0.1" ELSE entries[Min(good("inet"))].address,
               ipv6 |-> IF good("inet6") = {} THEN "::1" ELSE entries[Min(good("inet6"))].address]
      BY <3>1, <3>2
    <3> QED BY <3>3, Zenon DEF d, good
  <2> SUFFICES ASSUME listed
               PROVE  d = [ipv4 |-> IF good("inet") = {} THEN "127.0.0.1"
                                    ELSE entries[Min(good("inet"))].address,
                           ipv6 |-> IF good("inet6") = {} THEN "::1"
                                    ELSE entries[Min(good("inet6"))].address]
    BY <2>0, Zenon
  <2>1. entries \in Seq(Entry) /\ n \in Nat /\ DOMAIN entries = 1..n
    BY EntriesTyped
  <2>2. \A i \in 1..n : entries[i] \in Entry
    BY EntriesTyped
  <2>3. \A i \in 1..n : entries[i].address # ""
    BY <2>2, EntryAddress
  <2>4. \A e \in Entry : /\ Candidate(e, "inet", wanted) <=> Considered(e, wanted) /\ Takes4(e)
                         /\ Candidate(e, "inet6", wanted) <=> Considered(e, wanted) /\ Takes6(e, wanted)
    BY DEF Entry, Candidate, Considered, Takes4, Takes6
  <2>5. good("inet") = Giving4(entries, wanted) /\ good("inet6") = Giving6(entries, wanted)
    BY <2>1, <2>2, <2>4 DEF Giving4, Giving6
  <2>6. IsFirst(a.ipv4, n, entries, good("inet")) /\ IsFirst(a.ipv6, n, entries, good("inet6"))
    BY <2>1, <2>5, FoundFirst DEF Firsts
  <2>7. good("inet") \in SUBSET (1..n) /\ good("inet6") \in SUBSET (1..n) /\ 1..n \subseteq Nat
    <3> HIDE DEF n
    <3>1. \A f : good(f) \in SUBSET (1..n)
      BY <2>1, Zenon
    <3> HIDE DEF good
    <3> QED BY ONLY <2>1, <3>1
  <2>8. d = [ipv4 |-> IF a.ipv4 = "" THEN "127.0.0.1" ELSE a.ipv4,
             ipv6 |-> IF a.ipv6 = "" THEN "::1" ELSE a.ipv6]
    BY DEF Discover
  <2> HIDE DEF a, n, d, good
  <2>9. (IF a.ipv4 = "" THEN "127.0.0.1" ELSE a.ipv4)
          = IF good("inet") = {} THEN "127.0.0.1" ELSE entries[Min(good("inet"))].address
    BY <2>1, <2>3, <2>6, <2>7, FirstIs
  <2>10. (IF a.ipv6 = "" THEN "::1" ELSE a.ipv6)
          = IF good("inet6") = {} THEN "::1" ELSE entries[Min(good("inet6"))].address
    BY <2>1, <2>3, <2>6, <2>7, FirstIs
  <2> QED BY <2>8, <2>9, <2>10, Zenon
<1> QED BY <1>1, InputsTyped, PTL

----------------------------------------------------------------------------
(* The configuration file. *)

\* The lines, one by one.
LEMMA FileTyped ==
  ASSUME PassesInv
  PROVE  /\ file \in Seq(Line)
         /\ Len(file) \in Nat /\ DOMAIN file = 1..Len(file)
         /\ \A n \in 1..Len(file) : file[n] \in Line
<1>1. file \in Seq(Lines) /\ Lines \subseteq Line
  BY PassesAssumption DEF PassesInv
<1>2. file \in Seq(Line)
  BY ONLY <1>1, SeqOfMore
<1> QED BY ONLY <1>2

\* A header is the section of itself and of what follows it.
LEMMA HeaderStep ==
  /\ Header(0) = 0
  /\ \A n \in Nat \ {0} :
       /\ file[n].kind = "section" /\ file[n].closed => Header(n) = n
       /\ ~(file[n].kind = "section" /\ file[n].closed) => Header(n) = Header(n - 1)
  /\ \A n \in Nat : Header(n) \in 0..n
<1> DEFINE Q(h) == file[h].kind = "section" /\ file[h].closed
           H(n) == {h \in 1..n : Q(h)}
<1>1. \A n : Header(n) = IF H(n) = {} THEN 0 ELSE Max(H(n))
  BY Zenon DEF Header
<1> HIDE DEF Q
<1>2. Header(0) = 0
  <2>1. H(0) = {}
    OBVIOUS
  <2> HIDE DEF H
  <2> QED BY <1>1, <2>1
<1>3. ASSUME NEW n \in Nat \ {0}, Q(n) PROVE Header(n) = n
  <2>1. n \in H(n) /\ H(n) \in SUBSET Nat /\ \A h \in H(n) : n >= h
    BY <1>3
  <2> HIDE DEF H
  <2> QED BY <1>1, <2>1, MaxIs
<1>4. ASSUME NEW n \in Nat \ {0}, ~Q(n) PROVE Header(n) = Header(n - 1)
  <2>1. \A h : h \in 1..n /\ Q(h) <=> h \in 1..n-1 /\ Q(h)
    BY <1>4
  <2>2. H(n) = H(n - 1)
    BY <2>1, Zenon
  <2> QED BY <1>1, <2>2
<1>5. ASSUME NEW n \in Nat PROVE Header(n) \in 0..n
  <2>1. CASE H(n) = {}
    <3>1. 0 \in 0..n
      OBVIOUS
    <3> HIDE DEF H
    <3> QED BY <1>1, <2>1, <3>1
  <2>2. CASE H(n) # {}
    <3>1. H(n) \in SUBSET (1..n) /\ \A x \in 1..n : x \in 0..n
      OBVIOUS
    <3> HIDE DEF H
    <3>2. Max(H(n)) \in H(n)
      BY <2>2, <3>1, MaxExists
    <3> QED BY <1>1, <2>2, <3>1, <3>2
  <2> QED BY <2>1, <2>2
<1> QED BY <1>2, <1>3, <1>4, <1>5 DEF Q

\* A header that opens an entry has a name.
LEMMA OpensFacts ==
  ASSUME PassesInv, NEW q \in 1..Len(file), Opens(q)
  PROVE  /\ file[q].name \in FileNames
         /\ file[q].kind = "section" /\ file[q].closed /\ file[q].service
<1>1. file[q] \in Line
  BY FileTyped
<1>2. file[q].kind = "section" /\ file[q].closed /\ file[q].service
  BY DEF Opens
<1> DEFINE l == file[q]
<1> HIDE DEF l
<1>3. \A x \in Line : x.kind = "section" => x.name \in FileNames
  BY DEF Line
<1> QED BY <1>1, <1>2, <1>3

\* The header that made an entry.
LEMMA OwnerFacts ==
  ASSUME PassesInv, NEW q \in 1..Len(file), Opens(q)
  PROVE  /\ Owner(q) \in 1..q /\ Opens(Owner(q))
         /\ Owner(q) = q \/ Cut[file[Owner(q)].name] = file[q].name
         /\ \A p \in 1..q : Opens(p) /\ Cut[file[p].name] = file[q].name => Owner(q) <= p
<1> DEFINE A == {p \in 1..q : Opens(p) /\ Cut[file[p].name] = file[q].name}
           B == A \cup {q}
           o == Min(B)
<1>1. B \in SUBSET Nat /\ B # {} /\ B \subseteq 1..q
  OBVIOUS
<1>2. o \in B /\ \A y \in B : o <= y
  BY <1>1, MinExists
<1>3. Owner(q) = o
  BY DEF Owner
<1>4. \A p \in 1..q : Opens(p) /\ Cut[file[p].name] = file[q].name => p \in B
  BY Zenon
<1>5. o \in 1..q
  BY <1>1, <1>2
<1>6. o = q \/ (Opens(o) /\ Cut[file[o].name] = file[q].name)
  BY <1>2
<1> HIDE DEF o, A
<1> QED BY <1>2, <1>3, <1>4, <1>5, <1>6

\* It made the entry for itself.
LEMMA OwnerMakes ==
  ASSUME PassesInv, NEW q \in 1..Len(file), Opens(q)
  PROVE  Owner(q) \in Makers
<1> DEFINE p == Owner(q)
           r == Owner(p)
           w(x) == file[x].name
<1>1. /\ p \in 1..q /\ Opens(p) /\ (p = q \/ Cut[w(p)] = w(q))
      /\ \A x \in 1..q : Opens(x) /\ Cut[w(x)] = w(q) => p <= x
  BY OwnerFacts
<1>2. p \in 1..Len(file) /\ p \in Nat /\ Len(file) \in Nat
  BY <1>1, FileTyped
<1> HIDE DEF p
<1>3. r \in 1..p /\ Opens(r) /\ (r = p \/ Cut[w(r)] = w(p))
  BY <1>1, <1>2, OwnerFacts
<1>4. r \in 1..Len(file) /\ r \in 1..q /\ (p <= r => r = p)
  BY <1>1, <1>2, <1>3
<1> HIDE DEF r
<1>5. w(p) \in FileNames /\ w(q) \in FileNames /\ w(r) \in FileNames
  BY <1>1, <1>2, <1>3, <1>4, OpensFacts
<1> DEFINE short(x) == StrLen(x) < MaxName
<1>6. \A x \in FileNames : short(Cut[x]) /\ (short(x) => Cut[x] = x)
  BY ConfigurationAssumption
<1> HIDE DEF short, w
<1>7. r = p
  <2> SUFFICES ASSUME r # p PROVE FALSE
    OBVIOUS
  <2>1. Cut[w(r)] = w(p)
    BY <1>3
  <2>2. Cut[w(p)] = w(p)
    BY <1>5, <1>6, <2>1
  <2>3. Cut[w(r)] = w(q)
    BY <1>1, <2>1, <2>2
  <2> QED BY <1>1, <1>3, <1>4, <2>3
<1>8. p \in DOMAIN file
  BY <1>2, FileTyped
<1> QED BY <1>1, <1>7, <1>8 DEF Makers, p, r

----------------------------------------------------------------------------
(* What a line gives. *)

\* Line n gives key k of the entry made by q a value.
Gives(n, q, k) ==
  /\ file[n].kind = k /\ file[n].assigned
  /\ k = "port" => file[n].value > 0 /\ file[n].value < 65536
  /\ Opens(Header(n)) /\ Owner(Header(n)) = q

\* A line that gives a key replaces what was given before, any other leaves it.
LEMMA GivenStep ==
  ASSUME NEW n \in Nat \ {0}, NEW q, NEW k, NEW none
  PROVE  Given(n, q, k, none) = IF Gives(n, q, k) THEN Stored(k, file[n].value)
                                ELSE Given(n - 1, q, k, none)
<1> DEFINE P(m) == {p \in 1..m : Gives(p, q, k)}
<1>1. \A m : Givers(m, q, k) = P(m)
  BY DEF Givers, Gives
<1>2. \A m : Given(m, q, k, none) = IF P(m) = {} THEN none ELSE Stored(k, file[Max(P(m))].value)
  BY <1>1, Zenon DEF Given
<1>3. CASE Gives(n, q, k)
  <2>1. n \in P(n) /\ P(n) \in SUBSET Nat /\ \A p \in P(n) : n >= p
    BY <1>3
  <2> HIDE DEF P
  <2>2. Max(P(n)) = n
    BY <2>1, MaxIs
  <2> QED BY <1>2, <1>3, <2>1, <2>2
<1>4. CASE ~Gives(n, q, k)
  <2>1. \A p : p \in 1..n /\ Gives(p, q, k) <=> p \in 1..n-1 /\ Gives(p, q, k)
    BY <1>4
  <2>2. P(n) = P(n - 1)
    BY <2>1, Zenon
  <2> QED BY <1>2, <1>4, <2>2
<1> QED BY <1>3, <1>4

\* Line n gives no key of the entry.
LEMMA EntryStays ==
  ASSUME NEW n \in Nat \ {0}, NEW q,
         \A k \in {"type", "host", "port", "txt"} : ~Gives(n, q, k)
  PROVE  EntryOf(n, q) = EntryOf(n - 1, q)
<1>1. \A k \in {"type", "host", "port", "txt"} : \A none : Given(n, q, k, none) = Given(n - 1, q, k, none)
  BY GivenStep
<1> QED BY <1>1 DEF EntryOf

\* A port is set in the range that SetKey and Givers both mean.
LEMMA PortValue ==
  ASSUME NEW v \in Int
  PROVE  v \in Port \ {0} <=> v > 0 /\ v < 65536
<1>1. v \in Port <=> v >= 0 /\ v < 65536
  BY DEF Port
<1>2. v >= 0 /\ v # 0 <=> v > 0
  OBVIOUS
<1>3. v \in Port \ {0} <=> v \in Port /\ v # 0
  BY Zenon
<1>4. v \in Port \ {0} => v > 0 /\ v < 65536
  BY <1>1, <1>2, <1>3
<1>5. v > 0 /\ v < 65536 => v \in Port /\ v # 0
  <2>1. v > 0 /\ v < 65536 => v >= 0 /\ v # 0
    BY <1>2
  <2> QED BY <1>1, <2>1
<1>6. v > 0 /\ v < 65536 => v \in Port \ {0}
  BY <1>3, <1>5
<1> QED BY <1>4, <1>6

\* Line n is for the entry.
LEMMA EntrySet ==
  ASSUME PassesInv, NEW n \in 1..Len(file), NEW q,
         Opens(Header(n)), Owner(Header(n)) = q,
         file[n].kind \notin {"blank", "section"}, file[n].assigned
  PROVE  EntryOf(n, q) = SetKey(EntryOf(n - 1, q), file[n])
<1> DEFINE l == file[n]
           i == Cut[file[q].name]
           t(m) == Given(m, q, "type", << >>)
           h(m) == Given(m, q, "host", << >>)
           p(m) == Given(m, q, "port", 0)
           x(m) == Given(m, q, "txt", NoTxt)
<1>1. l \in Line /\ n \in Nat \ {0}
  BY FileTyped
<1>2. /\ t(n) = IF l.kind = "type" THEN Cut[l.value] ELSE t(n - 1)
      /\ h(n) = IF l.kind = "host" THEN Cut[l.value] ELSE h(n - 1)
      /\ p(n) = IF l.kind = "port" /\ l.value > 0 /\ l.value < 65536 THEN l.value ELSE p(n - 1)
      /\ x(n) = IF l.kind = "txt" THEN [l.value EXCEPT !.len = IF @ > 511 THEN 511 ELSE @]
                ELSE x(n - 1)
  <2>1. /\ t(n) = IF Gives(n, q, "type") THEN Stored("type", l.value) ELSE t(n - 1)
        /\ h(n) = IF Gives(n, q, "host") THEN Stored("host", l.value) ELSE h(n - 1)
        /\ p(n) = IF Gives(n, q, "port") THEN Stored("port", l.value) ELSE p(n - 1)
        /\ x(n) = IF Gives(n, q, "txt") THEN Stored("txt", l.value) ELSE x(n - 1)
    BY <1>1, GivenStep
  <2>2. /\ Gives(n, q, "type") <=> l.kind = "type"
        /\ Gives(n, q, "host") <=> l.kind = "host"
        /\ Gives(n, q, "port") <=> l.kind = "port" /\ l.value > 0 /\ l.value < 65536
        /\ Gives(n, q, "txt") <=> l.kind = "txt"
    BY DEF Gives
  <2>3. /\ Stored("type", l.value) = Cut[l.value]
        /\ Stored("host", l.value) = Cut[l.value]
        /\ Stored("port", l.value) = l.value
        /\ Stored("txt", l.value) = [l.value EXCEPT !.len = IF @ > 511 THEN 511 ELSE @]
    BY DEF Stored
  <2> QED BY <2>1, <2>2, <2>3
<1>3. \A m : EntryOf(m, q) = [instance |-> i, type |-> t(m), host |-> h(m), port |-> p(m), txt |-> x(m)]
  BY DEF EntryOf
<1> HIDE DEF l, i, t, h, p, x
<1>4. l.kind = "port" => (l.value \in Port \ {0} <=> l.value > 0 /\ l.value < 65536)
  <2>1. l.kind = "port" => l.value \in Int
    BY <1>1 DEF Line
  <2> QED BY <2>1, PortValue
<1>5. l.kind = "txt" => CutTxt(l.value) = [l.value EXCEPT !.len = IF @ > 511 THEN 511 ELSE @]
  <2>1. l.kind = "txt" => l.value \in Txt
    BY <1>1 DEF Line
  <2>2. \A v \in Txt : /\ (IF v.len < 512 THEN v.len ELSE 512 - 1) = IF v.len > 511 THEN 511 ELSE v.len
    BY DEF Txt
  <2> QED BY <2>1, <2>2 DEF CutTxt, MaxTxt
<1>6. SetKey(EntryOf(n - 1, q), l)
        = [instance |-> i, type |-> t(n), host |-> h(n), port |-> p(n), txt |-> x(n)]
  <2> DEFINE s == EntryOf(n - 1, q)
             a == IF l.kind = "type" THEN Cut[l.value] ELSE s.type
             b == IF l.kind = "host" THEN Cut[l.value] ELSE s.host
             c == IF l.kind = "port" /\ l.value \in Port \ {0} THEN l.value ELSE s.port
             d == IF l.kind = "txt" THEN CutTxt(l.value) ELSE s.txt
  <2>1. SetKey(s, l) = [s EXCEPT !.type = a, !.host = b, !.port = c, !.txt = d]
    BY DEF SetKey
  <2>2. s = [instance |-> i, type |-> t(n - 1), host |-> h(n - 1), port |-> p(n - 1), txt |-> x(n - 1)]
    BY <1>3
  <2> HIDE DEF s
  <2>3. /\ s.type = t(n - 1) /\ s.host = h(n - 1) /\ s.port = p(n - 1) /\ s.txt = x(n - 1)
    BY <2>2
  <2>4. a = t(n) /\ b = h(n)
    BY ONLY <1>2, <2>3
  <2>5. c = p(n) /\ d = x(n)
    <3>1. c = p(n)
      BY ONLY <1>2, <1>4, <2>3
    <3>2. d = x(n)
      BY ONLY <1>2, <1>5, <2>3
    <3> QED BY <3>1, <3>2
  <2> HIDE DEF a, b, c, d
  <2>6. SetKey(s, l) = [instance |-> i, type |-> a, host |-> b, port |-> c, txt |-> d]
    BY <2>1, <2>2
  <2> QED BY <2>4, <2>5, <2>6 DEF s
<1> QED BY <1>3, <1>6 DEF l

----------------------------------------------------------------------------
(* What has been read. *)

\* What holds after n lines: the entries made so far that fit are in the
\* list in order, each as its lines have made it, and the position is that
\* of the section the next line stands in.
LoadedTo(c, n) ==
  /\ ReadState(c)
  /\ InOrderTo(c.services, Makers, MaxServices, [q \in Makers |-> EntryOf(n, q)], n)
  /\ c.index = IF Opens(Header(n)) /\ Place(Makers, Owner(Header(n))) <= MaxServices
               THEN Place(Makers, Owner(Header(n))) ELSE 0

\* Where the entries are.
LEMMA MakersFacts ==
  ASSUME PassesInv
  PROVE  /\ Makers \in SUBSET (1..Len(file)) /\ Len(file) \in Nat
         /\ \A q : q \in Makers <=> q \in 1..Len(file) /\ Opens(q) /\ Owner(q) = q
         /\ \A n \in 0..Len(file) : Place(Makers, n) \in Nat
         /\ \A n \in 1..Len(file) :
              Place(Makers, n) = IF n \in Makers THEN Place(Makers, n - 1) + 1
                                 ELSE Place(Makers, n - 1)
         /\ \A i, j \in Makers : i < j => Place(Makers, i) < Place(Makers, j)
         /\ \A i, j \in Makers : i # j => Place(Makers, i) # Place(Makers, j)
         /\ \A n \in 0..Len(file) : \A i \in Makers :
              i <= n => Place(Makers, i) \in 1..Place(Makers, n)
<1> DEFINE N == Len(file)
           F == Makers
<1>1. N \in Nat /\ DOMAIN file = 1..N
  BY FileTyped
<1>2. \A q : q \in F <=> q \in 1..N /\ Opens(q) /\ Owner(q) = q
  BY <1>1, Zenon DEF Makers
<1> HIDE DEF F, N
<1>3. F \in SUBSET (1..N)
  BY <1>2
<1>4. /\ \A n \in 0..N : Place(F, n) \in 0..n
      /\ \A n \in 1..N : Place(F, n) = IF n \in F THEN Place(F, n - 1) + 1 ELSE Place(F, n - 1)
  BY ONLY <1>1, <1>3, PlaceStep
<1>5. \A n \in 0..N : Place(F, n) \in Nat
  <2>1. \A x : 0..x \subseteq Nat
    OBVIOUS
  <2> QED BY <1>4, <2>1
<1>6. /\ \A i, j \in F : i < j => Place(F, i) < Place(F, j)
      /\ \A n \in 0..N : \A i \in F : i <= n => Place(F, i) \in 1..Place(F, n)
  BY ONLY <1>1, <1>3, PlaceGrows
<1>7. ASSUME NEW i \in F, NEW j \in F, i # j PROVE Place(F, i) # Place(F, j)
  <2>1. i \in 1..N /\ j \in 1..N
    BY <1>3
  <2>2. (i < j \/ j < i) /\ i \in 0..N /\ j \in 0..N
    BY <1>1, <1>7, <2>1
  <2> QED BY <1>5, <1>6, <2>2
<1> QED BY <1>1, <1>2, <1>3, <1>4, <1>5, <1>6, <1>7 DEF F, N

\* A line that is no section, or not a closed one.
LEMMA KeyLine ==
  ASSUME PassesInv, NEW n \in 1..Len(file), NEW c, LoadedTo(c, n - 1),
         ~(file[n].kind = "section" /\ file[n].closed)
  PROVE  LoadedTo(ReadLine(c, file[n]), n)
<1> DEFINE l == file[n]
           F == Makers
           max == MaxServices
           s == c.services
           e == ReadLine(c, l)
           h == Header(n)
           o == Owner(h)
           E(m, q) == EntryOf(m, q)
<1>1. /\ n \in Nat \ {0} /\ n - 1 \in 0..Len(file) /\ Len(file) \in Nat /\ max \in Nat
      /\ l \in Line
  <2>1. Len(file) \in Nat /\ l \in Line /\ max \in Nat
    BY FileTyped, ConfigurationAssumption
  <2> QED BY ONLY <2>1, n \in 1..Len(file)
<1>2. h = Header(n - 1) /\ h \in 0..n-1 /\ n \notin F /\ ~Opens(n)
  <2>1. ~Opens(n)
    BY DEF Opens
  <2>2. n - 1 \in Nat
    BY <1>1
  <2> QED BY <1>1, <2>1, <2>2, HeaderStep, MakersFacts
<1>3. /\ \A i \in F : i \in 1..Len(file) /\ (i <= n <=> i <= n - 1)
      /\ Place(F, n) = Place(F, n - 1)
  <2>1. \A i \in F : i \in 1..Len(file) /\ i # n
    BY <1>2, MakersFacts
  <2> QED BY <1>1, <1>2, <2>1, MakersFacts
<1>4. /\ ReadState(c)
      /\ Len(s) = IF Place(F, n - 1) < max THEN Place(F, n - 1) ELSE max
      /\ \A i \in F : i <= n - 1 /\ Place(F, i) <= max => s[Place(F, i)] = E(n - 1, i)
      /\ c.index = IF Opens(h) /\ Place(F, o) <= max THEN Place(F, o) ELSE 0
  BY <1>2 DEF LoadedTo, InOrderTo
<1>5. ReadState(e)
  BY <1>1, <1>4, ReadLineType
<1>6. Opens(h) => o \in F /\ o <= n - 1
  <2> SUFFICES ASSUME Opens(h) PROVE o \in F /\ o <= n - 1
    OBVIOUS
  <2>1. h # 0
    BY DEF Opens
  <2>2. h \in 1..Len(file)
    BY <1>1, <1>2, <2>1
  <2>3. o \in 1..h /\ o \in F
    BY <2>2, OwnerFacts, OwnerMakes
  <2> QED BY <1>1, <1>2, <2>2, <2>3
<1> DEFINE key == l.kind \notin {"blank", "section"} /\ l.assigned
<1>7. ASSUME key, c.index > 0 PROVE LoadedTo(e, n)
  <2>1. Opens(h) /\ Place(F, o) <= max /\ c.index = Place(F, o)
    BY <1>4, <1>7
  <2>2. e = [services |-> [s EXCEPT ![Place(F, o)] = SetKey(@, l)], index |-> Place(F, o)]
    BY <1>7, <2>1, Zenon DEF ReadLine
  <2>3. o \in F /\ o <= n - 1
    BY <1>6, <2>1
  <2>4. Place(F, o) \in 1..Len(s) /\ s \in Seq(Service)
    BY <1>4, <1>7, <2>1 DEF ReadState
  <2> DEFINE t == [s EXCEPT ![Place(F, o)] = SetKey(@, l)]
  <2>5. /\ Len(t) = Len(s) /\ t[Place(F, o)] = SetKey(s[Place(F, o)], l)
        /\ \A k \in 1..Len(s) : k # Place(F, o) => t[k] = s[k]
    <3>1. s[Place(F, o)] \in Service
      BY <2>4
    <3>2. SetKey(s[Place(F, o)], l) \in Service
      BY <1>1, <3>1, SetKeyType
    <3> QED BY <2>4, <3>2
  <2>6. e.services = t /\ e.index = Place(F, o)
    BY <2>2
  <2> HIDE DEF t, e
  <2>7. E(n, o) = SetKey(E(n - 1, o), l)
    BY <1>7, <2>1, EntrySet
  <2>8. ASSUME NEW i \in F, i <= n, Place(F, i) <= max PROVE t[Place(F, i)] = E(n, i)
    <3>1. i <= n - 1 /\ s[Place(F, i)] = E(n - 1, i) /\ s[Place(F, o)] = E(n - 1, o)
      BY <1>3, <1>4, <2>1, <2>3, <2>8
    <3>2. CASE i = o
      BY <2>5, <2>7, <3>1, <3>2
    <3>3. CASE i # o
      <4>1. E(n, i) = E(n - 1, i)
        <5>1. \A k \in {"type", "host", "port", "txt"} : ~Gives(n, i, k)
          BY <3>3 DEF Gives
        <5> QED BY <1>1, <5>1, EntryStays
      <4>2. Place(F, i) # Place(F, o)
        BY <2>3, <3>3, MakersFacts
      <4>3. Place(F, i) \in 1..Len(s)
        <5>1. Place(F, i) \in 1..Place(F, n - 1) /\ Place(F, n - 1) \in Nat
          BY <1>1, <3>1, MakersFacts
        <5> QED BY <1>1, <1>4, <2>8, <5>1
      <4> QED BY <2>5, <3>1, <4>1, <4>2, <4>3
    <3> QED BY <3>2, <3>3
  <2>9. InOrderTo(t, F, max, [q \in F |-> E(n, q)], n)
    BY <1>3, <1>4, <2>5, <2>8 DEF InOrderTo
  <2> QED BY <1>5, <2>1, <2>6, <2>9 DEF LoadedTo, e
<1>8. ASSUME ~(key /\ c.index > 0) PROVE LoadedTo(e, n)
  <2>1. e = c
    BY <1>8 DEF ReadLine
  <2>2. ASSUME NEW i \in F, i <= n, Place(F, i) <= max PROVE s[Place(F, i)] = E(n, i)
    <3>1. i <= n - 1 /\ s[Place(F, i)] = E(n - 1, i)
      BY <1>3, <1>4, <2>2
    <3>2. \A k \in {"type", "host", "port", "txt"} : ~Gives(n, i, k)
      <4> SUFFICES ASSUME NEW k \in {"type", "host", "port", "txt"}, Gives(n, i, k) PROVE FALSE
        OBVIOUS
      <4>1. l.kind = k /\ l.assigned /\ Opens(h) /\ o = i
        BY DEF Gives
      <4>2. key
        BY <4>1
      <4>3. c.index = Place(F, o)
        BY <1>4, <2>2, <4>1
      <4>4. Place(F, o) > 0
        <5>1. Place(F, i) \in 1..Place(F, n - 1) /\ Place(F, n - 1) \in Nat
          BY <1>1, <3>1, MakersFacts
        <5> QED BY <4>1, <5>1
      <4> QED BY <1>8, <4>2, <4>3, <4>4
    <3>3. E(n, i) = E(n - 1, i)
      BY <1>1, <3>2, EntryStays
    <3> QED BY <3>1, <3>3
  <2>3. InOrderTo(s, F, max, [q \in F |-> E(n, q)], n)
    BY <1>3, <1>4, <2>2 DEF InOrderTo
  <2> QED BY <1>4, <2>1, <2>3 DEF LoadedTo
<1> QED BY <1>7, <1>8

\* A closed section that is not a service's.
LEMMA ForeignLine ==
  ASSUME PassesInv, NEW n \in 1..Len(file), NEW c, LoadedTo(c, n - 1),
         file[n].kind = "section", file[n].closed, ~file[n].service
  PROVE  LoadedTo(ReadLine(c, file[n]), n)
<1> DEFINE F == Makers
           max == MaxServices
           s == c.services
           e == ReadLine(c, file[n])
<1>1. /\ n \in Nat \ {0} /\ n - 1 \in 0..Len(file) /\ Len(file) \in Nat
      /\ file[n] \in Line
  <2>1. Len(file) \in Nat /\ file[n] \in Line
    BY FileTyped
  <2> QED BY ONLY <2>1, n \in 1..Len(file)
<1>2. Header(n) = n /\ ~Opens(n) /\ n \notin F
  <2>1. ~Opens(n)
    BY DEF Opens
  <2> QED BY <1>1, <2>1, HeaderStep, MakersFacts
<1>3. /\ \A i \in F : i <= n <=> i <= n - 1
      /\ Place(F, n) = Place(F, n - 1)
  <2>1. \A i \in F : i \in 1..Len(file) /\ i # n
    BY <1>2, MakersFacts
  <2> QED BY <1>1, <1>2, <2>1, MakersFacts
<1>4. e = [c EXCEPT !.index = 0]
  BY DEF ReadLine
<1>5. ReadState(c) /\ ReadState(e)
  BY <1>1, ReadLineType DEF LoadedTo
<1>6. e.services = s /\ e.index = 0
  BY <1>4, <1>5 DEF ReadState
<1>7. ASSUME NEW i PROVE EntryOf(n, i) = EntryOf(n - 1, i)
  <2>1. \A k \in {"type", "host", "port", "txt"} : ~Gives(n, i, k)
    BY DEF Gives
  <2> QED BY <1>1, <2>1, EntryStays
<1>8. InOrderTo(s, F, max, [q \in F |-> EntryOf(n, q)], n)
  BY <1>3, <1>7 DEF LoadedTo, InOrderTo
<1> HIDE DEF e
<1> QED BY <1>2, <1>5, <1>6, <1>8 DEF LoadedTo, e

\* A section has just begun: nothing was given for the entry it makes.
LEMMA EntryBegins ==
  ASSUME PassesInv, NEW n \in Makers
  PROVE  EntryOf(n, n) = NewService(file[n].name)
<1>1. n \in 1..Len(file) /\ Opens(n) /\ n \in Nat /\ Len(file) \in Nat
  <2>1. n \in 1..Len(file) /\ Opens(n) /\ Len(file) \in Nat
    BY MakersFacts
  <2> QED BY <2>1
<1>2. ASSUME NEW p \in 1..n, NEW k \in {"type", "host", "port", "txt"}, Gives(p, n, k) PROVE FALSE
  <2>1. file[p].kind = k /\ Opens(Header(p)) /\ Owner(Header(p)) = n
    BY <1>2 DEF Gives
  <2>2. p # n
    <3>1. file[n].kind = "section"
      BY <1>1 DEF Opens
    <3> QED BY <2>1, <3>1
  <2>3. p \in Nat /\ Header(p) # 0
    BY <1>1, <2>1 DEF Opens
  <2>4. Header(p) \in 0..p
    BY <2>3, HeaderStep
  <2>5. Header(p) \in 1..Len(file) /\ ~(n <= Header(p))
    BY <1>1, <2>2, <2>3, <2>4
  <2>6. Owner(Header(p)) \in 1..Header(p)
    BY <2>1, <2>5, OwnerFacts
  <2> QED BY <1>1, <2>1, <2>5, <2>6
<1>3. \A k \in {"type", "host", "port", "txt"} : Givers(n, n, k) = {}
  <2>1. \A k \in {"type", "host", "port", "txt"} : \A p \in 1..n : ~Gives(p, n, k)
    BY <1>2
  <2>2. \A k, p : p \in Givers(n, n, k) => p \in 1..n /\ Gives(p, n, k)
    BY DEF Givers, Gives
  <2> QED BY <2>1, <2>2
<1>4. /\ Given(n, n, "type", << >>) = << >> /\ Given(n, n, "host", << >>) = << >>
      /\ Given(n, n, "port", 0) = 0 /\ Given(n, n, "txt", NoTxt) = NoTxt
  BY <1>3 DEF Given
<1> QED BY <1>4 DEF EntryOf, NewService

\* A service's section.
LEMMA SectionLine ==
  ASSUME PassesInv, NEW n \in 1..Len(file), NEW c, LoadedTo(c, n - 1), Opens(n)
  PROVE  LoadedTo(ReadLine(c, file[n]), n)
<1> DEFINE F == Makers
           max == MaxServices
           s == c.services
           w(x) == file[x].name
           e == ReadLine(c, file[n])
           o == Owner(n)
           found == {i \in 1..Len(s) : s[i].instance = w(n)}
<1>1. /\ n \in Nat \ {0} /\ n - 1 \in 0..Len(file) /\ Len(file) \in Nat /\ max \in Nat
      /\ file[n] \in Line
  <2>1. Len(file) \in Nat /\ file[n] \in Line /\ max \in Nat
    BY FileTyped, ConfigurationAssumption
  <2> QED BY ONLY <2>1, n \in 1..Len(file)
<1>2. Header(n) = n
  <2>1. file[n].kind = "section" /\ file[n].closed
    BY DEF Opens
  <2> QED BY <1>1, <2>1, HeaderStep
<1>3. /\ o \in 1..n /\ o \in F /\ (o = n \/ Cut[w(o)] = w(n)) /\ (n \in F <=> o = n)
      /\ \A p \in 1..n : Opens(p) /\ Cut[w(p)] = w(n) => o <= p
  BY OwnerFacts, OwnerMakes, MakersFacts
<1>4. \A i \in F : i \in 1..Len(file) /\ Opens(i) /\ (i <= n => i = n \/ i <= n - 1)
  <2>1. \A i \in F : i \in 1..Len(file) /\ Opens(i)
    BY MakersFacts
  <2> QED BY <1>1, <2>1
<1>5. /\ ReadState(c) /\ s \in Seq(Service) /\ Len(s) \in Nat
      /\ Len(s) = IF Place(F, n - 1) < max THEN Place(F, n - 1) ELSE max
      /\ \A i \in F : i <= n - 1 /\ Place(F, i) <= max => s[Place(F, i)] = EntryOf(n - 1, i)
  BY DEF LoadedTo, InOrderTo, ReadState
<1>6. ReadState(e)
  BY <1>1, <1>5, ReadLineType
<1>7. e = IF found # {} THEN [c EXCEPT !.index = Min(found)]
          ELSE IF Len(s) >= max THEN [c EXCEPT !.index = 0]
          ELSE [services |-> Append(s, NewService(w(n))), index |-> Len(s) + 1]
  <2>1. /\ file[n].kind = "section" /\ file[n].closed /\ file[n].service
    BY DEF Opens
  <2>2. e = FindOrCreate(c, w(n))
    BY <2>1 DEF ReadLine
  <2> QED BY <2>2, Zenon DEF FindOrCreate
<1> HIDE DEF e, w, found
<1>8. ASSUME NEW i PROVE EntryOf(n, i) = EntryOf(n - 1, i)
  <2>1. \A k \in {"type", "host", "port", "txt"} : ~Gives(n, i, k)
    BY DEF Gives, Opens
  <2> QED BY <1>1, <2>1, EntryStays
<1>9. InOrderTo(s, F, max, [q \in F |-> EntryOf(n, q)], n - 1)
  BY <1>8 DEF LoadedTo, InOrderTo
<1>10. Place(F, n - 1) \in Nat /\ Place(F, n) = IF o = n THEN Place(F, n - 1) + 1 ELSE Place(F, n - 1)
  BY <1>1, <1>3, MakersFacts
\* The entries that have the name are those of earlier sections.
<1>11. ASSUME NEW q \in F, q <= n - 1, Place(F, q) <= max
       PROVE  /\ Place(F, q) \in 1..Len(s)
              /\ Place(F, q) \in found <=> Cut[w(q)] = w(n)
  <2>1. Place(F, q) \in 1..Place(F, n - 1)
    BY <1>1, <1>11, MakersFacts
  <2>2. Place(F, q) \in 1..Len(s)
    BY <1>1, <1>5, <1>10, <1>11, <2>1
  <2>3. s[Place(F, q)].instance = Cut[w(q)]
    <3>1. EntryOf(n - 1, q).instance = Cut[w(q)]
      BY DEF EntryOf, w
    <3> QED BY <1>5, <1>11, <3>1
  <2> QED BY <2>2, <2>3 DEF found
<1>12. ASSUME NEW i \in 1..Len(s)
       PROVE  \E q \in F : q <= n - 1 /\ Place(F, q) = i /\ i <= max
  <2>1. i \in 1..Place(F, n - 1) /\ i <= max
    BY <1>1, <1>5, <1>10
  <2>2. F \in SUBSET (1..Len(file))
    BY MakersFacts
  <2> HIDE DEF F
  <2> QED BY <1>1, <2>1, <2>2, PlaceTaken
<1>13. ASSUME found # {} PROVE LoadedTo(e, n)
  <2> DEFINE i == Min(found)
  <2>1. i \in found /\ \A y \in found : i <= y
    <3>1. found \in SUBSET Nat
      BY <1>5 DEF found
    <3> QED BY <1>13, <3>1, MinExists
  <2> HIDE DEF i
  <2>2. i \in 1..Len(s) /\ i \in Nat
    BY <1>5, <2>1 DEF found
  <2>3. PICK q \in F : q <= n - 1 /\ Place(F, q) = i /\ i <= max
    BY <1>12, <2>2
  <2>4. Cut[w(q)] = w(n)
    BY <1>11, <2>1, <2>3
  <2>5. o <= q /\ o <= n - 1 /\ o # n
    <3>1. q \in 1..n
      BY <1>1, <1>4, <2>3
    <3>2. o <= q
      BY <1>3, <1>4, <2>4, <3>1
    <3> QED BY <1>1, <1>3, <2>3, <3>1, <3>2
  <2>6. Place(F, o) <= i
    <3>1. o = q \/ o < q
      BY <1>1, <1>3, <1>4, <2>5
    <3>2. o < q => Place(F, o) < Place(F, q)
      BY <1>3, MakersFacts
    <3>3. Place(F, o) \in 1..Place(F, n - 1)
      BY <1>1, <1>3, <2>5, MakersFacts
    <3> QED BY <1>10, <2>2, <2>3, <3>1, <3>2, <3>3
  <2>7. Place(F, o) \in found /\ Place(F, o) <= max /\ Place(F, o) \in Nat
    <3>1. Place(F, o) \in 1..Place(F, n - 1)
      BY <1>1, <1>3, <2>5, MakersFacts
    <3>2. Place(F, o) <= max /\ Place(F, o) \in Nat
      BY <1>1, <1>10, <2>2, <2>3, <2>6, <3>1
    <3> QED BY <1>3, <1>11, <2>5, <3>2
  <2>8. i = Place(F, o)
    BY <2>1, <2>2, <2>6, <2>7
  <2>9. e.services = s /\ e.index = i
    BY <1>5, <1>7, <1>13 DEF i, ReadState
  <2>10. InOrderTo(s, F, max, [x \in F |-> EntryOf(n, x)], n)
    <3>1. n \notin F /\ Place(F, n) = Place(F, n - 1)
      BY <1>3, <1>10, <2>5
    <3>2. \A x \in F : x <= n => x <= n - 1
      BY <1>4, <3>1
    <3> QED BY <1>9, <3>1, <3>2 DEF InOrderTo
  <2> QED BY <1>2, <1>6, <2>7, <2>8, <2>9, <2>10 DEF LoadedTo
<1>14. ASSUME found = {}, o # n PROVE Place(F, o) > max
  <2> SUFFICES ASSUME Place(F, o) <= max PROVE FALSE
    <3>1. Place(F, o) \in Nat
      <4>1. o \in 0..Len(file)
        BY <1>1, <1>3
      <4> QED BY <4>1, MakersFacts
    <3> QED BY <1>1, <3>1
  <2>1. o <= n - 1
    BY <1>1, <1>3, <1>14
  <2> QED BY <1>3, <1>11, <1>14, <2>1
<1>15. ASSUME found = {} /\ Len(s) >= max PROVE LoadedTo(e, n)
  <2>1. e.services = s /\ e.index = 0
    BY <1>5, <1>7, <1>15 DEF ReadState
  <2>2. Place(F, n - 1) >= max
    BY <1>1, <1>5, <1>10, <1>15
  <2>3. ~(Place(F, o) <= max)
    <3>1. CASE o = n
      BY <1>1, <1>10, <2>2, <3>1
    <3>2. CASE o # n
      <4>1. Place(F, o) \in Nat
        <5>1. o \in 0..Len(file)
          BY <1>1, <1>3
        <5> QED BY <5>1, MakersFacts
      <4> QED BY <1>1, <1>14, <1>15, <3>2, <4>1
    <3> QED BY <3>1, <3>2
  <2>4. InOrderTo(s, F, max, [x \in F |-> EntryOf(n, x)], n)
    <3>1. Len(s) = IF Place(F, n) < max THEN Place(F, n) ELSE max
      BY <1>1, <1>5, <1>10, <2>2
    <3>2. \A x \in F : x <= n /\ Place(F, x) <= max => x <= n - 1
      BY <1>3, <1>4, <2>3
    <3> QED BY <1>9, <3>1, <3>2 DEF InOrderTo
  <2> QED BY <1>2, <1>6, <2>1, <2>3, <2>4 DEF LoadedTo
<1>16. ASSUME found = {} /\ ~(Len(s) >= max) PROVE LoadedTo(e, n)
  <2>1. Len(s) = Place(F, n - 1) /\ Len(s) + 1 <= max
    BY <1>1, <1>5, <1>10, <1>16
  <2>2. o = n
    <3> SUFFICES ASSUME o # n PROVE FALSE
      OBVIOUS
    <3>1. Place(F, o) \in 1..Place(F, n - 1)
      <4>1. o <= n - 1
        BY <1>1, <1>3
      <4> QED BY <1>1, <1>3, <4>1, MakersFacts
    <3> QED BY <1>1, <1>10, <1>14, <1>16, <2>1, <3>1
  <2>3. n \in F /\ Place(F, n) = Len(s) + 1 /\ Place(F, n) <= max
    BY <1>3, <1>10, <2>1, <2>2
  <2>4. e.services = Append(s, NewService(w(n))) /\ e.index = Len(s) + 1
    BY <1>7, <1>16
  <2>5. [x \in F |-> EntryOf(n, x)][n] = NewService(w(n)) /\ NewService(w(n)) \in Service
    <3>1. w(n) \in FileNames
      BY OpensFacts DEF w
    <3>2. EntryOf(n, n) = NewService(w(n))
      BY <2>3, EntryBegins DEF w
    <3> QED BY <2>3, <3>1, <3>2, NewServiceType
  <2> DEFINE v == [x \in F |-> EntryOf(n, x)]
  <2>6. InOrderTo(Append(s, v[n]), F, max, v, n)
    <3>1. /\ Len(file) \in Nat /\ F \in SUBSET (1..Len(file)) /\ max \in Nat /\ n \in 1..Len(file)
          /\ s \in Seq(Service) /\ v[n] \in Service
      BY <1>1, <1>5, <2>5, MakersFacts
    <3> HIDE DEF F, v, max, s
    <3>2. InOrderTo(s, F, max, v, n - 1) /\ n \in F /\ ~(Len(s) >= max)
      BY <1>9, <1>16, <2>3 DEF v
    <3> QED BY ONLY <3>1, <3>2, InOrderStep
  <2> QED BY <1>2, <1>6, <2>2, <2>3, <2>4, <2>5, <2>6 DEF LoadedTo
<1>17. LoadedTo(e, n)
  BY <1>13, <1>15, <1>16
<1> QED BY <1>17 DEF e

\* Reading the file: every section, key and line that is neither, in any
\* order and number.
THEOREM FileLoaded == Spec => []LoadExact
<1>1. PassesInv => LoadExact
  <2> SUFFICES ASSUME PassesInv PROVE LoadExact
    OBVIOUS
  <2> DEFINE f == ReadFile(file)
             N == Len(file)
             G == {n \in 0..N : LoadedTo(f[n], n)}
  <2>1. N \in Nat /\ \A n \in 1..N : file[n] \in Line
    BY FileTyped
  <2>2. /\ Load(file) = f[N].services /\ f[0] = Unread
        /\ \A n \in 1..N : f[n] = ReadLine(f[n - 1], file[n])
    BY <2>1, ReadFileDef
  <2> HIDE DEF f
  <2>3. 0 \in G
    <3>1. ReadState(Unread) /\ Unread.services = << >> /\ Unread.index = 0
      <4>1. Unread.services = << >> /\ Unread.index = 0
        BY DEF Unread
      <4>2. Unread \in [services : Seq(Service), index : Nat]
        BY DEF Unread
      <4>3. Len(<< >>) = 0 /\ MaxServices \in Nat
        BY ConfigurationAssumption
      <4> QED BY <4>1, <4>2, <4>3 DEF ReadState
    <3>2. ~Opens(Header(0))
      BY HeaderStep DEF Opens
    <3>3. InOrderTo(<< >>, Makers, MaxServices, [q \in Makers |-> EntryOf(0, q)], 0)
      <4>1. Place(Makers, 0) = 0
        BY MakersFacts, PlaceStep
      <4>2. \A i \in Makers : ~(i <= 0)
        <5>1. \A i \in 1..N : ~(i <= 0)
          BY <2>1
        <5> QED BY <5>1, MakersFacts
      <4>3. MaxServices \in Nat /\ Len(<< >>) = 0
        BY ConfigurationAssumption
      <4> QED BY <4>1, <4>2, <4>3 DEF InOrderTo
    <3>4. LoadedTo(Unread, 0)
      BY <3>1, <3>2, <3>3 DEF LoadedTo
    <3> QED BY <2>1, <2>2, <3>4
  <2>4. ASSUME NEW n \in 1..N, n - 1 \in G PROVE n \in G
    <3>1. LoadedTo(f[n - 1], n - 1) /\ n # 0
      BY <2>1, <2>4
    <3>2. LoadedTo(ReadLine(f[n - 1], file[n]), n)
      <4>1. CASE ~(file[n].kind = "section" /\ file[n].closed)
        BY <3>1, <4>1, KeyLine
      <4>2. CASE file[n].kind = "section" /\ file[n].closed /\ ~file[n].service
        BY <3>1, <4>2, ForeignLine
      <4>3. CASE file[n].kind = "section" /\ file[n].closed /\ file[n].service
        <5>1. Opens(n)
          BY <3>1, <4>3 DEF Opens
        <5> QED BY <3>1, <5>1, SectionLine
      <4> QED BY <4>1, <4>2, <4>3
    <3> QED BY <2>2, <3>2
  <2>5. LoadedTo(f[N], N)
    <3> HIDE DEF G, N
    <3>1. \A n \in 1..N : n - 1 \in G => n \in G
      BY <2>4
    <3>2. \A n \in 0..N : n \in G
      BY <2>1, <2>3, <3>1, UpTo
    <3>3. N \in G
      BY <2>1, <3>2
    <3> QED BY <3>3 DEF G
  <2>6. InOrder(f[N].services, Makers, MaxServices, [q \in Makers |-> EntryOf(N, q)])
    <3>1. N \in Nat /\ Makers \in SUBSET (1..N)
      BY <2>1, MakersFacts
    <3>2. InOrderTo(f[N].services, Makers, MaxServices, [q \in Makers |-> EntryOf(N, q)], N)
      BY <2>5 DEF LoadedTo
    <3> HIDE DEF N
    <3> QED BY ONLY <3>1, <3>2, InOrderAll
  <2> QED BY <2>2, <2>6 DEF LoadExact
<1> QED BY <1>1, InputsTyped, PTL
=============================================================================
