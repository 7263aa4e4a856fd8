-------------------------- MODULE ResponderProofs --------------------------
(***************************************************************************)
(* What reading a file of any length and choosing among any interfaces     *)
(* yields, and what is answered with it.                                   *)
(***************************************************************************)
EXTENDS Configuration, Responder, TableProofs, SequenceTheorems

----------------------------------------------------------------------------
(* The file. *)

\* What has been read after n lines.
ReadFile(file) ==
  CHOOSE f : f = [n \in 0..Len(file) |->
                    IF n = 0 THEN Unread ELSE ReadLine(f[n - 1], file[n])]

\* The loop of umdns_server_config_load is defined for every file.
LEMMA ReadFileDef ==
  ASSUME NEW file, Len(file) \in Nat
  PROVE  LET f == ReadFile(file) IN
         /\ Load(file) = f[Len(file)].services
         /\ f[0] = Unread
         /\ \A n \in 1..Len(file) : f[n] = ReadLine(f[n - 1], file[n])
<1> DEFINE Body(f, m) == [n \in 0..m |->
                    IF n = 0 THEN Unread ELSE ReadLine(f[n - 1], file[n])]
           G == {m \in 0..Len(file) : \E f : f = Body(f, m)}
<1>1. 0 \in G
  <2> DEFINE f == [n \in 0..0 |-> Unread]
  <2>1. f = Body(f, 0)
    OBVIOUS
  <2> HIDE DEF f, Body
  <2> QED BY <2>1
<1>2. ASSUME NEW i \in 1..Len(file), i - 1 \in G PROVE i \in G
  <2>1. PICK f : f = Body(f, i - 1)
    BY <1>2
  <2> DEFINE g == [n \in 0..i |-> IF n = i THEN ReadLine(f[i - 1], file[i]) ELSE f[n]]
  <2>2. ASSUME NEW n \in 0..i
        PROVE  g[n] = IF n = 0 THEN Unread ELSE ReadLine(g[n - 1], file[n])
    <3>1. CASE n = i
      BY <3>1
    <3>2. CASE n # i
      <4>1. n \in 0..i-1
        BY <3>2
      <4>2. g[n] = f[n] /\ (n # 0 => g[n - 1] = f[n - 1])
        BY <4>1
      <4>3. f[n] = Body(f, i - 1)[n]
        BY <2>1
      <4> QED BY <4>1, <4>2, <4>3
    <3> QED BY <3>1, <3>2
  <2>3. g = Body(g, i)
    BY <2>2
  <2> HIDE DEF g, Body
  <2> QED BY <2>3
<1>3. Len(file) \in G
  <2> HIDE DEF G
  <2>1. \A i \in 1..Len(file) : i - 1 \in G => i \in G
    BY <1>2
  <2>2. \A i \in 0..Len(file) : i \in G
    BY <1>1, <2>1, UpTo
  <2> QED BY <2>2
<1> DEFINE f == ReadFile(file)
<1>4. f = Body(f, Len(file))
  BY <1>3 DEF ReadFile
<1>5. Load(file) = f[Len(file)].services
  BY DEF Load, ReadFile
<1> HIDE DEF f
<1>6. ASSUME NEW n \in 0..Len(file)
      PROVE  f[n] = IF n = 0 THEN Unread ELSE ReadLine(f[n - 1], file[n])
  <2>1. f[n] = Body(f, Len(file))[n]
    BY <1>4
  <2> QED BY <2>1
<1>7. f[0] = Unread /\ \A n \in 1..Len(file) : f[n] = ReadLine(f[n - 1], file[n])
  BY <1>6
<1> QED BY <1>5, <1>7 DEF f

\* What has been read is a list of services within its capacity, no name
\* of which fills its field, and a position in it or none.
ReadState(c) ==
  /\ c \in [services : Seq(Service), index : Nat]
  /\ c.index <= Len(c.services) /\ Len(c.services) <= MaxServices
  /\ \A i \in 1..Len(c.services) : StrLen(c.services[i].instance) < MaxName

\* A new section.
LEMMA NewServiceType ==
  ASSUME NEW n \in FileNames
  PROVE  NewService(n) \in Service /\ StrLen(NewService(n).instance) < MaxName
<1>1. << >> \in Name /\ 0 \in Port
  BY DEF Name, Port
<1>3. NoTxt \in Txt
  BY DnsAssumption DEF NoTxt, Txt
<1>2. Cut[n] \in Name /\ StrLen(Cut[n]) < MaxName
  BY ConfigurationAssumption
<1> HIDE DEF Name, Port, Txt
<1> QED BY <1>1, <1>2, <1>3 DEF NewService, Service

\* A key changes the service it is for and not its name.
LEMMA SetKeyType ==
  ASSUME NEW s \in Service, NEW l \in Line
  PROVE  SetKey(s, l) \in Service /\ SetKey(s, l).instance = s.instance
<1> DEFINE t == IF l.kind = "type" THEN Cut[l.value] ELSE s.type
           h == IF l.kind = "host" THEN Cut[l.value] ELSE s.host
           p == IF l.kind = "port" /\ l.value \in Port \ {0} THEN l.value ELSE s.port
           x == IF l.kind = "txt" THEN CutTxt(l.value) ELSE s.txt
<1>1. SetKey(s, l) = [s EXCEPT !.type = t, !.host = h, !.port = p, !.txt = x]
  BY DEF SetKey
<1>2. s = [instance |-> s.instance, type |-> s.type, host |-> s.host, port |-> s.port,
           txt |-> s.txt]
  BY DEF Service
<1>3. t \in Name /\ h \in Name
  <2>1. l.kind \in {"type", "host"} => l.value \in FileNames
    BY DEF Line
  <2> HIDE DEF Name
  <2> QED BY <2>1, ConfigurationAssumption DEF Service
<1>4. p \in Port
  BY DEF Service
<1>5. x \in Txt
  <2>1. CASE l.kind = "txt"
    <3>1. l.value \in Txt
      BY <2>1 DEF Line
    <3>2. CutTxt(l.value) \in Txt
      BY <3>1 DEF Txt, CutTxt, MaxTxt
    <3> QED BY <2>1, <3>2
  <2>2. CASE l.kind # "txt"
    BY <2>2 DEF Service
  <2> QED BY <2>1, <2>2
<1>6. s.instance \in Name
  BY DEF Service
<1> HIDE DEF t, h, p, x
<1>7. SetKey(s, l) = [instance |-> s.instance, type |-> t, host |-> h, port |-> p, txt |-> x]
  BY <1>1, <1>2
<1> HIDE DEF Name, Port, Txt
<1>8. SetKey(s, l).instance = s.instance
  BY <1>7
<1>9. SetKey(s, l) \in Service
  BY <1>3, <1>4, <1>5, <1>6, <1>7 DEF Service
<1> QED BY <1>8, <1>9

\* Opening a section.
LEMMA FindOrCreateType ==
  ASSUME NEW c, ReadState(c), NEW n \in FileNames
  PROVE  ReadState(FindOrCreate(c, n))
<1> DEFINE found == {i \in 1..Len(c.services) : c.services[i].instance = n}
<1>1. CASE found # {}
  <2>1. Min(found) \in found
    <3>1. found \subseteq Nat
      BY DEF ReadState
    <3> QED BY <1>1, <3>1, MinExists
  <2>2. FindOrCreate(c, n) = [c EXCEPT !.index = Min(found)]
    BY <1>1 DEF FindOrCreate
  <2> HIDE DEF found
  <2>3. Min(found) \in 1..Len(c.services)
    BY <2>1 DEF found
  <2> QED BY <2>2, <2>3 DEF ReadState
<1>2. CASE found = {} /\ Len(c.services) >= MaxServices
  <2>1. FindOrCreate(c, n) = [c EXCEPT !.index = 0]
    BY <1>2 DEF FindOrCreate
  <2> QED BY <2>1 DEF ReadState
<1>3. CASE found = {} /\ ~(Len(c.services) >= MaxServices)
  <2> DEFINE s == Append(c.services, NewService(n))
  <2>1. FindOrCreate(c, n) = [services |-> s, index |-> Len(c.services) + 1]
    BY <1>3 DEF FindOrCreate
  <2>2. NewService(n) \in Service /\ StrLen(NewService(n).instance) < MaxName
    BY NewServiceType
  <2>3. /\ s \in Seq(Service) /\ Len(s) = Len(c.services) + 1
        /\ \A i \in 1..Len(c.services) : s[i] = c.services[i]
        /\ s[Len(c.services) + 1] = NewService(n)
    BY <2>2 DEF ReadState
  <2> HIDE DEF s
  <2>4. \A i \in 1..Len(s) : StrLen(s[i].instance) < MaxName
    <3> TAKE i \in 1..Len(s)
    <3>1. i \in 1..Len(c.services) \/ i = Len(c.services) + 1
      BY <2>3 DEF ReadState
    <3>2. CASE i \in 1..Len(c.services)
      BY <2>3, <3>2 DEF ReadState
    <3>3. CASE i = Len(c.services) + 1
      BY <2>2, <2>3, <3>3
    <3> QED BY <3>1, <3>2, <3>3
  <2> DEFINE e == FindOrCreate(c, n)
  <2>5. Len(c.services) \in Nat /\ Len(c.services) + 1 <= MaxServices
    <3>1. Len(c.services) \in Nat
      BY DEF ReadState
    <3>2. ~(Len(c.services) >= MaxServices)
      BY <1>3
    <3>3. MaxServices \in Nat
      BY ConfigurationAssumption
    <3> HIDE DEF found
    <3> QED BY <3>1, <3>2, <3>3
  <2>6. e \in [services : Seq(Service), index : Nat] /\ e.services = s /\ e.index = Len(s)
    BY <2>1, <2>3, <2>5
  <2> HIDE DEF e
  <2>7. ReadState(e)
    BY <2>3, <2>4, <2>5, <2>6 DEF ReadState
  <2> QED BY <2>7 DEF e
<1> QED BY <1>1, <1>2, <1>3

\* A line keeps the list within its capacity and the index within the list.
LEMMA ReadLineType ==
  ASSUME NEW c, ReadState(c), NEW l \in Line
  PROVE  ReadState(ReadLine(c, l))
<1>1. CASE l.kind = "section" /\ l.closed /\ l.service
  <2>1. l.name \in FileNames
    BY <1>1 DEF Line
  <2> QED BY <1>1, <2>1, FindOrCreateType DEF ReadLine
<1>2. CASE l.kind = "section" /\ l.closed /\ ~l.service
  BY <1>2 DEF ReadLine, ReadState
<1>3. CASE l.kind \notin {"blank", "section"} /\ l.assigned /\ c.index > 0
  <2> DEFINE i == c.index
             s == [c.services EXCEPT ![i] = SetKey(@, l)]
  <2>1. ReadLine(c, l) = [services |-> s, index |-> i]
    BY <1>3, Zenon DEF ReadLine
  <2>2. i \in 1..Len(c.services) /\ c.services[i] \in Service
    BY <1>3 DEF ReadState
  <2>3. /\ SetKey(c.services[i], l) \in Service
        /\ SetKey(c.services[i], l).instance = c.services[i].instance
    BY <2>2, SetKeyType
  <2>4. /\ s \in Seq(Service) /\ Len(s) = Len(c.services)
        /\ \A j \in 1..Len(s) : s[j].instance = c.services[j].instance
    BY <2>2, <2>3 DEF ReadState
  <2> DEFINE e == ReadLine(c, l)
  <2>5. i \in Nat /\ i <= Len(c.services) /\ Len(c.services) <= MaxServices
    BY DEF ReadState
  <2> HIDE DEF i, s
  <2>6. e \in [services : Seq(Service), index : Nat] /\ e.services = s /\ e.index = i
    BY <2>1, <2>4, <2>5
  <2>7. \A j \in 1..Len(s) : StrLen(s[j].instance) < MaxName
    BY <2>4 DEF ReadState
  <2> HIDE DEF e
  <2>8. ReadState(e)
    BY <2>4, <2>5, <2>6, <2>7 DEF ReadState
  <2> QED BY <2>8 DEF e
<1>4. CASE ReadLine(c, l) = c
  BY <1>4
<1> QED BY <1>1, <1>2, <1>3, <1>4 DEF ReadLine

\* Whatever the file says and however long it is, the services loaded fit
\* the configuration, with names that fit their fields and ports a record
\* can carry.
THEOREM LoadFits ==
  ASSUME NEW file \in Seq(Line)
  PROVE  /\ Load(file) \in Seq(Service)
         /\ Len(Load(file)) <= MaxServices
         /\ \A i \in 1..Len(Load(file)) : StrLen(Load(file)[i].instance) < MaxName
<1> DEFINE f == ReadFile(file)
           G == {n \in 0..Len(file) : ReadState(f[n])}
<1>1. /\ Load(file) = f[Len(file)].services
      /\ f[0] = Unread
      /\ \A n \in 1..Len(file) : f[n] = ReadLine(f[n - 1], file[n])
  BY ReadFileDef
<1> HIDE DEF f
<1>2. 0 \in G
  <2>1. ReadState(Unread)
    <3>1. Unread.services = << >> /\ Unread.index = 0
      BY DEF Unread
    <3>2. Unread \in [services : Seq(Service), index : Nat]
      BY DEF Unread
    <3>3. Len(<< >>) = 0 /\ MaxServices \in Nat
      BY ConfigurationAssumption
    <3> QED BY <3>1, <3>2, <3>3 DEF ReadState
  <2> QED BY <1>1, <2>1
<1>3. \A n \in 1..Len(file) : n - 1 \in G => n \in G
  <2>1. ASSUME NEW n \in 1..Len(file), ReadState(f[n - 1]) PROVE ReadState(f[n])
    <3>1. file[n] \in Line
      OBVIOUS
    <3> QED BY <1>1, <2>1, <3>1, ReadLineType
  <2> QED BY <2>1
<1> HIDE DEF G
<1>4. \A n \in 0..Len(file) : n \in G
  <2>1. Len(file) \in Nat
    OBVIOUS
  <2> QED BY <1>2, <1>3, <2>1, UpTo
<1>5. ReadState(f[Len(file)])
  BY <1>4 DEF G
<1> QED BY <1>1, <1>5 DEF ReadState

----------------------------------------------------------------------------
(* The interfaces. *)

\* What has been chosen after n entries.
ReadList(entries, wanted) ==
  CHOOSE f : f = [n \in 0..Len(entries) |->
                    IF n = 0 THEN NoAddress
                    ELSE ReadEntry(f[n - 1], entries[n], wanted)]

\* The loop of discover_interface_addresses is defined for every list.
LEMMA ReadListDef ==
  ASSUME NEW entries, NEW wanted, Len(entries) \in Nat
  PROVE  LET f == ReadList(entries, wanted) IN
         /\ Found(entries, wanted) = f[Len(entries)]
         /\ f[0] = NoAddress
         /\ \A n \in 1..Len(entries) : f[n] = ReadEntry(f[n - 1], entries[n], wanted)
<1> DEFINE Body(f, m) == [n \in 0..m |->
                    IF n = 0 THEN NoAddress
                    ELSE ReadEntry(f[n - 1], entries[n], wanted)]
           G == {m \in 0..Len(entries) : \E f : f = Body(f, m)}
<1>1. 0 \in G
  <2> DEFINE f == [n \in 0..0 |-> NoAddress]
  <2>1. f = Body(f, 0)
    OBVIOUS
  <2> HIDE DEF f, Body
  <2> QED BY <2>1
<1>2. ASSUME NEW i \in 1..Len(entries), i - 1 \in G PROVE i \in G
  <2>1. PICK f : f = Body(f, i - 1)
    BY <1>2
  <2> DEFINE g == [n \in 0..i |-> IF n = i THEN ReadEntry(f[i - 1], entries[i], wanted)
                                         ELSE f[n]]
  <2>2. ASSUME NEW n \in 0..i
        PROVE  g[n] = IF n = 0 THEN NoAddress
                      ELSE ReadEntry(g[n - 1], entries[n], wanted)
    <3>1. CASE n = i
      BY <3>1
    <3>2. CASE n # i
      <4>1. n \in 0..i-1
        BY <3>2
      <4>2. g[n] = f[n] /\ (n # 0 => g[n - 1] = f[n - 1])
        BY <4>1
      <4>3. f[n] = Body(f, i - 1)[n]
        BY <2>1
      <4> QED BY <4>1, <4>2, <4>3
    <3> QED BY <3>1, <3>2
  <2>3. g = Body(g, i)
    BY <2>2
  <2> HIDE DEF g, Body
  <2> QED BY <2>3
<1>3. Len(entries) \in G
  <2> HIDE DEF G
  <2>1. \A i \in 1..Len(entries) : i - 1 \in G => i \in G
    BY <1>2
  <2>2. \A i \in 0..Len(entries) : i \in G
    BY <1>1, <2>1, UpTo
  <2> QED BY <2>2
<1> DEFINE f == ReadList(entries, wanted)
<1>4. f = Body(f, Len(entries))
  BY <1>3 DEF ReadList
<1>5. Found(entries, wanted) = f[Len(entries)]
  BY DEF Found, ReadList
<1> HIDE DEF f
<1>6. ASSUME NEW n \in 0..Len(entries)
      PROVE  f[n] = IF n = 0 THEN NoAddress
                    ELSE ReadEntry(f[n - 1], entries[n], wanted)
  <2>1. f[n] = Body(f, Len(entries))[n]
    BY <1>4
  <2> QED BY <2>1
<1>7. f[0] = NoAddress
      /\ \A n \in 1..Len(entries) : f[n] = ReadEntry(f[n - 1], entries[n], wanted)
  BY <1>6
<1> QED BY <1>5, <1>7 DEF f

\* The entries that give an address of the family.
Giving4(entries, wanted) ==
  {i \in 1..Len(entries) : Considered(entries[i], wanted) /\ Takes4(entries[i])}
Giving6(entries, wanted) ==
  {i \in 1..Len(entries) : Considered(entries[i], wanted) /\ Takes6(entries[i], wanted)}

\* a is the address of the first of n entries that gives one, "" if none does.
IsFirst(a, n, entries, giving) ==
  \/ a = "" /\ \A i \in 1..n : i \notin giving
  \/ \E i \in 1..n : /\ i \in giving /\ a = entries[i].address
                     /\ \A j \in 1..i-1 : j \notin giving

Firsts(a, n, entries, wanted) ==
  /\ IsFirst(a.ipv4, n, entries, Giving4(entries, wanted))
  /\ IsFirst(a.ipv6, n, entries, Giving6(entries, wanted))

\* An entry has an address, never the empty text that stands for none.
LEMMA EntryAddress ==
  ASSUME NEW e \in Entry
  PROVE  e.address \in Addresses /\ e.address # ""
<1>1. e.address \in Addresses
  BY DEF Entry
<1>2. "" \notin Addresses
  BY ConfigurationAssumption
<1> QED BY <1>1, <1>2

\* An entry leaves the first address of each family in place.
LEMMA ReadEntryFirst ==
  ASSUME NEW entries \in Seq(Entry), NEW wanted, NEW n \in 1..Len(entries),
         NEW a, Firsts(a, n - 1, entries, wanted),
         NEW b, b = ReadEntry(a, entries[n], wanted)
  PROVE  Firsts(b, n, entries, wanted)
<1> DEFINE e == entries[n]
<1>1. n \in Nat /\ n - 1 \in Nat /\ 1..n = (1..n-1) \cup {n} 
  OBVIOUS
<1>2. e.address # ""
  <2>1. e \in Entry
    OBVIOUS
  <2> QED BY <2>1, EntryAddress
<1>3. \A i \in 1..n-1 : entries[i].address # ""
  <2>1. \A i \in 1..n-1 : entries[i] \in Entry
    OBVIOUS
  <2> QED BY <2>1, EntryAddress
<1>4. IsFirst(b.ipv4, n, entries, Giving4(entries, wanted))
  <2>1. CASE a.ipv4 = "" /\ n \in Giving4(entries, wanted)
    <3>1. b.ipv4 = e.address
      BY <2>1 DEF ReadEntry, Giving4
    <3>2. \A i \in 1..n-1 : i \notin Giving4(entries, wanted)
      BY <1>3, <2>1 DEF Firsts, IsFirst
    <3> QED BY <1>1, <2>1, <3>1, <3>2 DEF IsFirst
  <2>2. CASE a.ipv4 # "" \/ n \notin Giving4(entries, wanted)
    <3>1. b.ipv4 = a.ipv4
      BY <2>2 DEF ReadEntry, Giving4
    <3> QED BY <1>1, <2>2, <3>1 DEF Firsts, IsFirst
  <2> QED BY <2>1, <2>2
<1>5. IsFirst(b.ipv6, n, entries, Giving6(entries, wanted))
  <2>1. CASE a.ipv6 = "" /\ n \in Giving6(entries, wanted)
    <3>1. b.ipv6 = e.address
      BY <2>1 DEF ReadEntry, Giving6
    <3>2. \A i \in 1..n-1 : i \notin Giving6(entries, wanted)
      BY <1>3, <2>1 DEF Firsts, IsFirst
    <3> QED BY <1>1, <2>1, <3>1, <3>2 DEF IsFirst
  <2>2. CASE a.ipv6 # "" \/ n \notin Giving6(entries, wanted)
    <3>1. b.ipv6 = a.ipv6
      BY <2>2 DEF ReadEntry, Giving6
    <3> QED BY <1>1, <2>2, <3>1 DEF Firsts, IsFirst
  <2> QED BY <2>1, <2>2
<1> QED BY <1>4, <1>5 DEF Firsts

\* For each family the machine's first address that qualifies is taken,
\* however long the list, however it mixes interfaces and families, and
\* although the search may end early or not at all.
THEOREM FoundFirst ==
  ASSUME NEW entries \in Seq(Entry), NEW wanted
  PROVE  Firsts(Found(entries, wanted), Len(entries), entries, wanted)
<1> DEFINE f == ReadList(entries, wanted)
           G == {n \in 0..Len(entries) : Firsts(f[n], n, entries, wanted)}
<1>1. Len(entries) \in Nat
  OBVIOUS
<1>2. /\ Found(entries, wanted) = f[Len(entries)]
      /\ f[0] = NoAddress
      /\ \A n \in 1..Len(entries) : f[n] = ReadEntry(f[n - 1], entries[n], wanted)
  BY <1>1, ReadListDef
<1> HIDE DEF f
<1>3. 0 \in G
  <2>1. Firsts(NoAddress, 0, entries, wanted)
    BY DEF Firsts, IsFirst, NoAddress
  <2> QED BY <1>1, <1>2, <2>1
<1>4. \A n \in 1..Len(entries) : n - 1 \in G => n \in G
  <2>1. ASSUME NEW n \in 1..Len(entries), Firsts(f[n - 1], n - 1, entries, wanted)
        PROVE  Firsts(f[n], n, entries, wanted)
    BY <1>2, <2>1, ReadEntryFirst
  <2> QED BY <2>1
<1> HIDE DEF G
<1>5. \A n \in 0..Len(entries) : n \in G
  BY <1>1, <1>3, <1>4, UpTo
<1> QED BY <1>1, <1>2, <1>5 DEF G

\* The addresses announced are addresses.
LEMMA DiscoverType ==
  ASSUME NEW m \in Machine
  PROVE  Discover(m).ipv4 \in Addresses /\ Discover(m).ipv6 \in Addresses
<1> DEFINE a == IF m.listed THEN Found(m.entries, m.wanted) ELSE NoAddress
<1>1. a.ipv4 \in Addresses \cup {""} /\ a.ipv6 \in Addresses \cup {""}
  <2>1. CASE m.listed
    <3>1. m.entries \in Seq(Entry)
      BY DEF Machine
    <3>2. \A i \in 1..Len(m.entries) : m.entries[i].address \in Addresses
      <4>1. \A i \in 1..Len(m.entries) : m.entries[i] \in Entry
        BY <3>1
      <4> QED BY <4>1, EntryAddress
    <3>3. Firsts(a, Len(m.entries), m.entries, m.wanted)
      BY <2>1, <3>1, FoundFirst
    <3> HIDE DEF a
    <3> QED BY <3>2, <3>3 DEF Firsts, IsFirst
  <2>2. CASE ~m.listed
    BY <2>2 DEF NoAddress
  <2> QED BY <2>1, <2>2
<1>2. /\ Discover(m).ipv4 = IF a.ipv4 = "" THEN "127.0.0.1" ELSE a.ipv4
      /\ Discover(m).ipv6 = IF a.ipv6 = "" THEN "::1" ELSE a.ipv6
  BY DEF Discover, NoAddress
<1> HIDE DEF a
<1> QED BY <1>1, <1>2, ConfigurationAssumption

\* Applying the identity to a loaded configuration makes the hosts agree.
LEMMA IdentityApplied ==
  ASSUME NEW file \in Seq(Line), NEW m \in Machine
  PROVE  LET c == ApplyIdentity([ConfigInit EXCEPT !.services = Load(file)], m) IN
         /\ c \in Config
         /\ c.hostname = IF m.named THEN m.hostname ELSE <<"umdns">>
         /\ \A i \in DOMAIN c.services : c.services[i].host = c.hostname
<1> DEFINE f == Load(file)
           c0 == [ConfigInit EXCEPT !.services = f]
           c == ApplyIdentity(c0, m)
           h == IF m.named THEN m.hostname ELSE <<"umdns">>
           a == Discover(m)
           g == [i \in DOMAIN f |-> [f[i] EXCEPT !.host = h]]
<1>0. <<"umdns">> \in Name
  <2>1. "umdns" \in Labels
    BY DnsAssumption
  <2> QED BY <2>1 DEF Name
<1>1. f \in Seq(Service) /\ h \in Name /\ a.ipv4 \in Addresses /\ a.ipv6 \in Addresses
  <2>1. f \in Seq(Service)
    BY LoadFits
  <2>2. a.ipv4 \in Addresses /\ a.ipv6 \in Addresses
    BY DiscoverType
  <2>3. m.hostname \in Name
    BY DEF Machine
  <2> QED BY <1>0, <2>1, <2>2, <2>3
<1>2. c0 \in Config
  <2>1. NoTxt \in Txt
    BY DnsAssumption DEF NoTxt, Txt
  <2>2. "0.0.0.0" \in Addresses /\ "::" \in Addresses
    BY DnsAssumption
  <2> HIDE DEF f
  <2> QED BY <1>0, <1>1, <2>1, <2>2 DEF Config, ConfigInit
<1>4. c0.services = f
  BY DEF ConfigInit
<1>5. c = [c0 EXCEPT !.hostname = h, !.ipv4 = a.ipv4, !.ipv6 = a.ipv6, !.services = g]
  BY <1>4 DEF ApplyIdentity
<1> HIDE DEF f, h, a
<1>3. g \in Seq(Service) /\ \A i \in DOMAIN g : g[i].host = h
  <2>1. Len(f) \in Nat /\ DOMAIN f = 1..Len(f)
    BY <1>1
  <2>2. ASSUME NEW i \in DOMAIN f
        PROVE  g[i] \in Service /\ g[i].host = h
    <3>1. f[i] \in Service
      BY <1>1
    <3>2. g[i] = [f[i] EXCEPT !.host = h]
      OBVIOUS
    <3> HIDE DEF g
    <3> QED BY <1>1, <3>1, <3>2 DEF Service
  <2>3. g \in [1..Len(f) -> Service]
    BY <2>1, <2>2
  <2> QED BY <2>1, <2>2, <2>3, SeqDef
<1> HIDE DEF g, c, c0
<1>6. c \in Config /\ c.services = g /\ c.hostname = h
  BY <1>1, <1>2, <1>3, <1>5 DEF Config
<1> QED BY <1>3, <1>6 DEF c, c0, f, h

----------------------------------------------------------------------------
(* What is answered. *)

\* A sequence of whatever, and one of records.
Answers(a) == Len(a) \in Nat /\ DOMAIN a = 1..Len(a)
Kinds == {"A", "AAAA", "PTR", "SRV", "TXT"}
Records(a) == Answers(a) /\ \A i \in DOMAIN a : a[i].rr \in Kinds

\* A message is either the records it was asked to carry or empty.
LEMMA MessageAnswers ==
  ASSUME NEW records
  PROVE  Message(records).answers = records \/ Message(records).answers = << >>
BY DEF Message, NoMessage

\* Adding the text leaves the other records alone.
LEMMA WithTxtRecords ==
  ASSUME NEW a, NEW b, NEW n, NEW t
  PROVE  LET r == WithTxt(<<a, b>>, n, t) IN
         Answers(r) /\ \A i \in DOMAIN r : r[i] \in {a, b, TxtRecord(n, t)}
<1> USE DEF Answers
<1>1. CASE t.len = 0
  BY <1>1 DEF WithTxt
<1>2. CASE t.len # 0
  <2> DEFINE x == TxtRecord(n, t)
  <2>1. WithTxt(<<a, b>>, n, t) = Append(<<a, b>>, x)
    BY <1>2 DEF WithTxt
  <2> HIDE DEF x
  <2>2. \A j \in DOMAIN Append(<<a, b>>, x) : Append(<<a, b>>, x)[j] \in {a, b, x}
    OBVIOUS
  <2>3. Answers(Append(<<a, b>>, x))
    OBVIOUS
  <2> QED BY <2>1, <2>2, <2>3 DEF x
<1> QED BY <1>1, <1>2

\* The answers of a service are a sequence, and its SRV record, if they have
\* one, is that of its instance, host and port.
SrvOf(s) == SrvRecord(InstanceName(s), HostName(s.host), s.port)

\* The only SRV record of a service's reply is its own.
LEMMA ServiceReplySrv ==
  ASSUME NEW s
  PROVE  LET a == ServiceReply(s).answers IN
         Records(a) /\ \A i \in DOMAIN a : a[i].rr = "SRV" => a[i] = SrvOf(s)
<1> DEFINE p == PtrRecord(TypeName(s), InstanceName(s))
           v == SrvOf(s)
           t == TxtRecord(InstanceName(s), s.txt)
           r == WithTxt(<<p, v>>, InstanceName(s), s.txt)
<1>1. p.rr = "PTR" /\ t.rr = "TXT" /\ v.rr = "SRV"
  BY DEF PtrRecord, TxtRecord, SrvOf, SrvRecord
<1>2. \A k \in DOMAIN r : r[k] \in {p, v, t}
  BY WithTxtRecords
<1>3. Answers(r)
  BY WithTxtRecords
<1>4. ServiceReply(s).answers \in {r, << >>}
  <2>1. Message(r).answers \in {r, << >>}
    BY MessageAnswers
  <2> QED BY <2>1, Zenon DEF ServiceReply, NoMessage, SrvOf
<1>5. Answers(<< >>)
  BY DEF Answers
<1> USE DEF Records, Kinds
<1> HIDE DEF p, v, t, r
<1>6. CASE ServiceReply(s).answers = r
  BY <1>1, <1>2, <1>3, <1>6 DEF v
<1>7. CASE ServiceReply(s).answers = << >>
  BY <1>5, <1>7
<1> QED BY <1>4, <1>6, <1>7

\* Neither the host's answer nor the enumeration has an SRV record.
LEMMA HostReplyNoSrv ==
  ASSUME NEW c
  PROVE  LET a == HostReply(c).answers IN
         Records(a) /\ \A i \in DOMAIN a : a[i].rr # "SRV"
<1> DEFINE n == HostName(c.hostname)
           a == ARecord(n, c.ipv4)
           b == AAAARecord(n, c.ipv6)
           t == TxtRecord(n, c.host_txt)
           r == WithTxt(<<a, b>>, n, c.host_txt)
<1>1. a.rr = "A" /\ b.rr = "AAAA" /\ t.rr = "TXT"
  BY DEF ARecord, AAAARecord, TxtRecord
<1>2. (\A k \in DOMAIN r : r[k] \in {a, b, t}) /\ Answers(r)
  BY WithTxtRecords
<1>3. HostReply(c).answers \in {r, << >>}
  BY MessageAnswers DEF HostReply
<1>4. Answers(<< >>)
  BY DEF Answers
<1> HIDE DEF a, b, t, r
<1> QED BY <1>1, <1>2, <1>3, <1>4 DEF Records, Kinds

\* The records listed after n services.
Listed(services) ==
  CHOOSE f : f = [n \in 0..Len(services) |->
                    IF n = 0 THEN << >> ELSE ListType(f[n - 1], services[n])]

\* The loop of umdns_mdns_build_response_service_enum is defined for every
\* number of services.
LEMMA ListedDef ==
  ASSUME NEW services, Len(services) \in Nat
  PROVE  LET f == Listed(services) IN
         /\ f[0] = << >>
         /\ \A n \in 1..Len(services) : f[n] = ListType(f[n - 1], services[n])
<1> DEFINE Body(f, m) == [n \in 0..m |->
                    IF n = 0 THEN << >> ELSE ListType(f[n - 1], services[n])]
           G == {m \in 0..Len(services) : \E f : f = Body(f, m)}
<1>1. 0 \in G
  <2> DEFINE f == [n \in 0..0 |-> << >>]
  <2>1. f = Body(f, 0)
    OBVIOUS
  <2> HIDE DEF f, Body
  <2> QED BY <2>1
<1>2. ASSUME NEW i \in 1..Len(services), i - 1 \in G PROVE i \in G
  <2>1. PICK f : f = Body(f, i - 1)
    BY <1>2
  <2> DEFINE g == [n \in 0..i |-> IF n = i THEN ListType(f[i - 1], services[i]) ELSE f[n]]
  <2>2. ASSUME NEW n \in 0..i
        PROVE  g[n] = IF n = 0 THEN << >> ELSE ListType(g[n - 1], services[n])
    <3>1. CASE n = i
      BY <3>1
    <3>2. CASE n # i
      <4>1. n \in 0..i-1
        BY <3>2
      <4>2. g[n] = f[n] /\ (n # 0 => g[n - 1] = f[n - 1])
        BY <4>1
      <4>3. f[n] = Body(f, i - 1)[n]
        BY <2>1
      <4> QED BY <4>1, <4>2, <4>3
    <3> QED BY <3>1, <3>2
  <2>3. g = Body(g, i)
    BY <2>2
  <2> HIDE DEF g, Body
  <2> QED BY <2>3
<1>3. Len(services) \in G
  <2> HIDE DEF G
  <2>1. \A i \in 1..Len(services) : i - 1 \in G => i \in G
    BY <1>2
  <2>2. \A i \in 0..Len(services) : i \in G
    BY <1>1, <2>1, UpTo
  <2> QED BY <2>2
<1> DEFINE f == Listed(services)
<1>4. f = Body(f, Len(services))
  BY <1>3 DEF Listed
<1> HIDE DEF f
<1>5. ASSUME NEW n \in 0..Len(services)
      PROVE  f[n] = IF n = 0 THEN << >> ELSE ListType(f[n - 1], services[n])
  <2>1. f[n] = Body(f, Len(services))[n]
    BY <1>4
  <2> QED BY <2>1
<1> QED BY <1>5 DEF f

\* The enumeration has pointers only.
LEMMA EnumReplyNoSrv ==
  ASSUME NEW c, Len(c.services) \in Nat
  PROVE  LET a == EnumReply(c).answers IN
         Records(a) /\ \A i \in DOMAIN a : a[i].rr # "SRV"
<1> DEFINE f == Listed(c.services)
           Ptrs(r) == Answers(r) /\ \A i \in DOMAIN r : r[i].rr = "PTR"
           G == {n \in 0..Len(c.services) : Ptrs(f[n])}
<1>1. /\ f[0] = << >>
      /\ \A n \in 1..Len(c.services) : f[n] = ListType(f[n - 1], c.services[n])
  BY ListedDef
<1>2. EnumReply(c).answers \in {f[Len(c.services)], << >>}
  <2>1. EnumReply(c) = Message(f[Len(c.services)])
    BY DEF EnumReply, Listed
  <2> QED BY <2>1, MessageAnswers
<1> HIDE DEF f
<1>3. Ptrs(<< >>)
  BY DEF Answers
<1>4. ASSUME NEW i \in 1..Len(c.services), i - 1 \in G PROVE i \in G
  <2> DEFINE r == f[i - 1]
             p == PtrRecord(EnumName, TypeName(c.services[i]))
  <2>1. Ptrs(r) /\ f[i] \in {r, Append(r, p)}
    BY <1>1, <1>4 DEF ListType
  <2>2. p.rr = "PTR"
    BY DEF PtrRecord
  <2> HIDE DEF r, p
  <2>3. Ptrs(Append(r, p))
    BY <2>1, <2>2 DEF Answers
  <2>4. Ptrs(f[i])
    BY <2>1, <2>3
  <2> QED BY <2>4
<1>5. Len(c.services) \in G
  <2>1. 0 \in G
    BY <1>1, <1>3
  <2> HIDE DEF G
  <2>2. \A i \in 0..Len(c.services) : i \in G
    BY <1>4, <2>1, UpTo
  <2> QED BY <2>2
<1>6. \A i \in DOMAIN EnumReply(c).answers : EnumReply(c).answers[i].rr = "PTR"
  BY <1>2, <1>3, <1>5
<1> QED BY <1>2, <1>3, <1>5, <1>6 DEF Records, Kinds

\* Whatever is asked, the answer is a sequence of records, and an SRV record
\* of it is that of one of the services.
LEMMA AnswerSrv ==
  ASSUME NEW c \in Config, NEW q
  PROVE  LET a == Answer(c, q).answers IN
         /\ Records(a)
         /\ \A i \in DOMAIN a : a[i].rr = "SRV" =>
              \E k \in DOMAIN c.services : a[i] = SrvOf(c.services[k])
<1> DEFINE m == Max(Matching(c, q))
<1>0. Len(c.services) \in Nat /\ Matching(c, q) \in SUBSET (1..Len(c.services))
  BY DEF Config, Matching
<1>1. CASE Matching(c, q) # {}
  <2>1. m \in DOMAIN c.services
    <3>1. m \in Matching(c, q)
      BY <1>0, <1>1, MaxExists, Zenon
    <3> QED BY <3>1 DEF Matching
  <2>2. Answer(c, q) = ServiceReply(c.services[m])
    BY <1>1, Zenon DEF Answer
  <2> QED BY <2>1, <2>2, ServiceReplySrv
<1>2. CASE Matching(c, q) = {} /\ AsksEnum(q)
  <2>1. Answer(c, q) = EnumReply(c)
    BY <1>2 DEF Answer
  <2> QED BY <1>0, <2>1, EnumReplyNoSrv
<1>3. CASE Matching(c, q) = {} /\ ~AsksEnum(q) /\ AsksHost(c, q)
  <2>1. Answer(c, q) = HostReply(c)
    BY <1>3 DEF Answer
  <2> QED BY <2>1, HostReplyNoSrv
<1>4. CASE Matching(c, q) = {} /\ ~AsksEnum(q) /\ ~AsksHost(c, q)
  <2>1. Answer(c, q).answers = << >>
    BY <1>4 DEF Answer, NoMessage
  <2> QED BY <2>1 DEF Records, Answers
<1> QED BY <1>1, <1>2, <1>3, <1>4

----------------------------------------------------------------------------
(* Names. *)

\* The tokens kept of the first n pieces.
TokensIn(m) ==
  CHOOSE f : f = [i \in 0..Len(m) |->
                    IF i = 0 THEN << >>
                    ELSE IF m[i] = "" THEN f[i - 1] ELSE Append(f[i - 1], m[i])]

\* The loop of umdns_append_name is defined for every name.
LEMMA TokensDef ==
  ASSUME NEW m, Len(m) \in Nat
  PROVE  LET f == TokensIn(m) IN
         /\ Tokens(m) = f[Len(m)]
         /\ f[0] = << >>
         /\ \A i \in 1..Len(m) :
              f[i] = IF m[i] = "" THEN f[i - 1] ELSE Append(f[i - 1], m[i])
<1> DEFINE Next(s, x) == IF x = "" THEN s ELSE Append(s, x)
           Body(f, k) == [i \in 0..k |-> IF i = 0 THEN << >> ELSE Next(f[i - 1], m[i])]
           G == {k \in 0..Len(m) : \E f : f = Body(f, k)}
<1> HIDE DEF Next
<1>1. 0 \in G
  <2> DEFINE f == [i \in 0..0 |-> << >>]
  <2>1. f = Body(f, 0)
    OBVIOUS
  <2> HIDE DEF f, Body
  <2> QED BY <2>1
<1>2. ASSUME NEW k \in 1..Len(m), k - 1 \in G PROVE k \in G
  <2>1. PICK f : f = Body(f, k - 1)
    BY <1>2
  <2> DEFINE g == [i \in 0..k |-> IF i = k THEN Next(f[k - 1], m[k]) ELSE f[i]]
  <2>2. ASSUME NEW i \in 0..k
        PROVE  g[i] = IF i = 0 THEN << >> ELSE Next(g[i - 1], m[i])
    <3>1. CASE i = k
      BY <3>1
    <3>2. CASE i # k
      <4>1. i \in 0..k-1
        BY <3>2
      <4>2. g[i] = f[i] /\ (i # 0 => g[i - 1] = f[i - 1])
        BY <4>1
      <4>3. f[i] = Body(f, k - 1)[i]
        BY <2>1
      <4>4. f[i] = IF i = 0 THEN << >> ELSE Next(f[i - 1], m[i])
        BY <4>1, <4>3
      <4> HIDE DEF g
      <4> QED BY <4>2, <4>4
    <3> QED BY <3>1, <3>2
  <2>3. g = Body(g, k)
    BY <2>2
  <2> HIDE DEF g, Body
  <2> QED BY <2>3
<1>3. Len(m) \in G
  <2> HIDE DEF G
  <2>1. \A k \in 1..Len(m) : k - 1 \in G => k \in G
    BY <1>2
  <2>2. \A k \in 0..Len(m) : k \in G
    BY <1>1, <2>1, UpTo
  <2> QED BY <2>2
<1> DEFINE f == TokensIn(m)
<1>4. f = Body(f, Len(m))
  BY <1>3, Zenon DEF TokensIn, Next
<1>5. Tokens(m) = f[Len(m)]
  BY DEF Tokens, TokensIn
<1> HIDE DEF f
<1>6. ASSUME NEW i \in 0..Len(m)
      PROVE  f[i] = IF i = 0 THEN << >> ELSE Next(f[i - 1], m[i])
  <2>1. f[i] = Body(f, Len(m))[i]
    BY <1>4
  <2> QED BY <2>1
<1>7. /\ f[0] = << >>
      /\ \A i \in 1..Len(m) : f[i] = IF m[i] = "" THEN f[i - 1] ELSE Append(f[i - 1], m[i])
  <2>1. f[0] = << >>
    BY <1>6
  <2>2. ASSUME NEW i \in 1..Len(m) PROVE f[i] = Next(f[i - 1], m[i])
    BY <1>6
  <2> QED BY <2>1, <2>2 DEF Next
<1> QED BY <1>5, <1>7 DEF f

\* A name without empty pieces.
Whole(m) == m \in Name /\ \A i \in DOMAIN m : m[i] # ""

\* Such a name is written as it is.
LEMMA TokensOfWhole ==
  ASSUME NEW m, Whole(m)
  PROVE  Tokens(m) = m
<1> DEFINE f == TokensIn(m)
           Same(i) == /\ f[i] \in Name /\ Len(f[i]) = i
                      /\ \A j \in 1..i : f[i][j] = m[j]
           G == {i \in 0..Len(m) : Same(i)}
<1>1. /\ Len(m) \in Nat /\ Tokens(m) = f[Len(m)] /\ f[0] = << >>
      /\ \A i \in 1..Len(m) : f[i] = Append(f[i - 1], m[i]) /\ m[i] \in Labels
  <2>1. m \in Seq(Labels)
    BY DEF Whole, Name
  <2>2. /\ DOMAIN m = 1..Len(m) /\ Len(m) \in Nat
        /\ \A i \in 1..Len(m) : m[i] \in Labels
    BY <2>1
  <2>3. \A i \in 1..Len(m) : m[i] # ""
    BY <2>2 DEF Whole
  <2> QED BY <2>2, <2>3, TokensDef
<1> HIDE DEF f
<1>2. 0 \in G
  <2>1. << >> \in Name /\ Len(<< >>) = 0
    BY DEF Name
  <2>2. Same(0)
    BY <1>1, <2>1
  <2>3. 0 \in 0..Len(m)
    BY <1>1
  <2> HIDE DEF Same
  <2> QED BY <2>2, <2>3
<1>3. ASSUME NEW i \in 1..Len(m), i - 1 \in G PROVE i \in G
  <2>1. /\ f[i - 1] \in Seq(Labels) /\ Len(f[i - 1]) = i - 1
        /\ \A j \in 1..i-1 : f[i - 1][j] = m[j]
    BY <1>3 DEF Name
  <2>2. f[i] = Append(f[i - 1], m[i]) /\ m[i] \in Labels
    BY <1>1
  <2>3. f[i] \in Seq(Labels) /\ Len(f[i]) = i /\ f[i][i] = m[i]
        /\ \A j \in 1..i-1 : f[i][j] = f[i - 1][j]
    BY <2>1, <2>2
  <2>4. \A j \in 1..i : f[i][j] = m[j]
    BY <2>1, <2>3
  <2> QED BY <2>3, <2>4 DEF Name
<1>4. Len(m) \in G
  <2> HIDE DEF G
  <2>1. \A i \in 1..Len(m) : i - 1 \in G => i \in G
    BY <1>3
  <2>2. \A i \in 0..Len(m) : i \in G
    BY <1>1, <1>2, <2>1, UpTo
  <2> QED BY <1>1, <2>2
<1>5. f[Len(m)] \in Seq(Labels) /\ Len(f[Len(m)]) = Len(m)
      /\ \A j \in 1..Len(m) : f[Len(m)][j] = m[j]
  BY <1>4 DEF Name
<1>6. m \in Seq(Labels)
  BY DEF Whole, Name
<1> QED BY <1>1, <1>5, <1>6, SeqEqual

\* Names are compared regardless of case.
LEMMA NameMatchesFacts ==
  /\ \A m : NameMatches(m, m)
  /\ \A m, n \in Name : NameMatches(m, n) => NameMatches(n, m)
<1>1. \A m : NameMatches(m, m)
  BY DEF NameMatches
<1>2. ASSUME NEW m \in Name, NEW n \in Name, NameMatches(m, n)
      PROVE  NameMatches(n, m)
  <2>1. /\ DOMAIN m = DOMAIN n /\ Len(m) = Len(n)
        /\ \A i \in DOMAIN m : Fold[m[i]] = Fold[n[i]]
    BY <1>2 DEF NameMatches, Name
  <2> QED BY <2>1 DEF NameMatches
<1> QED BY <1>1, <1>2

\* One more piece on either side.
LEMMA AppendMatches ==
  ASSUME NEW s \in Name, NEW t \in Name, NEW x \in Labels, NEW y \in Labels,
         NameMatches(s, t), Fold[x] = Fold[y]
  PROVE  /\ Append(s, x) \in Name /\ Append(t, y) \in Name
         /\ NameMatches(Append(s, x), Append(t, y))
<1>1. /\ s \in Seq(Labels) /\ t \in Seq(Labels) /\ Len(s) = Len(t) /\ DOMAIN s = 1..Len(s)
      /\ \A i \in 1..Len(s) : Fold[s[i]] = Fold[t[i]]
  BY DEF NameMatches, Name
<1> DEFINE u == Append(s, x)
           v == Append(t, y)
<1>2. /\ u \in Seq(Labels) /\ Len(u) = Len(s) + 1 /\ DOMAIN u = 1..Len(s)+1
      /\ u[Len(s) + 1] = x /\ \A i \in 1..Len(s) : u[i] = s[i]
  BY <1>1
<1>3. /\ v \in Seq(Labels) /\ Len(v) = Len(s) + 1
      /\ v[Len(s) + 1] = y /\ \A i \in 1..Len(s) : v[i] = t[i]
  BY <1>1
<1> HIDE DEF u, v
<1>4. ASSUME NEW i \in 1..Len(s)+1 PROVE Fold[u[i]] = Fold[v[i]]
  <2>1. i \in 1..Len(s) \/ i = Len(s) + 1
    BY <1>1
  <2>2. CASE i \in 1..Len(s)
    BY <1>1, <1>2, <1>3, <2>2
  <2>3. CASE i = Len(s) + 1
    BY <1>2, <1>3, <2>3
  <2> QED BY <2>1, <2>2, <2>3
<1>5. u \in Name /\ v \in Name /\ NameMatches(u, v)
  BY <1>2, <1>3, <1>4 DEF NameMatches, Name
<1> QED BY <1>5 DEF u, v

\* Names that match are written as names that match: nothing but the empty
\* piece is like the empty piece.
LEMMA TokensMatch ==
  ASSUME NEW m \in Name, NEW n \in Name, NameMatches(m, n)
  PROVE  Tokens(m) \in Name /\ Tokens(n) \in Name /\ NameMatches(Tokens(m), Tokens(n))
<1> DEFINE f == TokensIn(m)
           g == TokensIn(n)
           Same(i) == f[i] \in Name /\ g[i] \in Name /\ NameMatches(f[i], g[i])
           G == {i \in 0..Len(m) : Same(i)}
<1>1. /\ Len(m) \in Nat /\ Len(n) = Len(m)
      /\ \A i \in 1..Len(m) : m[i] \in Labels /\ n[i] \in Labels /\ Fold[m[i]] = Fold[n[i]]
  BY DEF NameMatches, Name
<1>2. /\ Tokens(m) = f[Len(m)] /\ f[0] = << >>
      /\ \A i \in 1..Len(m) : f[i] = IF m[i] = "" THEN f[i - 1] ELSE Append(f[i - 1], m[i])
  BY <1>1, TokensDef
<1>3. /\ Tokens(n) = g[Len(m)] /\ g[0] = << >>
      /\ \A i \in 1..Len(m) : g[i] = IF n[i] = "" THEN g[i - 1] ELSE Append(g[i - 1], n[i])
  <2>1. Len(n) \in Nat
    BY <1>1
  <2>2. /\ Tokens(n) = g[Len(n)] /\ g[0] = << >>
        /\ \A i \in 1..Len(n) : g[i] = IF n[i] = "" THEN g[i - 1] ELSE Append(g[i - 1], n[i])
    BY <2>1, TokensDef
  <2> HIDE DEF g
  <2> QED BY <1>1, <2>2
<1>4. \A i \in 1..Len(m) : m[i] = "" <=> n[i] = ""
  <2> TAKE i \in 1..Len(m)
  <2>1. m[i] \in Labels /\ n[i] \in Labels /\ Fold[m[i]] = Fold[n[i]]
    BY <1>1
  <2>2. LabelLen[m[i]] = LabelLen[n[i]]
    BY <2>1, DnsAssumption
  <2> QED BY <2>1, <2>2, DnsAssumption
<1> HIDE DEF f, g
<1>5. 0 \in G
  <2>1. << >> \in Name
    BY DEF Name
  <2>2. Same(0)
    BY <1>2, <1>3, <2>1, NameMatchesFacts
  <2>3. 0 \in 0..Len(m)
    BY <1>1
  <2> HIDE DEF Same
  <2> QED BY <2>2, <2>3
<1>6. ASSUME NEW i \in 1..Len(m), Same(i - 1) PROVE Same(i)
  <2>1. CASE m[i] = ""
    BY <1>2, <1>3, <1>4, <1>6, <2>1
  <2>2. CASE m[i] # ""
    <3>1. f[i] = Append(f[i - 1], m[i]) /\ g[i] = Append(g[i - 1], n[i])
      BY <1>2, <1>3, <1>4, <2>2
    <3>2. m[i] \in Labels /\ n[i] \in Labels /\ Fold[m[i]] = Fold[n[i]]
      BY <1>1
    <3>3. \A u, v \in Name, x, y \in Labels :
            NameMatches(u, v) /\ Fold[x] = Fold[y] =>
              /\ Append(u, x) \in Name /\ Append(v, y) \in Name
              /\ NameMatches(Append(u, x), Append(v, y))
      BY AppendMatches
    <3> QED BY ONLY <1>6, <3>1, <3>2, <3>3
  <2> QED BY <2>1, <2>2
<1>7. Len(m) \in G
  <2>1. \A i \in 1..Len(m) : i - 1 \in G => i \in G
    BY <1>1, <1>6
  <2> HIDE DEF G
  <2>2. \A i \in 0..Len(m) : i \in G
    BY <1>1, <1>5, <2>1, UpTo
  <2> QED BY <1>1, <2>2
<1> QED BY <1>2, <1>3, <1>7

\* A name made local is a name.
LEMMA NormalizeName ==
  ASSUME NEW n \in Name
  PROVE  Normalize(n) \in Name
<1>1. "localhost" \in Labels /\ "local" \in Labels /\ n \in Seq(Labels)
  BY DnsAssumption DEF Name
<1>2. <<"localhost", "local">> \in Name /\ Append(n, "local") \in Name
  BY <1>1 DEF Name
<1> QED BY <1>2 DEF Normalize

\* What the responder makes of the names of a service is a name.
LEMMA ServiceNames ==
  ASSUME NEW s \in Service
  PROVE  /\ TypeName(s) \in Name /\ InstanceName(s) \in Name
         /\ Whole(InstanceName(s)) => Whole(TypeName(s))
<1>1. s.type \in Name /\ s.instance \in Name
  BY DEF Service
<1>2. TypeName(s) \in Name
  BY <1>1, NormalizeName DEF TypeName
<1> DEFINE m == IF s.instance = << >> THEN <<"">> ELSE s.instance
           n == TypeName(s)
<1>3. m \in Seq(Labels) /\ n \in Seq(Labels)
  <2>1. <<"">> \in Seq(Labels)
    <3>1. "" \in Labels
      BY DnsAssumption
    <3>2. \A x \in Labels : <<x>> \in Seq(Labels)
      OBVIOUS
    <3> QED BY <3>1, <3>2, Zenon
  <2> QED BY <1>1, <1>2, <2>1 DEF Name
<1>4. InstanceName(s) = m \o n
  BY DEF InstanceName, Dotted
<1> HIDE DEF m, n
<1>5. /\ m \o n \in Seq(Labels) /\ Len(m) \in Nat /\ Len(n) \in Nat
      /\ Len(m \o n) = Len(m) + Len(n)
      /\ \A i \in 1..Len(n) : (m \o n)[Len(m) + i] = n[i]
  BY <1>3
<1>6. ASSUME Whole(InstanceName(s)) PROVE Whole(TypeName(s))
  <2>0. DOMAIN n = 1..Len(n)
    BY <1>3
  <2> SUFFICES ASSUME NEW i \in 1..Len(n) PROVE n[i] # ""
    BY <1>2, <2>0, Zenon DEF Whole, n
  <2>1. Len(m) + i \in DOMAIN (m \o n)
    BY <1>5
  <2> QED BY <1>4, <1>5, <1>6, <2>1 DEF Whole
<1> QED BY <1>2, <1>4, <1>5, <1>6 DEF Name

----------------------------------------------------------------------------
(* What an answer has to do with its question. *)

\* A message with a length carries the records it was asked to carry.
LEMMA MessageSent ==
  ASSUME NEW records, Message(records).len > 0
  PROVE  Message(records).answers = records
BY DEF Message, NoMessage

\* The records a text is added to come first.
LEMMA WithTxtKeeps ==
  ASSUME NEW a, NEW b, NEW n, NEW t
  PROVE  LET r == WithTxt(<<a, b>>, n, t) IN
         1 \in DOMAIN r /\ 2 \in DOMAIN r /\ r[1] = a /\ r[2] = b
<1>1. \A x : LET r == Append(<<a, b>>, x) IN
             1 \in DOMAIN r /\ 2 \in DOMAIN r /\ r[1] = a /\ r[2] = b
  OBVIOUS
<1>2. LET r == <<a, b>> IN 1 \in DOMAIN r /\ 2 \in DOMAIN r /\ r[1] = a /\ r[2] = b
  OBVIOUS
<1> QED BY <1>1, <1>2, Zenon DEF WithTxt

\* The answer of a service, if there is one, names its type and instance.
LEMMA ServiceReplySent ==
  ASSUME NEW s, ServiceReply(s).len > 0
  PROVE  LET a == ServiceReply(s).answers IN
         /\ StrLen(InstanceName(s)) < MaxName
         /\ 1 \in DOMAIN a /\ a[1] = PtrRecord(TypeName(s), InstanceName(s))
         /\ 2 \in DOMAIN a /\ a[2] = SrvOf(s)
<1> DEFINE p == PtrRecord(TypeName(s), InstanceName(s))
           v == SrvOf(s)
           r == WithTxt(<<p, v>>, InstanceName(s), s.txt)
<1>1. StrLen(InstanceName(s)) < MaxName /\ ServiceReply(s) = Message(r)
  <2>1. ServiceReply(s) = IF StrLen(InstanceName(s)) < MaxName THEN Message(r) ELSE NoMessage
    BY DEF ServiceReply, SrvOf
  <2>2. ~(NoMessage.len > 0)
    BY DEF NoMessage
  <2> HIDE DEF r
  <2> QED BY <2>1, <2>2, Zenon
<1>2. ServiceReply(s).answers = r
  <2> HIDE DEF r
  <2> QED BY <1>1, MessageSent
<1>3. 1 \in DOMAIN r /\ 2 \in DOMAIN r /\ r[1] = p /\ r[2] = v
  BY WithTxtKeeps
<1> HIDE DEF p, v, r
<1> QED BY <1>1, <1>2, <1>3 DEF p, v

\* What is sent about the host is named as the host.
LEMMA HostReplySent ==
  ASSUME NEW c, HostReply(c).len > 0
  PROVE  LET a == HostReply(c).answers IN
         1 \in DOMAIN a /\ a[1] = ARecord(HostName(c.hostname), c.ipv4)
<1> DEFINE n == HostName(c.hostname)
           a == ARecord(n, c.ipv4)
           b == AAAARecord(n, c.ipv6)
           r == WithTxt(<<a, b>>, n, c.host_txt)
<1>1. HostReply(c) = Message(r)
  BY DEF HostReply
<1>2. HostReply(c).answers = r
  <2> HIDE DEF r
  <2> QED BY <1>1, MessageSent
<1>3. 1 \in DOMAIN r /\ r[1] = a
  BY WithTxtKeeps
<1> HIDE DEF a, r
<1> QED BY <1>2, <1>3 DEF a

\* A record the enumeration lists is that of the type of a service.
Lists(r, c, n) ==
  \E k \in 1..n : /\ c.services[k].type # << >>
                  /\ r = PtrRecord(EnumName, TypeName(c.services[k]))

\* What the enumeration lists are types of services.
LEMMA EnumReplyLists ==
  ASSUME NEW c, Len(c.services) \in Nat
  PROVE  LET a == EnumReply(c).answers IN
         Answers(a) /\ \A i \in DOMAIN a : Lists(a[i], c, Len(c.services))
<1> DEFINE f == Listed(c.services)
           L == Len(c.services)
           Good(r, n) == Answers(r) /\ \A i \in DOMAIN r : Lists(r[i], c, n)
           G == {n \in 0..L : Good(f[n], n)}
<1>1. /\ f[0] = << >>
      /\ \A n \in 1..L : f[n] = ListType(f[n - 1], c.services[n])
  BY ListedDef
<1>2. EnumReply(c).answers \in {f[L], << >>}
  <2>1. EnumReply(c) = Message(f[L])
    BY DEF EnumReply, Listed
  <2> QED BY <2>1, MessageAnswers
<1> HIDE DEF f
<1>3. \A n : Good(<< >>, n)
  BY DEF Answers
<1>4. ASSUME NEW n \in 1..L, n - 1 \in G PROVE n \in G
  <2> DEFINE s == c.services[n]
             p == PtrRecord(EnumName, TypeName(s))
             r == f[n - 1]
  <2>1. Good(r, n - 1) /\ n \in 1..n /\ \A k \in 1..n-1 : k \in 1..n
    BY <1>4
  <2>2. f[n] = IF s.type = << >> THEN r ELSE Append(r, p)
    BY <1>1 DEF ListType
  <2>3. s.type # << >> => Lists(p, c, n)
    BY <2>1 DEF Lists
  <2>4. \A i \in DOMAIN r : Lists(r[i], c, n)
    BY <2>1, Zenon DEF Lists
  <2> HIDE DEF s, p, r
  <2>5. CASE s.type = << >>
    <3>1. Good(f[n], n)
      BY <2>1, <2>2, <2>4, <2>5
    <3> QED BY <3>1
  <2>6. CASE s.type # << >>
    <3>1. f[n] = Append(r, p) /\ Lists(p, c, n)
      BY <2>2, <2>3, <2>6
    <3>2. /\ Answers(Append(r, p))
          /\ \A i \in DOMAIN Append(r, p) :
               (i \in DOMAIN r /\ Append(r, p)[i] = r[i]) \/ Append(r, p)[i] = p
      BY <2>1 DEF Answers
    <3>3. Good(f[n], n)
      BY <2>4, <3>1, <3>2
    <3> QED BY <3>3
  <2> QED BY <2>5, <2>6
<1>5. L \in G
  <2>1. 0 \in G
    BY <1>1, <1>3
  <2> HIDE DEF G
  <2>2. \A n \in 0..L : n \in G
    BY <1>4, <2>1, UpTo
  <2> QED BY <2>2
<1> HIDE DEF Good
<1>6. Good(EnumReply(c).answers, L)
  BY <1>2, <1>3, <1>5
<1> QED BY <1>6 DEF Good

\* The name of the enumeration is a name.
LEMMA EnumNameIsName == EnumName \in Name
<1>1. \A a, b, c, d \in Labels : <<a, b, c, d>> \in Seq(Labels)
  OBVIOUS
<1>2. /\ "_services" \in Labels /\ "_dns-sd" \in Labels
      /\ "_udp" \in Labels /\ "local" \in Labels
  BY DnsAssumption
<1> QED BY <1>1, <1>2, Zenon DEF EnumName, Name

\* A name that is asked for is written as asked, up to case and without the
\* empty pieces.
LEMMA AskedName ==
  ASSUME NEW q \in Name, NEW n \in Name, NameMatches(q, n)
  PROVE  NameMatches(Tokens(n), Tokens(q))
<1>1. NameMatches(n, q)
  BY NameMatchesFacts
<1> QED BY <1>1, TokensMatch

\* Whatever is asked of whatever configuration, also by a name with dots in
\* its labels or at its end, an answer that is sent carries a record named
\* as the question (without empty pieces, which an encoder cannot write),
\* unless it lists no service types because there are none.
THEOREM AnswerRelates ==
  ASSUME NEW c \in Config, NEW q, q.name \in Name, Answer(c, q).len > 0
  PROVE  LET a == Answer(c, q).answers IN
         \/ \E i \in DOMAIN a : NameMatches(a[i].name, Tokens(q.name))
         \/ AsksEnum(q) /\ a = << >>
<1> DEFINE m == Max(Matching(c, q))
<1>0. /\ c.services \in Seq(Service) /\ c.hostname \in Name
      /\ Matching(c, q) \in SUBSET (1..Len(c.services))
  BY DEF Config, Matching
<1>1. CASE Matching(c, q) # {}
  <2> DEFINE s == c.services[m]
             a == ServiceReply(s).answers
  <2>1. s \in Service /\ ServiceMatches(s, q)
    <3>1. Len(c.services) \in Nat
      BY <1>0
    <3>2. m \in Matching(c, q)
      BY <1>0, <1>1, <3>1, MaxExists, Zenon
    <3>3. m \in 1..Len(c.services) /\ ServiceMatches(c.services[m], q)
      BY <1>0, <3>2 DEF Matching
    <3> HIDE DEF m
    <3> QED BY <1>0, <3>3
  <2>2. Answer(c, q) = ServiceReply(s)
    BY <1>1, Zenon DEF Answer
  <2> HIDE DEF s
  <2>3. /\ 1 \in DOMAIN a /\ a[1] = PtrRecord(TypeName(s), InstanceName(s))
        /\ 2 \in DOMAIN a /\ a[2] = SrvOf(s)
    BY <2>2, ServiceReplySent
  <2>4. TypeName(s) \in Name /\ InstanceName(s) \in Name
    BY <2>1, ServiceNames
  <2>5. CASE NameMatches(q.name, TypeName(s))
    <3>1. a[1].name = Tokens(TypeName(s))
      BY <2>3 DEF PtrRecord
    <3> QED BY <2>2, <2>3, <2>4, <2>5, <3>1, AskedName
  <2>6. CASE NameMatches(q.name, InstanceName(s))
    <3>1. a[2].name = Tokens(InstanceName(s))
      BY <2>3 DEF SrvOf, SrvRecord
    <3> QED BY <2>2, <2>3, <2>4, <2>6, <3>1, AskedName
  <2> QED BY <2>1, <2>5, <2>6 DEF ServiceMatches
<1>2. CASE Matching(c, q) = {} /\ AsksEnum(q)
  <2> DEFINE a == EnumReply(c).answers
  <2>1. Answer(c, q) = EnumReply(c)
    BY <1>2 DEF Answer
  <2>2. Answers(a) /\ \A i \in DOMAIN a : Lists(a[i], c, Len(c.services))
    <3>1. Len(c.services) \in Nat
      BY <1>0
    <3> QED BY <3>1, EnumReplyLists
  <2>3. CASE 1 \in DOMAIN a
    <3>1. a[1].name = Tokens(EnumName)
      <4>1. PICK k \in 1..Len(c.services) : a[1] = PtrRecord(EnumName, TypeName(c.services[k]))
        BY <2>2, <2>3, Zenon DEF Lists
      <4> HIDE DEF a
      <4> QED BY <4>1 DEF PtrRecord
    <3>2. NameMatches(Tokens(EnumName), Tokens(q.name))
      BY <1>2, EnumNameIsName, AskedName DEF AsksEnum
    <3> QED BY <2>1, <2>3, <3>1, <3>2
  <2>4. CASE 1 \notin DOMAIN a
    <3>1. a = << >>
      BY <2>2, <2>4 DEF Answers
    <3> QED BY <1>2, <2>1, <3>1
  <2> QED BY <2>3, <2>4
<1>3. CASE Matching(c, q) = {} /\ ~AsksEnum(q) /\ AsksHost(c, q)
  <2> DEFINE a == HostReply(c).answers
             n == HostName(c.hostname)
  <2>1. Answer(c, q) = HostReply(c)
    BY <1>3 DEF Answer
  <2>2. 1 \in DOMAIN a /\ a[1].name = Tokens(n)
    <3>1. 1 \in DOMAIN a /\ a[1] = ARecord(n, c.ipv4)
      BY <2>1, HostReplySent
    <3> HIDE DEF a
    <3> QED BY <3>1 DEF ARecord
  <2>3. n \in Name
    BY <1>0, NormalizeName DEF HostName
  <2>4. NameMatches(Tokens(n), Tokens(q.name))
    BY <1>3, <2>3, AskedName DEF AsksHost
  <2> QED BY <2>1, <2>2, <2>4
<1>4. CASE Matching(c, q) = {} /\ ~AsksEnum(q) /\ ~AsksHost(c, q)
  <2>1. Answer(c, q).len = 0
    BY <1>4 DEF Answer, NoMessage
  <2> QED BY <2>1
<1> QED BY <1>1, <1>2, <1>3, <1>4
=============================================================================
