------------------------------ MODULE LanProofs ------------------------------
(***************************************************************************)
(* What servers, network and browser do together is Discovery, for any     *)
(* number of hosts, files and restarts.                                    *)
(***************************************************************************)
EXTENDS Lan, ResponderProofs, TableProofs

\* What a row is from and what it has.
FromSrv(r) == r.rrtype = "SRV"
Hosted(r) == r.hostname # ""
Ported(r) == r.port # 0

\* A row as a record makes it: SRV records alone tell of ports, always with a
\* host, and no other has both an instance and a host.
Sound(r) ==
  /\ IsRow(r)
  /\ FromSrv(r) => Hosted(r)
  /\ ~FromSrv(r) => ~Ported(r) /\ (r.instance = "" \/ ~Hosted(r))

\* Rows that tell of no service but those announced.
Truthful(rs, told) ==
  /\ rs \in Seq(ToSet(rs)) /\ HeardOf(rs) \subseteq told
  /\ \A r \in ToSet(rs) : Sound(r)

\* A server that runs has announced its services.
ServersInv ==
  /\ up \subseteq Hosts /\ config \in [Hosts -> Config]
  /\ \A h \in up : \E f \in FilesOf[h] :
       config[h] = ConfigOf(h, f) /\ ServicesOf(h, config[h]) \subseteq announced

\* Nothing else is told, neither by what is under way nor by what was heard.
RowsInv ==
  /\ Truthful(rows, announced) /\ Len(rows) <= MaxRows
  /\ \A batch \in inbox : Truthful(batch, announced)

LanInv == ServersInv /\ announced \subseteq AllServices /\ RowsInv

----------------------------------------------------------------------------
(* Rows. *)

\* The rows of a sequence of records are a sequence, one row for each.
LEMMA RowsAre ==
  ASSUME NEW a, Answers(a)
  PROVE  /\ RowsOf(a) \in Seq(ToSet(RowsOf(a)))
         /\ ToSet(RowsOf(a)) = {RowOf(a[i]) : i \in DOMAIN a}
<1> DEFINE r == [i \in DOMAIN a |-> RowOf(a[i])]
<1>1. RowsOf(a) = r
  BY DEF RowsOf
<1>2. Len(a) \in Nat /\ DOMAIN r = 1..Len(a)
  BY DEF Answers
<1>3. ToSet(r) = {RowOf(a[i]) : i \in DOMAIN a}
  BY DEF ToSet
<1>4. \A i \in 1..Len(a) : r[i] \in ToSet(r)
  BY <1>2 DEF ToSet
<1>5. r \in [1..Len(a) -> ToSet(r)]
  BY <1>2, <1>4
<1>6. r \in Seq(ToSet(r))
  BY <1>2, <1>5, SeqDef
<1> QED BY <1>1, <1>3, <1>6

\* A row with the type of an SRV record is of one.
LEMMA SrvRow ==
  ASSUME NEW r, r.rr \in Kinds, RowOf(r).rrtype = "SRV"
  PROVE  r.rr = "SRV"
BY DEF RowOf, NoRow, Kinds

\* The row of an SRV record.
LEMMA SrvRowIs ==
  ASSUME NEW r, NEW n, NEW o, NEW p, r = SrvRecord(n, o, p)
  PROVE  /\ RowOf(r).instance = Text(Tokens(n)) /\ RowOf(r).hostname = Text(Tokens(o))
         /\ RowOf(r).port = p
<1>1. r.rr = "SRV" /\ r.name = Tokens(n) /\ r.host = Tokens(o) /\ r.port = p
  BY DEF SrvRecord
<1>2. RowOf(r) = [NoRow EXCEPT !.rrtype = "SRV", !.instance = Text(r.name),
                               !.hostname = Text(r.host), !.port = r.port]
  BY ONLY <1>1 DEF RowOf
<1> HIDE DEF RowOf
<1> QED BY <1>1, <1>2 DEF NoRow

\* A row of a record that is no SRV record.
LEMMA OtherRowSound ==
  ASSUME NEW r, r.rr \in Kinds, r.rr # "SRV"
  PROVE  Sound(RowOf(r))
<1>1. CASE r.rr = "A"
  BY <1>1 DEF RowOf, NoRow, Sound, IsRow, FromSrv, Hosted, Ported
<1>2. CASE r.rr = "AAAA"
  BY <1>2 DEF RowOf, NoRow, Sound, IsRow, FromSrv, Hosted, Ported
<1>3. CASE r.rr = "PTR"
  BY <1>3 DEF RowOf, NoRow, Sound, IsRow, FromSrv, Hosted, Ported
<1>4. CASE r.rr = "TXT"
  BY <1>4 DEF RowOf, NoRow, Sound, IsRow, FromSrv, Hosted, Ported
<1> QED BY <1>1, <1>2, <1>3, <1>4 DEF Kinds

\* And one that is.
LEMMA SrvRowSound ==
  ASSUME NEW r, r.rr = "SRV", Text(r.host) # ""
  PROVE  Sound(RowOf(r))
BY DEF RowOf, NoRow, Sound, IsRow, FromSrv, Hosted, Ported

\* Appending rows that tell of nothing new to others leaves it at that.
LEMMA AppendTruthful ==
  ASSUME NEW told, NEW rs, NEW batch, NEW max \in Nat, Truthful(rs, told), Len(rs) <= max,
         Truthful(batch, told)
  PROVE  /\ Truthful(AppendUnique(rs, max, batch), told)
         /\ Len(AppendUnique(rs, max, batch)) <= max
         /\ HeardOf(rs) \subseteq HeardOf(AppendUnique(rs, max, batch))
<1> DEFINE R == ToSet(rs) \cup ToSet(batch)
           d == AppendUnique(rs, max, batch)
<1>1. rs \in Seq(R) /\ batch \in Seq(R)
  BY DEF Truthful
<1> HIDE DEF R
<1>2. /\ d \in Seq(R) /\ Len(d) <= max
      /\ Len(rs) <= Len(d) /\ \A k \in 1..Len(rs) : d[k] = rs[k]
  BY <1>1, AppendUniqueKeeps
<1> HIDE DEF d
<1>3. ToSet(d) \subseteq R /\ d \in Seq(ToSet(d))
  <2>1. Len(d) \in Nat /\ DOMAIN d = 1..Len(d)
    BY <1>2
  <2>2. \A i \in 1..Len(d) : d[i] \in ToSet(d) /\ d[i] \in R
    BY <1>2, <2>1 DEF ToSet
  <2>3. d \in [1..Len(d) -> ToSet(d)]
    BY <1>2, <2>2
  <2> QED BY <2>1, <2>2, <2>3, SeqDef DEF ToSet
<1>4. ToSet(rs) \subseteq ToSet(d)
  <2>1. DOMAIN rs = 1..Len(rs) /\ DOMAIN d = 1..Len(d) /\ Len(rs) \in Nat /\ Len(d) \in Nat
    BY <1>1, <1>2
  <2> QED BY <1>2, <2>1 DEF ToSet
<1>5. HeardOf(d) \subseteq told
  BY <1>3 DEF R, HeardOf, Truthful
<1>6. HeardOf(rs) \subseteq HeardOf(d)
  BY <1>4 DEF HeardOf
<1>7. \A r \in ToSet(d) : Sound(r)
  BY <1>3 DEF R, Truthful
<1> QED BY <1>2, <1>3, <1>5, <1>6, <1>7 DEF d, Truthful

\* A merged row that has a host has it from an SRV record.  If no SRV row of
\* its instance is without a port, then the first row with a host is the
\* first with a port.
LEMMA MergedOfOne ==
  ASSUME NEW R, NEW rs \in Seq(R), \A r \in R : Sound(r),
         NEW k \in DOMAIN Merge(rs), NEW m, m = Merge(rs)[k], Hosted(m),
         \A i \in 1..Len(rs) :
           FromSrv(rs[i]) /\ rs[i].instance = m.instance => Ported(rs[i])
  PROVE  \E i \in 1..Len(rs) :
           /\ FromSrv(rs[i]) /\ rs[i].instance = m.instance
           /\ rs[i].hostname = m.hostname /\ rs[i].port = m.port
<1> DEFINE N == Len(rs)
           F == Leading(Merging(rs), InstancesOf(rs))
           Of(i) == Mergeable(rs[i]) /\ rs[i].instance = m.instance
           H == {i \in 1..N : Of(i) /\ Hosted(rs[i])}
           Q == {i \in 1..N : Of(i) /\ Ported(rs[i])}
<1>1. /\ N \in Nat /\ DOMAIN rs = 1..N /\ F \in SUBSET (1..N)
      /\ \A i \in 1..N : Sound(rs[i])
  BY DEF Leading, Merging
<1>2. /\ Len(Merge(rs)) = Cardinality(F) /\ DOMAIN Merge(rs) = 1..Len(Merge(rs))
      /\ \A j \in F : Gathers(Merge(rs)[Place(F, j)], rs, N, rs[j].instance)
  <2>1. \A r \in R : IsRow(r)
    BY DEF Sound
  <2>2. /\ \E V : Merge(rs) \in Seq(V)
        /\ Len(Merge(rs)) = Cardinality(F)
        /\ \A j \in F : Gathers(Merge(rs)[Place(F, j)], rs, N, rs[j].instance)
    BY <2>1, MergeInOrder
  <2> HIDE DEF F, N, H, Q, Of
  <2> QED BY <2>2
<1> HIDE DEF F
<1>3. PICK j \in F : Place(F, j) = k
  <2>1. k \in 1..Cardinality(F)
    BY <1>2
  <2>2. N \in 0..N /\ Place(F, N) = Cardinality(F)
    BY <1>1, PlaceStep
  <2> HIDE DEF N, H, Q
  <2> QED BY <1>1, <2>1, <2>2, PlaceTaken
<1>4. Gathers(m, rs, N, m.instance)
  BY <1>2, <1>3 DEF Gathers
<1>5. \A i : Of(i) /\ Sound(rs[i]) =>
        (Hosted(rs[i]) <=> FromSrv(rs[i])) /\ (~FromSrv(rs[i]) => ~Ported(rs[i]))
  BY DEF Sound, Mergeable
<1>6. ASSUME NEW i \in 1..N, Of(i) PROVE Hosted(rs[i]) <=> Ported(rs[i])
  BY <1>1, <1>5, <1>6
<1>7. H = Q
  BY <1>6
<1> HIDE DEF N, H, Q
<1>8. /\ m.hostname = IF H = {} THEN "" ELSE rs[Min(H)].hostname
      /\ m.port = IF Q = {} THEN 0 ELSE rs[Min(Q)].port
  <2>1. /\ m["hostname"] = FirstOf(rs, N, m.instance, "hostname", "")
        /\ m["port"] = FirstOf(rs, N, m.instance, "port", 0)
    BY <1>4 DEF Gathers, Columns, Empty
  <2> QED BY <2>1 DEF FirstOf, H, Q, Hosted, Ported
<1>9. H # {} /\ m.hostname = rs[Min(H)].hostname /\ m.port = rs[Min(H)].port
  BY <1>7, <1>8 DEF Hosted
<1>10. Min(H) \in H
  <2>1. H \in SUBSET Nat
    BY <1>1 DEF H
  <2> QED BY <1>9, <2>1, MinExists
<1>11. Min(H) \in 1..N /\ Of(Min(H)) /\ FromSrv(rs[Min(H)])
  BY <1>1, <1>5, <1>10 DEF H
<1> QED BY <1>9, <1>11 DEF N

----------------------------------------------------------------------------
(* Names of hosts. *)

\* What a server that does not run has is a configuration, too.
LEMMA ConfigInitType == ConfigInit \in Config
<1>1. <<"umdns">> \in Name
  <2>1. "umdns" \in Labels
    BY DnsAssumption
  <2> QED BY <2>1 DEF Name
<1>2. NoTxt \in Txt
  BY DnsAssumption DEF NoTxt, Txt
<1>3. "0.0.0.0" \in Addresses /\ "::" \in Addresses
  BY DnsAssumption
<1>4. << >> \in Seq(Service)
  OBVIOUS
<1> HIDE DEF Name, Txt, NoTxt, Service
<1> QED BY <1>1, <1>2, <1>3, <1>4 DEF Config, ConfigInit

\* The last piece of a name is not empty.
EndsNamed(m) == m[Len(m)] # ""

\* A name made local ends in a piece that is not empty.
LEMMA NormalizeEnds ==
  ASSUME NEW n \in Name
  PROVE  LET m == Normalize(n) IN m \in Seq(Labels) /\ Len(m) > 0 /\ EndsNamed(m)
<1>1. n \in Seq(Labels) /\ "local" \in Labels /\ "local" # ""
  BY DnsAssumption DEF Name
<1>2. Normalize(n) \in Seq(Labels)
  BY NormalizeName DEF Name
<1>3. CASE n = << >>
  <2>1. Normalize(n) = <<"localhost", "local">>
    BY <1>3 DEF Normalize
  <2>2. \A a, b : Len(<<a, b>>) = 2 /\ <<a, b>>[2] = b
    OBVIOUS
  <2> QED BY <1>1, <1>2, <2>1, <2>2 DEF EndsNamed
<1>4. CASE n # << >> /\ Len(n) >= 2 /\ Fold[Last(n)] = "local"
  <2>1. Normalize(n) = n
    BY <1>4 DEF Normalize
  <2>2. n[Len(n)] \in Labels /\ Fold[n[Len(n)]] = "local"
    BY <1>1, <1>4 DEF Last
  <2>3. LabelLen["local"] # 0 /\ LabelLen[n[Len(n)]] = LabelLen["local"]
    BY <1>1, <2>2, DnsAssumption
  <2>4. n[Len(n)] # ""
    BY <2>2, <2>3, DnsAssumption
  <2>5. Len(n) > 0
    BY <1>1, <1>4
  <2> QED BY <1>1, <2>1, <2>4, <2>5 DEF EndsNamed
<1>5. CASE n # << >> /\ ~(Len(n) >= 2 /\ Fold[Last(n)] = "local")
  <2>1. Normalize(n) = Append(n, "local")
    BY <1>5 DEF Normalize
  <2>2. \A x \in Labels : Len(Append(n, x)) > 0 /\ Append(n, x)[Len(Append(n, x))] = x
    BY ONLY <1>1
  <2> QED BY <1>1, <1>2, <2>1, <2>2 DEF EndsNamed
<1> QED BY <1>3, <1>4, <1>5

\* A name that ends in such a piece has tokens.
LEMMA TokensLeft ==
  ASSUME NEW m \in Seq(Labels), Len(m) > 0, EndsNamed(m)
  PROVE  Tokens(m) # << >>
<1> DEFINE f == TokensIn(m)
           G == {i \in 0..Len(m) : f[i] \in Seq(Labels)}
<1>1. Len(m) \in Nat /\ \A i \in 1..Len(m) : m[i] \in Labels
  OBVIOUS
<1>2. /\ Tokens(m) = f[Len(m)] /\ f[0] = << >>
      /\ \A i \in 1..Len(m) : f[i] \in {f[i - 1], Append(f[i - 1], m[i])}
      /\ EndsNamed(m) => f[Len(m)] = Append(f[Len(m) - 1], m[Len(m)])
  <2>1. /\ Tokens(m) = f[Len(m)] /\ f[0] = << >>
        /\ \A i \in 1..Len(m) : f[i] = IF m[i] = "" THEN f[i - 1] ELSE Append(f[i - 1], m[i])
    BY <1>1, TokensDef
  <2>2. Len(m) \in 1..Len(m)
    BY <1>1
  <2> HIDE DEF f
  <2>3. EndsNamed(m) => f[Len(m)] = Append(f[Len(m) - 1], m[Len(m)])
    BY <2>1, <2>2 DEF EndsNamed
  <2>4. \A i \in 1..Len(m) : f[i] \in {f[i - 1], Append(f[i - 1], m[i])}
    BY <2>1
  <2> QED BY <2>1, <2>3, <2>4
<1> HIDE DEF f
<1>3. 0 \in G
  <2>1. << >> \in Seq(Labels) /\ 0 \in 0..Len(m)
    BY <1>1
  <2>2. f[0] \in Seq(Labels)
    BY ONLY <1>2, <2>1
  <2> QED BY <2>1, <2>2
<1>4. ASSUME NEW i \in 1..Len(m), i - 1 \in G PROVE i \in G
  <2>1. f[i - 1] \in Seq(Labels) /\ m[i] \in Labels
    BY <1>1, <1>4
  <2>2. Append(f[i - 1], m[i]) \in Seq(Labels)
    BY ONLY <2>1
  <2>3. f[i] \in Seq(Labels)
    <3>1. f[i] \in {f[i - 1], Append(f[i - 1], m[i])}
      BY <1>2
    <3> QED BY ONLY <2>1, <2>2, <3>1
  <2>4. i \in 0..Len(m)
    BY <1>1
  <2> QED BY <2>3, <2>4
<1>5. Len(m) - 1 \in G /\ Len(m) \in 1..Len(m)
  <2> HIDE DEF G
  <2>1. \A i \in 1..Len(m) : i - 1 \in G => i \in G
    BY <1>4
  <2>2. \A i \in 0..Len(m) : i \in G
    BY <1>1, <1>3, <2>1, UpTo
  <2> QED BY <1>1, <2>2
<1>6. \A s \in Seq(Labels), x \in Labels : Append(s, x) # << >>
  OBVIOUS
<1> QED BY <1>1, <1>2, <1>5, <1>6

\* What is read of a host's name is not empty.
LEMMA HostsNamed ==
  \A h \in Hosts : Text(Tokens(HostName(HostOf(h)))) # ""
<1> SUFFICES ASSUME NEW h \in Hosts
             PROVE  Text(Tokens(HostName(HostOf(h)))) # ""
  OBVIOUS
<1>1. HostOf(h) \in Name
  <2>1. MachineOf[h] \in Machine
    BY LanAssumption
  <2>2. <<"umdns">> \in Name
    BY ConfigInitType DEF Config, ConfigInit
  <2> QED BY <2>1, <2>2 DEF HostOf, Machine
<1>2. Tokens(HostName(HostOf(h))) # << >>
  BY <1>1, NormalizeEnds, TokensLeft DEF HostName
<1> QED BY <1>2, HostsAssumption

----------------------------------------------------------------------------
(* Servers. *)

\* What a server runs with is a configuration, and its services are on the
\* host it runs on.
LEMMA ConfigOfHost ==
  ASSUME NEW h \in Hosts, NEW f \in FilesOf[h]
  PROVE  /\ ConfigOf(h, f) \in Config
         /\ \A k \in DOMAIN ConfigOf(h, f).services :
              ConfigOf(h, f).services[k].host = HostOf(h)
<1>1. MachineOf[h] \in Machine /\ f \in Seq(Line)
  BY LanAssumption
<1> DEFINE c == ApplyIdentity([ConfigInit EXCEPT !.services = Load(f)], MachineOf[h])
<1>2. /\ c \in Config /\ c.hostname = HostOf(h)
      /\ \A k \in DOMAIN c.services : c.services[k].host = c.hostname
  BY <1>1, IdentityApplied DEF HostOf
<1>3. ConfigOf(h, f) = c
  BY DEF ConfigOf
<1> HIDE DEF c
<1> QED BY <1>2, <1>3

\* A reply tells of services of the server that sent it.
LEMMA BatchTruthful ==
  ASSUME NEW h \in Hosts, NEW f \in FilesOf[h], NEW text
  PROVE  Truthful(BatchOf(ConfigOf(h, f), text), ServicesOf(h, ConfigOf(h, f)))
<1> DEFINE c == ConfigOf(h, f)
           a == Answer(c, Question(text)).answers
           b == BatchOf(c, text)
<1>1. b = RowsOf(a)
  BY DEF BatchOf, Known, Batch
<1>2. /\ c \in Config
      /\ \A k \in DOMAIN c.services : c.services[k].host = HostOf(h)
  BY ConfigOfHost
<1> HIDE DEF c
<1>3. /\ Records(a)
      /\ \A i \in DOMAIN a : a[i].rr = "SRV" =>
           \E k \in DOMAIN c.services : a[i] = SrvOf(c.services[k])
  BY <1>2, AnswerSrv
<1> HIDE DEF a, b
<1>4. b \in Seq(ToSet(b)) /\ ToSet(b) = {RowOf(a[i]) : i \in DOMAIN a}
  BY <1>1, <1>3, RowsAre DEF Records
<1>5. ASSUME NEW i \in DOMAIN a, RowOf(a[i]).rrtype = "SRV"
      PROVE  [instance |-> RowOf(a[i]).instance, hostname |-> RowOf(a[i]).hostname,
              port |-> RowOf(a[i]).port] \in ServicesOf(h, c)
  <2>1. a[i].rr = "SRV"
    BY <1>3, <1>5, SrvRow DEF Records
  <2>2. PICK k \in DOMAIN c.services : a[i] = SrvOf(c.services[k])
    BY <1>3, <2>1
  <2> DEFINE s == c.services[k]
             n == InstanceName(s)
             o == HostName(HostOf(h))
  <2>3. s.host = HostOf(h)
    BY <1>2
  <2>4. s \in ToSet(c.services)
    BY DEF ToSet
  <2> HIDE DEF s
  <2>5. a[i] = SrvRecord(n, o, s.port)
    BY <2>2, <2>3 DEF SrvOf, s
  <2>6. ServiceOf(h, s) = [instance |-> Text(Tokens(n)), hostname |-> Text(Tokens(o)),
                           port |-> s.port]
    BY DEF ServiceOf
  <2> HIDE DEF n, o
  <2>7. /\ RowOf(a[i]).instance = Text(Tokens(n)) /\ RowOf(a[i]).hostname = Text(Tokens(o))
        /\ RowOf(a[i]).port = s.port
    BY <2>5, SrvRowIs
  <2> QED BY <2>4, <2>6, <2>7 DEF ServicesOf
<1>6. ASSUME NEW i \in DOMAIN a PROVE Sound(RowOf(a[i]))
  <2>1. CASE a[i].rr # "SRV"
    BY <1>3, <2>1, OtherRowSound DEF Records
  <2>2. CASE a[i].rr = "SRV"
    <3>1. PICK k \in DOMAIN c.services : a[i] = SrvOf(c.services[k])
      BY <1>3, <2>2
    <3>2. c.services[k].host = HostOf(h)
      BY <1>2
    <3>3. a[i].host = Tokens(HostName(HostOf(h)))
      BY <3>1, <3>2 DEF SrvOf, SrvRecord
    <3> QED BY <2>2, <3>3, HostsNamed, SrvRowSound
  <2> QED BY <2>1, <2>2
<1>7. /\ HeardOf(b) \subseteq ServicesOf(h, c)
      /\ \A r \in ToSet(b) : Sound(r)
  BY <1>4, <1>5, <1>6 DEF HeardOf
<1> QED BY <1>4, <1>7 DEF Truthful, c, b

----------------------------------------------------------------------------
(* The invariant. *)

LEMMA InitInv == Init => LanInv
<1> SUFFICES ASSUME Init PROVE LanInv
  OBVIOUS
<1>1. Truthful(<< >>, {})
  BY DEF Truthful, HeardOf, ToSet
<1> QED BY <1>1, ConfigInitType, LanAssumption
        DEF Init, Seeking!Init, LanInv, ServersInv, RowsInv

\* What is told stays true when more is announced.
LEMMA StaysTruthful ==
  ASSUME NEW rs, NEW told, NEW more, Truthful(rs, told), told \subseteq more
  PROVE  Truthful(rs, more)
BY DEF Truthful

\* A step keeps the invariant, and is a step of Discovery or none.
LEMMA LanStep ==
  ASSUME LanInv, [Next]_vars
  PROVE  LanInv' /\ [Finding!Announce \/ Finding!Find]_<<announced, HeardOf(rows)>>
<1>1. ASSUME NEW h \in Hosts, Boot(h)
      PROVE  LanInv' /\ Finding!Announce
  <2>1. PICK f \in FilesOf[h] :
          /\ config' = [config EXCEPT ![h] = ConfigOf(h, f)]
          /\ announced' = announced \cup ServicesOf(h, config'[h])
    BY <1>1 DEF Boot
  <2>2. up' = up \cup {h} /\ UNCHANGED <<inbox, rows>>
    BY <1>1 DEF Boot, seekerVars
  <2>3. config'[h] = ConfigOf(h, f) /\ config' \in [Hosts -> Config]
    BY <2>1, ConfigOfHost DEF LanInv, ServersInv
  <2>4. announced' \subseteq AllServices
    BY <2>1, <2>3 DEF LanInv, AllServices
  <2>5. ServersInv'
    <3> SUFFICES ASSUME NEW g \in up'
                 PROVE  \E e \in FilesOf[g] : /\ config'[g] = ConfigOf(g, e)
                                              /\ ServicesOf(g, config'[g]) \subseteq announced'
      BY <2>2, <2>3 DEF LanInv, ServersInv
    <3>1. CASE g = h
      BY <2>1, <2>3, <3>1
    <3>2. CASE g # h
      <4>1. g \in up /\ config'[g] = config[g]
        BY <2>1, <2>2, <3>2 DEF LanInv, ServersInv
      <4> QED BY <2>1, <4>1 DEF LanInv, ServersInv
    <3> QED BY <3>1, <3>2
  <2>6. RowsInv'
    <3>1. announced \subseteq announced'
      BY <2>1
    <3> QED BY <2>2, <3>1, StaysTruthful DEF LanInv, RowsInv
  <2>7. Finding!Announce
    BY <2>1, <2>2, <2>4 DEF Finding!Announce, HeardOf
  <2> QED BY <2>4, <2>5, <2>6, <2>7 DEF LanInv
<1>2. ASSUME NEW h \in Hosts, Crash(h)
      PROVE  LanInv' /\ UNCHANGED <<announced, HeardOf(rows)>>
  <2>1. /\ up' = up \ {h} /\ config' = [config EXCEPT ![h] = ConfigInit]
        /\ UNCHANGED <<announced, inbox, rows>>
    BY <1>2 DEF Crash, seekerVars
  <2>2. ServersInv'
    <3>1. \A g \in up' : g \in up /\ config'[g] = config[g]
      BY <2>1 DEF LanInv, ServersInv
    <3> QED BY <2>1, <3>1, ConfigInitType DEF LanInv, ServersInv
  <2> QED BY <2>1, <2>2 DEF LanInv, RowsInv
<1>3. ASSUME NEW h \in Hosts, NEW text \in wire, Respond(h, text)
      PROVE  LanInv' /\ UNCHANGED <<announced, HeardOf(rows)>>
  <2>1. /\ h \in up /\ inbox' = inbox \cup {BatchOf(config[h], text)}
        /\ UNCHANGED <<up, config, announced, rows>>
    BY <1>3 DEF Respond, serverVars, seekerVars
  <2>2. PICK f \in FilesOf[h] :
          config[h] = ConfigOf(h, f) /\ ServicesOf(h, config[h]) \subseteq announced
    BY <2>1 DEF LanInv, ServersInv
  <2>3. Truthful(BatchOf(config[h], text), announced)
    BY <2>2, BatchTruthful, StaysTruthful
  <2> QED BY <2>1, <2>3 DEF LanInv, ServersInv, RowsInv
<1>4. ASSUME NEW batch \in inbox, Receive(batch)
      PROVE  LanInv' /\ [Finding!Find]_<<announced, HeardOf(rows)>>
  <2>1. /\ rows' = AppendUnique(rows, MaxRows, batch) /\ inbox' = inbox \ {batch}
        /\ UNCHANGED <<up, config, announced>>
    <3>1. Seeking!AppendUnique(rows, MaxRows, batch) = AppendUnique(rows, MaxRows, batch)
      BY DEF Seeking!AppendUnique, AppendUnique, Seeking!AppendRow, AppendRow,
             Seeking!Alike, Alike
    <3> HIDE DEF Seeking!AppendUnique
    <3> QED BY <1>4, <3>1 DEF Receive, Seeking!Hear, serverVars
  <2>2. /\ Truthful(rows', announced) /\ Len(rows') <= MaxRows
        /\ HeardOf(rows) \subseteq HeardOf(rows')
    BY <2>1, AppendTruthful, LanAssumption DEF LanInv, RowsInv
  <2>3. HeardOf(rows)' = HeardOf(rows') /\ HeardOf(rows') \subseteq announced
    BY <2>2 DEF HeardOf, Truthful
  <2>4. Finding!Find
    BY <2>1, <2>2, <2>3 DEF Finding!Find
  <2> QED BY <2>1, <2>2, <2>4 DEF LanInv, ServersInv, RowsInv
<1>5. CASE \/ Start \/ Begin \/ SendQuery \/ EndWait \/ Show
           \/ \E text \in wire : Lose(text)
           \/ UNCHANGED vars
  <2>1. UNCHANGED <<up, config, announced, inbox, rows>>
    BY <1>5 DEF Start, Begin, SendQuery, EndWait, Show, Alone, Lose, vars, serverVars,
                seekerVars, Seeking!Start, Seeking!Begin, Seeking!Ask, Seeking!EndWait,
                Seeking!Show
  <2> QED BY <2>1 DEF LanInv, ServersInv, RowsInv, HeardOf
<1> QED BY <1>1, <1>2, <1>3, <1>4, <1>5 DEF Next

\* Whatever is lost, doubled or reordered and however servers crash and come
\* back, the browser takes for a service only what a server announced, and
\* forgets none.
THEOREM LanDiscovers == Spec => FindsWhatIsAnnounced
<1>1. Init => Finding!Init
  BY DEF Init, Seeking!Init, Finding!Init, HeardOf, ToSet
<1>2. LanInv /\ [Next]_vars =>
        LanInv' /\ [Finding!Announce \/ Finding!Find]_<<announced, HeardOf(rows)>>
  BY LanStep
<1> QED BY <1>1, <1>2, InitInv, PTL DEF Spec, FindsWhatIsAnnounced, Finding!Spec

----------------------------------------------------------------------------
(* The table. *)

\* A step that shows nothing new leaves the table of one service per row,
\* as nothing announced is taken back.
LEMMA ShownStays ==
  ASSUME RowsAreOfOneService, shown' = shown, announced \subseteq announced'
  PROVE  RowsAreOfOneService'
BY Zenon DEF RowsAreOfOneService

\* A table merged of rows that tell of announced services only.
LEMMA MergedShown ==
  ASSUME NEW told, NEW rs, Truthful(rs, told), NEW k \in DOMAIN Merge(rs),
         NEW m, m = Merge(rs)[k], Hosted(m),
         \A s \in told : s.instance = m.instance => Ported(s)
  PROVE  \E s \in told : /\ s.instance = m.instance
                         /\ s.hostname = m.hostname /\ s.port = m.port
<1> DEFINE Told(r) == [instance |-> r.instance, hostname |-> r.hostname, port |-> r.port]
<1>1. rs \in Seq(ToSet(rs)) /\ \A r \in ToSet(rs) : Sound(r)
  BY DEF Truthful
<1>2. \A r \in ToSet(rs) : FromSrv(r) => Told(r) \in told
  BY DEF Truthful, HeardOf, FromSrv
<1>3. \A i \in 1..Len(rs) : rs[i] \in ToSet(rs)
  BY <1>1
<1>4. \A r : FromSrv(r) /\ Told(r) \in told /\ r.instance = m.instance => Ported(r)
  BY DEF Ported
<1>5. \A i \in 1..Len(rs) : FromSrv(rs[i]) /\ rs[i].instance = m.instance => Ported(rs[i])
  <2> HIDE DEF Told
  <2> QED BY <1>2, <1>3, <1>4
<1>6. PICK i \in 1..Len(rs) :
        /\ FromSrv(rs[i]) /\ rs[i].instance = m.instance
        /\ rs[i].hostname = m.hostname /\ rs[i].port = m.port
  <2> DEFINE R == ToSet(rs)
  <2>1. rs \in Seq(R) /\ \A x \in R : Sound(x)
    BY <1>1
  <2> HIDE DEF R, Told
  <2> QED BY <1>5, <2>1, MergedOfOne
<1> QED BY <1>2, <1>3, <1>6

\* A step keeps the table so.
LEMMA ShownStep ==
  ASSUME LanInv, RowsAreOfOneService, [Next]_vars
  PROVE  RowsAreOfOneService'
<1>1. CASE Show
  <2>1. Seeking!Merge(rows) = Merge(rows)
    <3>1. \A a, b : Seeking!Fill(a, b) = Fill(a, b)
      BY DEF Seeking!Fill, Fill
    <3>2. \A r : Seeking!Mergeable(r) <=> Mergeable(r)
      BY DEF Seeking!Mergeable, Mergeable, Seeking!EnumType, EnumType
    <3>3. \A S : Seeking!Min(S) = Min(S)
      BY DEF Seeking!Min, Min
    <3>4. \A a, b : Seeking!MergeRow(a, b) = MergeRow(a, b)
      BY <3>1, <3>2, <3>3, Zenon DEF Seeking!MergeRow, MergeRow
    <3> QED BY <3>4 DEF Seeking!Merge, Merge
  <2> HIDE DEF Seeking!Merge
  <2>2. shown' = Merge(rows) /\ announced' = announced
    BY <1>1, <2>1 DEF Show, Alone, Seeking!Show, serverVars
  <2>3. Truthful(rows, announced)
    BY DEF LanInv, RowsInv
  <2> SUFFICES ASSUME NEW k \in DOMAIN Merge(rows),
                      Merge(rows)[k].hostname # "",
                      \A s \in {x \in announced : x.instance = Merge(rows)[k].instance} :
                        s.port # 0
               PROVE  \E s \in {x \in announced : x.instance = Merge(rows)[k].instance} :
                        s.hostname = Merge(rows)[k].hostname /\ s.port = Merge(rows)[k].port
    BY <2>2, Zenon DEF RowsAreOfOneService
  <2> DEFINE m == Merge(rows)[k]
  <2>4. Hosted(m) /\ \A s \in announced : s.instance = m.instance => Ported(s)
    BY Zenon DEF Hosted, Ported
  <2>5. \E s \in announced : /\ s.instance = m.instance
                             /\ s.hostname = m.hostname /\ s.port = m.port
    BY ONLY <2>3, <2>4, k \in DOMAIN Merge(rows), MergedShown
  <2> QED BY <2>5
<1>2. CASE ~Show
  <2>1. shown' = shown
    BY <1>2 DEF Next, vars, Start, Begin, SendQuery, EndWait, Alone, Boot, Crash, Respond,
                Lose, Receive, seekerVars, Seeking!Start, Seeking!Begin, Seeking!Ask,
                Seeking!EndWait, Seeking!Hear
  <2>2. announced \subseteq announced'
    BY <1>2 DEF Next, vars, Start, Begin, SendQuery, EndWait, Alone, Boot, Crash, Respond,
                Lose, Receive, serverVars
  <2> QED BY <2>1, <2>2, ShownStays
<1> QED BY <1>1, <1>2

\* However many servers, restarts, losses and reorderings, no row of the
\* browser's table mixes the host of one service with the port of another.
THEOREM LanRowsOfOneService == Spec => []RowsAreOfOneService
<1>1. Init => RowsAreOfOneService
  <2>1. DOMAIN << >> = {}
    OBVIOUS
  <2> QED BY <2>1, Zenon DEF Init, Seeking!Init, RowsAreOfOneService
<1>2. LanInv /\ RowsAreOfOneService /\ [Next]_vars => LanInv' /\ RowsAreOfOneService'
  BY LanStep, ShownStep
<1> QED BY <1>1, <1>2, InitInv, PTL DEF Spec
=============================================================================
