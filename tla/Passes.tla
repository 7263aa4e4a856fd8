------------------------------- MODULE Passes -------------------------------
(***************************************************************************)
(* The passes over sequences against their reference meaning: over result  *)
(* rows (Table), over the lines of a configuration file and over the       *)
(* network interfaces (Configuration).  An input grows element by element, *)
(* one input at a time, so that a state holds one input of any kind.       *)
(***************************************************************************)
EXTENDS Table, Configuration

CONSTANTS
  Parsed,                          \* the rows umdns_mdns_parse_answers may produce
  Lines,                           \* the lines files are made of
  Entries,                         \* the addresses of network interfaces
  MaxRows, MaxLines, MaxEntries,   \* longest inputs
  Cap                              \* capacity of the arrays of rows filled

ASSUME PassesAssumption ==
  /\ \A r \in Parsed : DOMAIN r = DOMAIN NoRow
  /\ Lines \subseteq Line
  /\ Entries \subseteq Entry
  /\ Cap \in Nat

VARIABLES rows, file, entries

vars == <<rows, file, entries>>

Init == rows = << >> /\ file = << >> /\ entries = << >>

MoreRows ==
  /\ Len(rows) < MaxRows /\ file = << >> /\ entries = << >>
  /\ \E r \in Parsed : rows' = Append(rows, r)
  /\ UNCHANGED <<file, entries>>

MoreLines ==
  /\ Len(file) < MaxLines /\ rows = << >> /\ entries = << >>
  /\ \E l \in Lines : file' = Append(file, l)
  /\ UNCHANGED <<rows, entries>>

MoreEntries ==
  /\ Len(entries) < MaxEntries /\ rows = << >> /\ file = << >>
  /\ \E e \in Entries : entries' = Append(entries, e)
  /\ UNCHANGED <<rows, file>>

Next == MoreRows \/ MoreLines \/ MoreEntries
Spec == Init /\ [][Next]_vars

----------------------------------------------------------------------------
(* Result rows. *)

\* The client's table has each row once, in the order first received,
\* although the array is compacted while it is compared with.
DedupExact == InOrder(Deduplicate(rows), Leading(DOMAIN rows, rows), Len(rows), rows)

\* However the records were split over packets, the browser has collected
\* the first Cap distinct rows, in order.
AppendInBatches ==
  \A k \in 0..Len(rows) :
    InOrder(AppendUnique(AppendUnique(<< >>, Cap, SubSeq(rows, 1, k)),
                         Cap, SubSeq(rows, k + 1, Len(rows))),
            Leading(DOMAIN rows, Untyped(rows)), Cap, rows)

\* The types queried are those enumerated, each once, first come first.
TypesExact ==
  InOrder(ServiceTypes(rows, Cap),
          Leading({i \in DOMAIN rows : NamesType(rows[i])}, InstancesOf(rows)),
          Cap, InstancesOf(rows))

\* A printed row gathers what was heard of one instance and of no other:
\* one row per instance, in order of appearance, every column from the
\* first record that has it.
MergeExact ==
  LET F == Leading({i \in DOMAIN rows : Mergeable(rows[i])}, InstancesOf(rows))
      m == Merge(rows)
  IN  /\ Len(m) = Cardinality(F)
      /\ \A i \in F :
           LET r == m[Place(F, i)]
               first(field, empty) == FirstOf(rows, Len(rows), rows[i].instance, field, empty)
           IN  /\ r.instance = rows[i].instance
               /\ \A c \in {"hostname", "service_type", "address", "txt"} : r[c] = first(c, "")
               /\ r.port = first("port", 0)

----------------------------------------------------------------------------
(* The configuration file. *)

\* The section a line stands in: the last closed header up to it, or 0.
Header(p) ==
  LET above == {h \in 1..p : file[h].kind = "section" /\ file[h].closed}
  IN  IF above = {} THEN 0 ELSE Max(above)

Opens(p) == p # 0 /\ file[p].kind = "section" /\ file[p].closed /\ file[p].service

\* The header that made the entry a header means: the first whose name, as
\* stored, is the header's name as written, else the header itself.
Owner(q) ==
  Min({p \in 1..q : Opens(p) /\ Cut[file[p].name] = file[q].name} \cup {q})

\* The headers that make an entry, if there is room for it.
Makers == {q \in DOMAIN file : Opens(q) /\ Owner(q) = q}

\* The lines among the first n that give key k of the entry made by q a value.
Givers(n, q, k) ==
  {p \in 1..n : /\ file[p].kind = k /\ file[p].assigned
                /\ k = "port" => file[p].value > 0 /\ file[p].value < 65536
                /\ Opens(Header(p)) /\ Owner(Header(p)) = q}

\* What the field of a key keeps of a value: names and texts are cut.
Stored(k, v) ==
  IF k = "port" THEN v
  ELSE IF k = "txt" THEN [v EXCEPT !.len = IF @ > 511 THEN 511 ELSE @]
  ELSE Cut[v]

\* The last value given.
Given(n, q, k, none) ==
  IF Givers(n, q, k) = {} THEN none ELSE Stored(k, file[Max(Givers(n, q, k))].value)

\* What n lines make of the entry.
EntryOf(n, q) ==
  [instance |-> Cut[file[q].name],
   type |-> Given(n, q, "type", << >>), host |-> Given(n, q, "host", << >>),
   port |-> Given(n, q, "port", 0), txt |-> Given(n, q, "txt", NoTxt)]

\* The server's services are those of the file: one per distinct name in
\* order of appearance, up to the capacity; each key has the last value
\* given under its name, in whichever of its sections, and no key of a
\* section that was dropped, foreign or unclosed lands in another one.
\* A name longer than the field makes an entry each time it is opened.
LoadExact ==
  InOrder(Load(file), Makers, MaxServices, [q \in Makers |-> EntryOf(Len(file), q)])

----------------------------------------------------------------------------
(* The network interfaces. *)

\* Without -i the interfaces in use but loopback and their routable
\* addresses, with -i all of that one but ::1.
Candidate(e, f, wanted) ==
  /\ e.up /\ e.family = f
  /\ IF wanted = "" THEN ~e.loopback /\ (f = "inet6" => e.scope = "global")
     ELSE e.name = wanted /\ (f = "inet6" => e.scope # "loopback")

\* The address advertised for a family is the first that qualifies, however
\* the list mixes families and interfaces and whichever family is found
\* first; loopback stands in for it exactly when there is none, or when the
\* interfaces cannot be listed at all.
AddressesExact ==
  \A wanted \in Interfaces \cup {""}, listed \in BOOLEAN :
    LET d == Discover([named |-> TRUE, hostname |-> <<"web">>, wanted |-> wanted,
                       listed |-> listed, entries |-> entries])
        first(f, default) ==
          LET good == {i \in DOMAIN entries : listed /\ Candidate(entries[i], f, wanted)}
          IN  IF good = {} THEN default ELSE entries[Min(good)].address
    IN  d = [ipv4 |-> first("inet", "127.0.0.1"), ipv6 |-> first("inet6", "::1")]
=============================================================================
