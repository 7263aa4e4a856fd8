--------------------------- MODULE Configuration ---------------------------
(***************************************************************************)
(* The configuration umdns_server runs with: its defaults, the services    *)
(* read from a file (src/src/common/config.c), and the identity of the     *)
(* machine, its name and one address per family, chosen from the network   *)
(* interfaces (src/src/server/main.c).                                     *)
(*                                                                         *)
(* A line is what one fgets returns: a line of the file, or the next 1023  *)
(* characters of a longer one.  Of a line is kept what the parser branches *)
(* on, and of a value what its key makes of it: a name, the number strtol  *)
(* finds, or a text.                                                       *)
(***************************************************************************)
EXTENDS Dns

CONSTANTS
  FileNames,    \* the names a file may hold
  Cut,          \* the first 255 characters of a name
  MaxServices,  \* UMDNS_MAX_SERVICES
  Interfaces    \* names of network interfaces

ASSUME ConfigurationAssumption ==
  /\ FileNames \subseteq Name
  /\ Cut \in [FileNames -> Name]
  /\ \A n \in FileNames :
       /\ StrLen(Cut[n]) < MaxName
       /\ StrLen(n) < MaxName => Cut[n] = n
  /\ MaxServices \in Nat
  /\ {"127.0.0.1", "::1"} \subseteq Addresses /\ "" \notin Addresses

MaxTxt == 512   \* UMDNS_MAX_TXT

Port == 0..65535
Service == [instance : Name, type : Name, host : Name, port : Port, txt : Txt]
Config == [hostname : Name, ipv4 : Addresses, ipv6 : Addresses, host_txt : Txt,
           services : Seq(Service)]

\* umdns_server_config_init: what a configuration is before a file is read.
ConfigInit ==
  [hostname |-> <<"umdns">>, ipv4 |-> "0.0.0.0", ipv6 |-> "::",
   host_txt |-> NoTxt, services |-> << >>]

----------------------------------------------------------------------------
(* Reading the file. *)

\* Blank lines and comments; [...], closed or not, "service NAME" or not;
\* anything else, with or without a '='.
Line ==
  [kind : {"blank"}]
    \cup [kind : {"section"}, closed : BOOLEAN, service : BOOLEAN, name : FileNames]
    \cup [kind : {"type", "host"}, assigned : BOOLEAN, value : FileNames]
    \cup [kind : {"port"}, assigned : BOOLEAN, value : Int]
    \cup [kind : {"txt"}, assigned : BOOLEAN, value : Txt]
    \cup [kind : {"unknown"}, assigned : BOOLEAN]

\* What has been read: the services, and the one the next keys are for, if any.
Unread == [services |-> << >>, index |-> 0]

NewService(name) ==
  [instance |-> Cut[name], type |-> << >>, host |-> << >>, port |-> 0, txt |-> NoTxt]

\* Mutant: the section after the last that fits keeps the one before it.
FindOrCreateStale(c, name) ==
  LET found == {i \in 1..Len(c.services) : c.services[i].instance = name} IN
  IF found # {} THEN [c EXCEPT !.index = Min(found)]
  ELSE IF Len(c.services) >= MaxServices THEN c
  ELSE [services |-> Append(c.services, NewService(name)), index |-> Len(c.services) + 1]

\* umdns_find_or_create_service: the name in full against the stored ones.
FindOrCreate(c, name) ==
  LET found == {i \in 1..Len(c.services) : c.services[i].instance = name} IN
  IF found # {} THEN [c EXCEPT !.index = Min(found)]
  ELSE IF Len(c.services) >= MaxServices THEN [c EXCEPT !.index = 0]
  ELSE [services |-> Append(c.services, NewService(name)), index |-> Len(c.services) + 1]

CutTxt(t) == [t EXCEPT !.len = IF @ < MaxTxt THEN @ ELSE MaxTxt - 1]

SetKey(s, l) ==
  [s EXCEPT !.type = IF l.kind = "type" THEN Cut[l.value] ELSE @,
            !.host = IF l.kind = "host" THEN Cut[l.value] ELSE @,
            !.port = IF l.kind = "port" /\ l.value \in Port \ {0} THEN l.value ELSE @,
            !.txt  = IF l.kind = "txt" THEN CutTxt(l.value) ELSE @]

\* The body of the loop over the lines.
ReadLine(c, l) ==
  IF l.kind = "blank" THEN c
  ELSE IF l.kind = "section"
  THEN IF ~l.closed THEN c
       ELSE IF l.service THEN FindOrCreate(c, l.name) ELSE [c EXCEPT !.index = 0]
  ELSE IF l.assigned /\ c.index > 0
  THEN [services |-> [c.services EXCEPT ![c.index] = SetKey(@, l)], index |-> c.index]
  ELSE c

\* umdns_server_config_load of a file that could be opened.
Load(file) ==
  LET read[n \in 0..Len(file)] ==
        IF n = 0 THEN Unread ELSE ReadLine(read[n - 1], file[n])
  IN  read[Len(file)].services

----------------------------------------------------------------------------
(* The machine: the result of gethostname and getifaddrs, and -i. *)

\* An entry of the list: one address of one interface ("none": it has no
\* address; "other": of another family).
Entry ==
  [name : Interfaces, up : BOOLEAN, loopback : BOOLEAN,
   family : {"inet", "inet6", "other", "none"},
   scope : {"global", "link", "loopback"}, address : Addresses]

\* wanted is the interface named by -i, or "".
Machine ==
  [named : BOOLEAN, hostname : Name, wanted : Interfaces \cup {""}, listed : BOOLEAN,
   entries : Seq(Entry)]

Considered(e, wanted) ==
  /\ e.family # "none" /\ e.up
  /\ IF wanted = "" THEN ~e.loopback ELSE e.name = wanted

Takes4(e) == e.family = "inet"
Takes6(e, wanted) ==
  e.family = "inet6" /\ (wanted = "" => e.scope # "link") /\ e.scope # "loopback"

NoAddress == [ipv4 |-> "", ipv6 |-> ""]

\* Mutant: the search ends with the first address.
ReadEntryOnce(a, e, wanted) ==
  IF a.ipv4 # "" \/ a.ipv6 # "" \/ ~Considered(e, wanted) THEN a
  ELSE [ipv4 |-> IF Takes4(e) THEN e.address ELSE a.ipv4,
        ipv6 |-> IF Takes6(e, wanted) THEN e.address ELSE a.ipv6]

\* The body of the loop over the entries; it ends when both are found.
ReadEntry(a, e, wanted) ==
  IF (a.ipv4 # "" /\ a.ipv6 # "") \/ ~Considered(e, wanted) THEN a
  ELSE [ipv4 |-> IF a.ipv4 = "" /\ Takes4(e) THEN e.address ELSE a.ipv4,
        ipv6 |-> IF a.ipv6 = "" /\ Takes6(e, wanted) THEN e.address ELSE a.ipv6]

\* discover_interface_addresses, without its answer when there is none.
Found(entries, wanted) ==
  LET read[n \in 0..Len(entries)] ==
        IF n = 0 THEN NoAddress ELSE ReadEntry(read[n - 1], entries[n], wanted)
  IN  read[Len(entries)]

Discover(m) ==
  LET a == IF m.listed THEN Found(m.entries, m.wanted) ELSE NoAddress
  IN  [ipv4 |-> IF a.ipv4 = "" THEN "127.0.0.1" ELSE a.ipv4,
       ipv6 |-> IF a.ipv6 = "" THEN "::1" ELSE a.ipv6]

\* Mutant: the services keep the host they were configured with.
ApplyToHostOnly(c, m) ==
  LET h == IF m.named THEN m.hostname ELSE <<"umdns">>
      a == Discover(m)
  IN  [c EXCEPT !.hostname = h, !.ipv4 = a.ipv4, !.ipv6 = a.ipv6]

\* apply_runtime_identity: host name, addresses, and every service's host.
ApplyIdentity(c, m) ==
  LET h == IF m.named THEN m.hostname ELSE <<"umdns">>
      a == Discover(m)
  IN  [c EXCEPT !.hostname = h, !.ipv4 = a.ipv4, !.ipv6 = a.ipv6,
                !.services = [i \in DOMAIN @ |-> [@[i] EXCEPT !.host = h]]]
============================================================================
