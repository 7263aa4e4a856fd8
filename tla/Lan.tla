-------------------------------- MODULE Lan --------------------------------
(***************************************************************************)
(* A browser and several servers on a network that loses, duplicates and   *)
(* reorders.  Servers start with a configuration, crash, and come back     *)
(* with another; a query goes to all of them, a reply back to the browser  *)
(* that asked, which asks again in every cycle.                            *)
(*                                                                         *)
(* The servers are Responder with Configuration, the browser is Seeker,    *)
(* which Browser implements.  A query is on the wire until it is lost; a   *)
(* host may get it any number of times before that, or never.  A reply is  *)
(* lost, or waits at the browser's sockets until it is read, in any order. *)
(***************************************************************************)
EXTENDS Configuration, Responder, Table

CONSTANTS
  Hosts,       \* the machines that run a server
  MachineOf,   \* what each of them is called and where it is
  FilesOf,     \* the configuration files each may be started with
  MaxBoots,    \* how often each is started at most
  MaxRows, MaxTypes

ASSUME LanAssumption ==
  /\ MachineOf \in [Hosts -> Machine]
  /\ \A h \in Hosts : \A f \in FilesOf[h] : f \in Seq(Line)
  /\ MaxBoots \in [Hosts -> Nat]
  /\ MaxRows \in Nat /\ MaxTypes \in Nat

VARIABLES
  up,         \* the hosts whose server runs
  config,     \* per host: the configuration it runs with
  boots,      \* per host: how often it was started
  announced,  \* the services that servers were started with so far
  wire,       \* the names in queries under way
  inbox,      \* the replies at the browser's sockets, by their rows
  phase, rows, types, idx, shown   \* the browser

\* A type whose name cannot be put into a query cannot be put into a reply
\* either, so the browser never hears of one and never has one to skip.
Seeking == INSTANCE Seeker WITH Offers <- {}, Unaskable <- {}

serverVars == <<up, config, boots, announced>>
seekerVars == <<phase, rows, types, idx, shown>>
vars == <<serverVars, wire, inbox, seekerVars>>

----------------------------------------------------------------------------
(* Names and records as the browser sees them. *)

\* What a decoder writes of the pieces of a name.
Text(n) == FoldLeft(LAMBDA s, l : IF s = "" THEN l ELSE s \o "." \o l, "", n)

\* umdns_mdns_parse_answers of a reply that holds them all.
RowOf(r) ==
  CASE r.rr = "A"   -> [NoRow EXCEPT !.rrtype = "A", !.hostname = Text(r.name),
                                     !.address = r.address]
    [] r.rr = "AAAA" -> [NoRow EXCEPT !.rrtype = "AAAA", !.hostname = Text(r.name),
                                      !.address = r.address]
    [] r.rr = "PTR" -> [NoRow EXCEPT !.rrtype = "PTR", !.service_type = Text(r.name),
                                     !.instance = Text(r.target)]
    [] r.rr = "SRV" -> [NoRow EXCEPT !.rrtype = "SRV", !.instance = Text(r.name),
                                     !.hostname = Text(r.host), !.port = r.port]
    [] r.rr = "TXT" -> [NoRow EXCEPT !.rrtype = "TXT", !.instance = Text(r.name),
                                     !.txt = r.txt.text]
RowsOf(answers) == [i \in DOMAIN answers |-> RowOf(answers[i])]

ConfigOf(h, f) == ApplyIdentity([ConfigInit EXCEPT !.services = Load(f)], MachineOf[h])
Configs == UNION {{ConfigOf(h, f) : f \in FilesOf[h]} : h \in Hosts}

\* The names a browser can have heard of, and what it asks.
Names == {EnumName} \cup {Tokens(TypeName(s)) : s \in UNION {ToSet(c.services) : c \in Configs}}
Queries == {Text(n) : n \in Names}
Question(text) ==
  [name |-> BuildQuery(CHOOSE n \in Names : Text(n) = text), qtype |-> "PTR"]

\* What the browser reads of a server's answer to a query.
NoBatch == << >>
Batch(c, text) == RowsOf(Answer(c, Question(text)).answers)
Known == [c \in Configs |-> [text \in Queries |-> Batch(c, text)]]  \* for TLC to compute once
BatchOf(c, text) ==
  IF c \in Configs /\ text \in Queries THEN Known[c][text] ELSE Batch(c, text)
Batches == {BatchOf(c, text) : c \in Configs, text \in Queries} \ {NoBatch}

\* What a host calls itself.
HostOf(h) == IF MachineOf[h].named THEN MachineOf[h].hostname ELSE <<"umdns">>

\* A name of which a piece is left is not read as an empty text.
ASSUME HostsAssumption ==
  \A h \in Hosts : LET n == Tokens(HostName(HostOf(h))) IN n # << >> => Text(n) # ""

\* A service of a host: its instance, on that host, at its port.
ServiceOf(h, s) ==
  [instance |-> Text(Tokens(InstanceName(s))), hostname |-> Text(Tokens(HostName(HostOf(h)))),
   port |-> s.port]
ServicesOf(h, c) == {ServiceOf(h, s) : s \in ToSet(c.services)}
AllServices == UNION {UNION {ServicesOf(h, ConfigOf(h, f)) : f \in FilesOf[h]} : h \in Hosts}

----------------------------------------------------------------------------
Init ==
  /\ up = {} /\ config = [h \in Hosts |-> ConfigInit] /\ boots = [h \in Hosts |-> 0]
  /\ announced = {} /\ wire = {} /\ inbox = {}
  /\ Seeking!Init

\* A server starts with one of its files.
Boot(h) ==
  /\ h \notin up /\ boots[h] < MaxBoots[h]
  /\ \E f \in FilesOf[h] :
       /\ config' = [config EXCEPT ![h] = ConfigOf(h, f)]
       /\ announced' = announced \cup ServicesOf(h, config'[h])
  /\ up' = up \cup {h} /\ boots' = [boots EXCEPT ![h] = @ + 1]
  /\ UNCHANGED <<wire, inbox, seekerVars>>

\* It is stopped or crashes; nothing is persisted and nothing taken back.
Crash(h) ==
  /\ h \in up
  /\ up' = up \ {h} /\ config' = [config EXCEPT ![h] = ConfigInit]
  /\ UNCHANGED <<boots, announced, wire, inbox, seekerVars>>

Lose(text) ==
  /\ text \in wire
  /\ wire' = wire \ {text}
  /\ UNCHANGED <<serverVars, inbox, seekerVars>>

\* A server takes a query, and its reply gets to the browser.
Respond(h, text) ==
  /\ text \in wire /\ h \in up
  /\ BatchOf(config[h], text) # NoBatch
  /\ inbox' = inbox \cup {BatchOf(config[h], text)}
  /\ UNCHANGED <<serverVars, wire, seekerVars>>

\* The browser's query goes out.
SendQuery ==
  /\ Seeking!Ask
  /\ wire' = wire \cup {Seeking!Wanted}
  /\ UNCHANGED <<serverVars, inbox>>

Receive(batch) ==
  /\ batch \in inbox
  /\ Seeking!Hear(batch)
  /\ inbox' = inbox \ {batch}
  /\ UNCHANGED <<serverVars, wire>>

Alone(A) == A /\ UNCHANGED <<serverVars, wire, inbox>>
Start == Alone(Seeking!Start)
Begin == Alone(Seeking!Begin)
EndWait == Alone(Seeking!EndWait)
Show == Alone(Seeking!Show)

Next ==
  \/ Start \/ Begin \/ SendQuery \/ EndWait \/ Show
  \/ \E h \in Hosts : Boot(h) \/ Crash(h) \/ \E text \in wire : Respond(h, text)
  \/ \E text \in wire : Lose(text)
  \/ \E batch \in inbox : Receive(batch)

\* The browser's timers run; a query sent again and again is answered in the
\* end, and what waits at the sockets is read (the poll of a wait returns at
\* once if something is there).
Fairness ==
  /\ WF_vars(Begin \/ SendQuery \/ EndWait)
  /\ \A h \in Hosts, text \in Queries : SF_vars(Respond(h, text))
  /\ \A batch \in Batches : SF_vars(Receive(batch))

Spec == Init /\ [][Next]_vars /\ Fairness

----------------------------------------------------------------------------
(* Properties. *)

\* The services the browser heard of, by their SRV rows.
HeardOf(rs) ==
  {[instance |-> r.instance, hostname |-> r.hostname, port |-> r.port] :
     r \in {x \in ToSet(rs) : x.rrtype = "SRV"}}

Finding == INSTANCE Discovery WITH
  Services <- AllServices, announced <- announced, found <- HeardOf(rows)

\* Whatever the network does and however servers come and go, the browser
\* takes for a service only what a server was started with, on the host it
\* ran on, and forgets none.
FindsWhatIsAnnounced == Finding!Spec

\* A row of the table puts together the host and the port of one and the
\* same service, although it is filled from packets of several servers and
\* of several lives of one, and although an instance may be offered twice:
\* unless a service of that name was offered without a port.
RowsAreOfOneService ==
  \A i \in DOMAIN shown :
    LET named == {s \in announced : s.instance = shown[i].instance} IN
    shown[i].hostname # "" /\ (\A s \in named : s.port # 0) =>
      \E s \in named : s.hostname = shown[i].hostname /\ s.port = shown[i].port

\* A service of a server that stays up is heard of, although any packet may
\* be lost, as long as the browser goes on.
Offered == UNION {ServicesOf(h, config[h]) : h \in up}
HeardInTheEnd ==
  \A s \in AllServices :
    <>[](s \in Offered /\ phase \notin {"off", "over"}) => <>(s \in HeardOf(rows))
=============================================================================
