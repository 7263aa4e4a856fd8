------------------------------ MODULE Browser ------------------------------
(***************************************************************************)
(* umdns_browser (src/src/browser/main.c): cycles of queries, first for    *)
(* the service types in use and then for each type known, until a total    *)
(* timeout or a signal, and the merged table of what was heard.            *)
(*                                                                         *)
(* A datagram is the sequence of the rows umdns_mdns_parse_answers would   *)
(* decode from it, given room for all of them.  A type's name may have a   *)
(* label the decoder takes and the encoder refuses: of 64 octets or more.  *)
(***************************************************************************)
EXTENDS Sockets, Table

CONSTANTS
  Rows,          \* rows that may be decoded
  Timeouts,      \* values of -t in ticks, 0 for ever
  Interval,      \* -n in ticks
  Slice,         \* the 250 ms a poll waits at most, in ticks
  MaxResults,    \* UMDNS_MAX_RESULTS
  MaxTypes,      \* service types queried in a cycle: 32
  PacketCap,     \* rows taken from one packet: 64
  QueryFor,      \* the name umdns_mdns_build_query puts on the wire for a type
  NoQuery        \* what it is when no query can be built

\* The names a query may have to be built for.
TypeNames == {EnumType} \cup {r.instance : r \in Rows}

ASSUME BrowserAssumption ==
  /\ \A d \in Datagrams : d \in Seq(Rows)
  /\ Timeouts \subseteq Nat
  /\ Interval \in Nat \ {0} /\ Slice \in Nat \ {0}
  /\ MaxResults \in Nat /\ MaxTypes \in Nat /\ PacketCap \in Nat
  /\ DOMAIN QueryFor = TypeNames /\ QueryFor[EnumType] # NoQuery

VARIABLES
  total,      \* timeout_seconds: the total timeout, 0 for ever
  pc,         \* next statement: log, handlers, listen, main, query, receive,
              \* poll, received, endcycle, report, exited
  cur,        \* the socket being created or polled
  handling,   \* are the signal handlers installed
  terminate,  \* g_terminate
  logOpen,    \* does g_log_stream hold a stream
  exit,       \* exit status, -1 while running, -2 when killed
  results,    \* the rows collected
  types,      \* service_types: what this cycle asks for after the enumeration
  idx,        \* which of them, 0 for the enumeration
  remaining,  \* what is left of the wait for answers
  elapsed,    \* intervals counted against the total timeout
  table,      \* the rows printed, in the end
  asked,      \* the names queried in this cycle
  known,      \* the types known when this cycle began
  heard,      \* the rows parsed so far
  lag,        \* ticks slept since the termination flag was set
  clock       \* ticks slept (counted only if there is a total timeout)

flags == <<total, handling, terminate, logOpen, exit>>
cycle == <<results, types, idx, remaining, elapsed, table>>
history == <<asked, known, heard, lag, clock>>
procVars == <<pc, cur, flags, cycle, history>>
vars == <<procVars, sockVars>>

Init ==
  /\ SocketsInit
  /\ total \in Timeouts
  /\ pc = "log" /\ cur = V4
  /\ handling = FALSE /\ terminate = FALSE /\ logOpen = FALSE /\ exit = -1
  /\ results = << >> /\ types = << >> /\ table = << >>
  /\ idx = 0 /\ remaining = 0 /\ elapsed = 0
  /\ asked = {} /\ known = {} /\ heard = {} /\ lag = 0 /\ clock = 0

----------------------------------------------------------------------------
(* Start-up. *)

Quit(status) == pc' = "exited" /\ exit' = status /\ logOpen' = FALSE

LogInit ==
  /\ pc = "log"
  /\ \/ pc' = "handlers" /\ logOpen' = TRUE /\ UNCHANGED exit
     \/ Quit(1)
  /\ UNCHANGED <<total, cur, handling, terminate, cycle, history, sockVars>>

InstallHandlers ==
  /\ pc = "handlers"
  /\ \/ handling' = TRUE /\ pc' = "listen" /\ UNCHANGED <<exit, logOpen>>
     \/ Quit(1) /\ UNCHANGED handling
  /\ UNCHANGED <<total, cur, terminate, cycle, history, sockVars>>

\* Both listeners are tried; the browser gives up only when both failed.
Listen ==
  /\ pc = "listen"
  /\ CreateListener(cur)
  /\ IF cur = V4 THEN cur' = V6 /\ UNCHANGED <<pc, exit, logOpen>>
     ELSE /\ UNCHANGED cur
          /\ IF \A s \in Family : fd'[s] = "none" THEN Quit(1)
             ELSE pc' = "main" /\ UNCHANGED <<exit, logOpen>>
  /\ UNCHANGED <<total, handling, terminate, cycle, history>>

----------------------------------------------------------------------------
(* main()'s loop and run_cycle. *)

BeginCycle ==
  /\ pc = "main" /\ ~terminate
  /\ pc' = "query" /\ idx' = 0 /\ types' = << >>
  /\ asked' = {} /\ known' = TypesIn(results)
  /\ UNCHANGED <<cur, flags, results, remaining, elapsed, table, heard, lag, clock, sockVars>>

\* Mutants: one type too many; the last type left out.
NextTypeBeyond ==
  IF idx <= Len(types') THEN idx' = idx + 1 /\ pc' = "query"
  ELSE pc' = "endcycle" /\ UNCHANGED idx
NextTypeButLast ==
  IF idx + 1 < Len(types') THEN idx' = idx + 1 /\ pc' = "query"
  ELSE pc' = "endcycle" /\ UNCHANGED idx

\* for (idx = 0; idx < service_type_count; ++idx)
NextType ==
  IF idx < Len(types') THEN idx' = idx + 1 /\ pc' = "query"
  ELSE pc' = "endcycle" /\ UNCHANGED idx

\* The name in hand: the enumeration's is a literal, and can be encoded.
Wanted == IF idx = 0 THEN EnumType ELSE types[idx]

\* The query on each open socket (a failed send is only logged), and the
\* wait that goes with it.
SendQuery ==
  /\ pc = "query" /\ QueryFor[Wanted] # NoQuery
  /\ asked' = asked \cup {QueryFor[Wanted]}
  /\ remaining' = IF idx = 0 THEN Interval ELSE Interval \div 2
  /\ pc' = "receive"
  /\ UNCHANGED <<cur, flags, results, types, idx, elapsed, table, known, heard, lag, clock, sockVars>>

\* Mutant: a type that cannot be asked for ends the cycle.
SkipTypeStops ==
  /\ pc = "query" /\ QueryFor[Wanted] = NoQuery
  /\ pc' = "endcycle"
  /\ UNCHANGED <<cur, flags, cycle, history, sockVars>>

\* A type whose query cannot be built is passed over, without a wait.
SkipType ==
  /\ pc = "query" /\ QueryFor[Wanted] = NoQuery
  /\ UNCHANGED types
  /\ NextType
  /\ UNCHANGED <<cur, flags, results, remaining, elapsed, table, history, sockVars>>

\* Mutant: the types are extracted anew while they are gone through.
EndReceiveAnew ==
  /\ pc = "received" \/ (pc = "receive" /\ remaining <= 0)
  /\ types' = ServiceTypes(results, MaxTypes)
  /\ NextType
  /\ UNCHANGED <<cur, flags, results, remaining, elapsed, table, history, sockVars>>

\* After receive_responses: the types are extracted once, after the
\* enumeration, and asked for one after the other.
EndReceive ==
  /\ pc = "received" \/ (pc = "receive" /\ remaining <= 0)
  /\ types' = IF idx = 0 THEN ServiceTypes(results, MaxTypes) ELSE types
  /\ NextType
  /\ UNCHANGED <<cur, flags, results, remaining, elapsed, table, history, sockVars>>

\* Mutant: the intervals do not add up.
EndCycleNoSum ==
  /\ pc = "endcycle"
  /\ elapsed' = IF total > 0 THEN Interval ELSE elapsed
  /\ pc' = IF total > 0 /\ elapsed' >= total THEN "report" ELSE "main"
  /\ UNCHANGED <<cur, flags, results, types, idx, remaining, table, history, sockVars>>

EndCycle ==
  /\ pc = "endcycle"
  /\ elapsed' = IF total > 0 THEN elapsed + Interval ELSE elapsed
  /\ pc' = IF total > 0 /\ elapsed' >= total THEN "report" ELSE "main"
  /\ UNCHANGED <<cur, flags, results, types, idx, remaining, table, history, sockVars>>

Stop ==
  /\ pc = "main" /\ terminate
  /\ pc' = "report"
  /\ UNCHANGED <<cur, flags, cycle, history, sockVars>>

Report ==
  /\ pc = "report"
  /\ table' = Merge(results)
  /\ CloseAll
  /\ Quit(0)
  /\ UNCHANGED <<total, cur, handling, terminate, results, types, idx, remaining, elapsed, history>>

----------------------------------------------------------------------------
(* receive_responses. *)

Wait == IF remaining > Slice THEN Slice ELSE remaining

BeginPass ==
  /\ pc = "receive" /\ remaining > 0
  /\ pc' = "poll"
  /\ cur' = IF Open(V4) THEN V4 ELSE V6
  /\ UNCHANGED <<flags, cycle, history, sockVars>>

\* Mutant: the wait goes on after a signal.
NextSocketNoBreak ==
  IF cur = V4 /\ Open(V6)
  THEN cur' = V6 /\ UNCHANGED <<pc, remaining>>
  ELSE /\ remaining' = remaining - Wait
       /\ pc' = "receive"
       /\ UNCHANGED cur

\* Mutant: a pass costs nothing when a datagram ended it.
NextSocketFreePass ==
  IF cur = V4 /\ Open(V6)
  THEN cur' = V6 /\ UNCHANGED <<pc, remaining>>
  ELSE /\ remaining' = IF queue[cur] # << >> THEN remaining ELSE remaining - Wait
       /\ pc' = IF terminate' THEN "received" ELSE "receive"
       /\ UNCHANGED cur

\* After the IPv4 socket its IPv6 peer; a pass costs a slice, slept or not,
\* and is the last one if a signal came.
NextSocket ==
  IF cur = V4 /\ Open(V6)
  THEN cur' = V6 /\ UNCHANGED <<pc, remaining>>
  ELSE /\ remaining' = remaining - Wait
       /\ pc' = IF terminate' THEN "received" ELSE "receive"
       /\ UNCHANGED cur

PollSleep ==
  /\ pc = "poll"
  /\ Sleep(cur, Wait)
  /\ lag' = IF terminate THEN lag + 1 ELSE lag
  /\ clock' = IF total > 0 THEN clock + 1 ELSE clock
  /\ UNCHANGED <<pc, cur, flags, cycle, asked, known, heard>>

PollExpire ==
  /\ pc = "poll"
  /\ Expire(cur, Wait)
  /\ UNCHANGED terminate
  /\ NextSocket
  /\ UNCHANGED <<total, handling, logOpen, exit, results, types, idx, elapsed, table, history>>

\* parse_answers fills an array of PacketCap rows.
ParseAnswers(d) == SubSeq(d, 1, IF Len(d) < PacketCap THEN Len(d) ELSE PacketCap)

HandleDatagram ==
  /\ pc = "poll"
  /\ Receive(cur)
  /\ results' = AppendUnique(results, MaxResults, ParseAnswers(Head(queue[cur])))
  /\ heard' = heard \cup ToSet(ParseAnswers(Head(queue[cur])))
  /\ UNCHANGED terminate
  /\ NextSocket
  /\ UNCHANGED <<total, handling, logOpen, exit, types, idx, elapsed, table, asked, known, lag, clock>>

----------------------------------------------------------------------------
(* The environment. *)

DatagramArrives ==
  /\ \E s \in Family, d \in Datagrams : Arrive(s, d)
  /\ UNCHANGED procVars

\* SIGINT or SIGTERM with its default action: the process is gone.
SignalKills ==
  /\ pc \in {"log", "handlers"}
  /\ Quit(-2)
  /\ UNCHANGED <<total, cur, handling, terminate, cycle, history, sockVars>>

\* The handler runs while the process is not asleep.
SignalBetween ==
  /\ handling /\ pc # "exited" /\ ~terminate
  /\ pc = "poll" => (waited \in {0, Wait} \/ queue[cur] # << >>)
  /\ terminate' = TRUE
  /\ UNCHANGED <<total, pc, cur, handling, logOpen, exit, cycle, history, sockVars>>

\* The handler runs while poll sleeps: recv_with_timeout returns -1.
SignalInPoll ==
  /\ handling /\ pc = "poll" /\ queue[cur] = << >>
  /\ terminate' = TRUE
  /\ Interrupt
  /\ NextSocket
  /\ UNCHANGED <<total, handling, logOpen, exit, results, types, idx, elapsed, table, history>>

BrowserStep ==
  \/ LogInit \/ InstallHandlers \/ Listen
  \/ BeginCycle \/ SendQuery \/ SkipType \/ EndReceive \/ EndCycle \/ Stop \/ Report
  \/ BeginPass \/ PollSleep \/ PollExpire \/ HandleDatagram

Next ==
  \/ BrowserStep
  \/ DatagramArrives \/ SignalKills \/ SignalBetween \/ SignalInPoll

\* The scheduler runs the browser; datagrams and signals need never come.
Spec == Init /\ [][Next]_vars /\ WF_vars(BrowserStep)

----------------------------------------------------------------------------
(* Properties. *)

\* Type invariant.
TypeOK ==
  /\ SocketsTypeOK /\ waited <= Slice
  /\ pc \in {"log", "handlers", "listen", "main", "query", "receive", "poll",
             "received", "endcycle", "report", "exited"}
  /\ cur \in Family
  /\ handling \in BOOLEAN /\ terminate \in BOOLEAN /\ logOpen \in BOOLEAN
  /\ exit \in {-2, -1, 0, 1} /\ total \in Timeouts
  /\ Len(types) <= MaxTypes /\ idx \in 0..Len(types)
  /\ remaining \in 0..Interval
  /\ elapsed \in Nat /\ lag \in Nat /\ clock \in Nat

\* Over any number of cycles and packets the array of results stays within
\* its capacity, holds only rows that were heard and no two a reader could
\* not tell apart; and as long as it has room, each row heard is in it.
Holds(rows, r) == \E k \in 1..Len(rows) : Alike(rows[k], r)
ResultsDistinct ==
  /\ Len(results) <= MaxResults
  /\ \A i \in 1..Len(results) : results[i] \in heard
  /\ \A i, j \in 1..Len(results) : i # j => ~Alike(results[i], results[j])
  /\ Len(results) < MaxResults => \A r \in heard : Holds(results, r)

\* A service type known when a cycle begins is asked for before it ends,
\* unless a cycle cannot hold them all or no query can be built for it: one
\* that cannot be asked for does not keep the others from being asked for.
KnownTypesAsked ==
  pc = "endcycle" /\ Cardinality(known) <= MaxTypes =>
    \A t \in known : QueryFor[t] # NoQuery => QueryFor[t] \in asked

\* Once the flag is set the browser sleeps at most one slice per socket for
\* the enumeration and for each service type it may hold.
Share(s) == IF fd[s] = "none" THEN 0 ELSE Slice
PassTicks == Share(V4) + Share(V6)
ShutdownBounded == terminate => lag <= PassTicks * (1 + MaxTypes)

\* However main() ends, no descriptor stays open and the log is released.
NothingLeaks == pc = "exited" => ~logOpen /\ \A s \in Family : ~Open(s)

\* What was collected stays, in place, until it is printed: no cycle
\* forgets or reorders the rows of an earlier one.
RowsStay == [][IsPrefix(results, results')]_vars

\* A signal stops the browser, from any point of start-up or cycle.
SignalStops == terminate ~> pc = "exited"

\* What the total timeout amounts to: a cycle counts as one interval but
\* sleeps, on each socket, that interval and half of it for each type.
CycleTicks == Interval + MaxTypes * (Interval \div 2)
Cycles == (total + Interval - 1) \div Interval
UsedSockets == {s \in Family : fd[s] # "none"}
SleepBounded == total > 0 => clock <= Cardinality(UsedSockets) * Cycles * CycleTicks

\* With a total timeout it ends by itself, although each cycle may find new
\* types to ask for and answers never stop coming.
EndsByItself == total > 0 => <>(pc = "exited")

\* A service type that was heard of while there was room for it (its row in
\* the results, its name among the types of a cycle) and that can be asked
\* for is asked for, unless a signal comes first: without a total timeout
\* there is always another cycle.
HasRoom(t) == t \in ToSet(ServiceTypes(results, MaxTypes))
TypesHeardAreAsked ==
  \A t \in TypeNames \ {EnumType} :
    total = 0 /\ HasRoom(t) /\ QueryFor[t] # NoQuery ~> QueryFor[t] \in asked \/ terminate

----------------------------------------------------------------------------
(* What it amounts to. *)

Phase ==
  CASE pc \in {"log", "handlers", "listen"}     -> "off"
    [] pc = "query"                             -> "ask"
    [] pc \in {"receive", "poll", "received"}   -> "hear"
    [] pc \in {"main", "endcycle", "report"}    -> "idle"
    [] pc = "exited"                            -> "over"

Seeking == INSTANCE Seeker WITH
  Offers <- {ParseAnswers(d) : d \in Datagrams}, MaxRows <- MaxResults, MaxTypes <- MaxTypes,
  Unaskable <- {t \in TypeNames : QueryFor[t] = NoQuery},
  phase <- Phase, rows <- results, types <- types, idx <- idx, shown <- table

\* However its sockets, polls and signals interleave, and with every failure
\* of start-up, the browser asks, hears and shows as Seeker does: it takes in
\* rows only while it waits for an answer, leaves none of them out, and asks
\* for every type but those no query can be built for.
ActsAsSeeker == Seeking!Spec

----------------------------------------------------------------------------
(* What the documentation says, and the code does not do. *)

\* PRD.md:38: the browser shall "determine all available host and services":
\* a host whose address was heard is in the table.
HostsReported ==
  pc = "exited" /\ exit = 0 =>
    \A r \in ToSet(results) :
      r.rrtype \in {"A", "AAAA"} =>
        \E t \in ToSet(table) : t.hostname = r.hostname /\ t.address = r.address
=============================================================================
