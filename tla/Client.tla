------------------------------- MODULE Client -------------------------------
(***************************************************************************)
(* umdns_client (src/src/client/main.c): one query, a wait for answers on  *)
(* two sockets in slices of 200 ms, and the table of what was heard.       *)
(*                                                                         *)
(* A datagram is the sequence of the results umdns_mdns_parse_answers      *)
(* would decode from it, given room for all of them: << >> for a query or  *)
(* a broken packet, and the records before the first broken one otherwise. *)
(* The client installs no signal handler.                                  *)
(***************************************************************************)
EXTENDS Dns, Sockets, Table

CONSTANTS
  Results,     \* rows that may be decoded
  Targets,     \* names given with -H or -s
  Timeout,     \* -t, in ticks
  Slice,       \* the 200 ms a poll waits at most, in ticks
  MaxResults   \* UMDNS_MAX_RESULTS

ASSUME ClientAssumption ==
  /\ \A d \in Datagrams : d \in Seq(Results)
  /\ Targets \subseteq Name
  /\ Timeout \in Nat /\ Slice \in Nat \ {0} /\ MaxResults \in Nat \ {0}

VARIABLES
  pc,       \* next statement: log, listen, send, loop, poll, report, exited
  cur,      \* the socket being created, sent to or polled
  target,   \* the name asked for
  asked,    \* the sockets the query went out on
  budget,   \* timeout_ms: what is left of the timeout, in ticks
  results,  \* the rows collected
  rows,     \* the table printed, in the end
  logOpen,  \* does g_log_stream hold a stream
  exit,     \* exit status, -1 while running, -2 when killed
  clock,    \* ticks slept in poll
  heard     \* the answers in the datagrams read, in order

procVars == <<pc, cur, target, asked, budget, results, rows, logOpen, exit, clock, heard>>
vars == <<pc, cur, target, asked, budget, results, rows, logOpen, exit, clock, heard, sockVars>>

Init ==
  /\ SocketsInit
  /\ pc = "log" /\ cur = V4
  /\ target \in Targets
  /\ asked = {} /\ heard = << >>
  /\ budget = Timeout
  /\ results = << >> /\ rows = << >>
  /\ logOpen = FALSE /\ exit = -1 /\ clock = 0

Quit(status) == pc' = "exited" /\ exit' = status /\ logOpen' = FALSE

LogInit ==
  /\ pc = "log"
  /\ \/ pc' = "listen" /\ logOpen' = TRUE /\ UNCHANGED exit
     \/ Quit(1)
  /\ UNCHANGED <<cur, target, asked, budget, results, rows, clock, heard, sockVars>>

\* Both listeners are tried; the client gives up only when both failed.
Listen ==
  /\ pc = "listen"
  /\ CreateListener(cur)
  /\ IF cur = V4 THEN cur' = V6 /\ UNCHANGED <<pc, exit, logOpen>>
     ELSE /\ cur' = V4
          /\ IF \A s \in Family : fd'[s] = "none" THEN Quit(1)
             ELSE pc' = "send" /\ UNCHANGED <<exit, logOpen>>
  /\ UNCHANGED <<target, asked, budget, results, rows, clock, heard>>

\* Mutant: the sockets just created are forgotten.
BuildFailsOpen ==
  /\ pc = "send" /\ cur = V4 /\ ~QueryFits(target)
  /\ Quit(1)
  /\ UNCHANGED <<cur, target, asked, budget, results, rows, clock, heard, sockVars>>

BuildFails ==
  /\ pc = "send" /\ cur = V4 /\ ~QueryFits(target)
  /\ CloseAll /\ Quit(1)
  /\ UNCHANGED <<cur, target, asked, budget, results, rows, clock, heard>>

\* The query goes out on each open socket; a failed send is only logged.
SendQuery ==
  /\ pc = "send" /\ QueryFits(target)
  /\ asked' \in IF Open(cur) THEN {asked, asked \cup {cur}} ELSE {asked}
  /\ IF cur = V4 THEN cur' = V6 /\ UNCHANGED pc
     ELSE pc' = "loop" /\ cur' = V4
  /\ UNCHANGED <<target, budget, results, rows, logOpen, exit, clock, heard, sockVars>>

----------------------------------------------------------------------------
(* The receive loop. *)

Wait == IF budget > Slice THEN Slice ELSE budget

BeginPass ==
  /\ pc = "loop" /\ budget > 0 /\ Len(results) < MaxResults
  /\ pc' = "poll"
  /\ cur' = IF Open(V4) THEN V4 ELSE V6
  /\ UNCHANGED <<target, asked, budget, results, rows, logOpen, exit, clock, heard, sockVars>>

EndLoop ==
  /\ pc = "loop" /\ (budget <= 0 \/ Len(results) >= MaxResults)
  /\ pc' = "report"
  /\ UNCHANGED <<cur, target, asked, budget, results, rows, logOpen, exit, clock, heard, sockVars>>

\* Mutant: the last slice is charged in full.
NextSocketFullSlice ==
  IF cur = V4 /\ Open(V6) /\ Len(results') < MaxResults
  THEN cur' = V6 /\ UNCHANGED <<pc, budget>>
  ELSE pc' = "loop" /\ budget' = budget - Slice /\ UNCHANGED cur

\* Mutant: a pass that brought results is free.
NextSocketFreePass ==
  IF cur = V4 /\ Open(V6) /\ Len(results') < MaxResults
  THEN cur' = V6 /\ UNCHANGED <<pc, budget>>
  ELSE /\ pc' = "loop" /\ UNCHANGED cur
       /\ budget' = IF results' = results THEN budget - Wait ELSE budget

\* IPv6 is polled if there is room for its answers; a pass costs a slice of
\* the budget, slept or not.
NextSocket ==
  IF cur = V4 /\ Open(V6) /\ Len(results') < MaxResults
  THEN cur' = V6 /\ UNCHANGED <<pc, budget>>
  ELSE pc' = "loop" /\ budget' = budget - Wait /\ UNCHANGED cur

PollSleep ==
  /\ pc = "poll"
  /\ Sleep(cur, Wait)
  /\ clock' = clock + 1
  /\ UNCHANGED <<pc, cur, target, asked, budget, results, rows, logOpen, exit, heard>>

PollExpire ==
  /\ pc = "poll"
  /\ Expire(cur, Wait)
  /\ UNCHANGED results
  /\ NextSocket
  /\ UNCHANGED <<target, asked, rows, logOpen, exit, clock, heard>>

\* Mutant: the room left is not looked at.
ParseAllAnswers(d, room) == d

\* parse_answers stops at the room it was given.
ParseAnswers(d, room) == SubSeq(d, 1, IF Len(d) < room THEN Len(d) ELSE room)

HandleDatagram ==
  /\ pc = "poll"
  /\ Receive(cur)
  /\ results' = results \o ParseAnswers(Head(queue[cur]), MaxResults - Len(results))
  /\ heard' = heard \o Head(queue[cur])
  /\ NextSocket
  /\ UNCHANGED <<target, asked, rows, logOpen, exit, clock>>

Report ==
  /\ pc = "report"
  /\ rows' = Deduplicate(results)
  /\ CloseAll
  /\ Quit(IF rows' = << >> THEN 1 ELSE 0)
  /\ UNCHANGED <<cur, target, asked, budget, results, clock, heard>>

----------------------------------------------------------------------------
(* The environment. *)

DatagramArrives ==
  /\ \E s \in Family, d \in Datagrams : Arrive(s, d)
  /\ UNCHANGED procVars

\* SIGINT or SIGTERM has its default action; the kernel closes what is open.
SignalKills ==
  /\ pc # "exited"
  /\ CloseAll /\ Quit(-2)
  /\ UNCHANGED <<cur, target, asked, budget, results, rows, clock, heard>>

ClientStep ==
  \/ LogInit \/ Listen \/ BuildFails \/ SendQuery
  \/ BeginPass \/ EndLoop \/ PollSleep \/ PollExpire \/ HandleDatagram \/ Report

Next == ClientStep \/ DatagramArrives \/ SignalKills

\* The scheduler runs the client; datagrams and signals need never come.
Spec == Init /\ [][Next]_vars /\ WF_vars(ClientStep)

----------------------------------------------------------------------------
(* Properties. *)

\* Type invariant.
TypeOK ==
  /\ SocketsTypeOK
  /\ pc \in {"log", "listen", "send", "loop", "poll", "report", "exited"}
  /\ cur \in Family /\ target \in Targets /\ asked \subseteq Family
  /\ budget \in 0..Timeout /\ waited <= Wait
  /\ results \in Seq(Results) /\ heard \in Seq(Results)
  /\ logOpen \in BOOLEAN /\ exit \in {-2, -1, 0, 1}
  /\ clock \in Nat

\* The array of results is never overrun, although each packet is parsed
\* straight into its tail and both sockets are read before the loop test.
ResultsFit == Len(results) <= MaxResults

\* However answers trickle in on either socket, the client sleeps at most
\* its timeout once per socket it opened.
Share(s, t) == IF fd[s] = "none" THEN 0 ELSE t
WaitBounded == clock <= Share(V4, Timeout) + Share(V6, Timeout)

\* However main() ends, no descriptor stays open and the log is released.
NothingLeaks == pc = "exited" => ~logOpen /\ \A s \in Family : ~Open(s)

\* The table shows every answer of every datagram read, up to the array's
\* capacity and then the first ones, nothing else, and nothing twice; status
\* 0 says it has rows.
First(s, n) == SubSeq(s, 1, IF Len(s) < n THEN Len(s) ELSE n)
TableIsWhatWasHeard ==
  pc = "exited" /\ exit \in {0, 1} =>
    /\ ToSet(rows) = ToSet(First(heard, MaxResults))
    /\ IsInjective(rows)
    /\ exit = 0 <=> rows # << >>

\* The client ends, even if datagrams never stop coming: each pass reads at
\* most one per socket and costs part of the budget all the same.
Terminates == <>(pc = "exited")

----------------------------------------------------------------------------
(* What the documentation says, and the code does not do. *)

\* PRD.md:8: the client "will wait up to timeout seconds for any response".
WaitsUpToTimeout == clock <= Timeout
=============================================================================
