------------------------------- MODULE Server -------------------------------
(***************************************************************************)
(* umdns_server (src/src/server/main.c): start-up, the receive loop over   *)
(* two sockets, and shutdown by signal (src/src/common/signal.c).          *)
(*                                                                         *)
(* The process is sequential; its environment is the network, which queues *)
(* datagrams at any moment, and the signal, which may run at any moment,   *)
(* also inside poll.  A datagram is a record [from, questions]; a packet   *)
(* umdns_mdns_parse_question rejects (a response, which has no question,   *)
(* or an undecodable one) has questions = << >>.                           *)
(***************************************************************************)
EXTENDS Responder, Configuration, Sockets

CONSTANTS
  Files,       \* configuration files, as the lines read from them
  Machines,    \* host names and interfaces, with the -i option
  PollTicks,   \* the 250 ms a poll waits, in ticks
  None         \* "nothing handled yet", "not configured yet"

\* A name read from the wire may have empty pieces and ends within its buffer.
Question ==
  {q \in [name : Name, qtype : QTypes] : q.name # <<"">> /\ StrLen(q.name) < MaxName}

ASSUME ServerAssumption ==
  /\ Files \subseteq Seq(Line)
  /\ Machines \subseteq Machine
  /\ \A d \in Datagrams : d.questions \in Seq(Question)
  /\ PollTicks \in Nat

VARIABLES
  pc,         \* next statement: log, config, handlers, listen, loop, poll, exited
  cur,        \* the socket being created or polled
  config,     \* the configuration, or None
  handling,   \* are the signal handlers installed
  terminate,  \* g_terminate
  logOpen,    \* does g_log_stream hold a stream
  exit,       \* exit status, -1 while running, -2 when killed
  last,       \* the question handled last, what was answered and whether it went out
  lag         \* ticks slept in poll since the termination flag was set

procVars == <<pc, cur, config, handling, terminate, logOpen, exit, last, lag>>
vars == <<pc, cur, config, handling, terminate, logOpen, exit, last, lag, sockVars>>

Init ==
  /\ SocketsInit
  /\ pc = "log" /\ cur = V4
  /\ config = None /\ last = None
  /\ handling = FALSE /\ terminate = FALSE /\ logOpen = FALSE
  /\ exit = -1
  /\ lag = 0

----------------------------------------------------------------------------
(* Start-up. *)

Fail == pc' = "exited" /\ exit' = 1 /\ logOpen' = FALSE

LogInit ==
  /\ pc = "log"
  /\ \/ pc' = "config" /\ logOpen' = TRUE /\ UNCHANGED exit
     \/ Fail
  /\ UNCHANGED <<cur, config, handling, terminate, last, lag, sockVars>>

\* Config defaults, the file if one is named (none is as an empty one) and
\* can be opened, then the runtime identity.
LoadConfig ==
  /\ pc = "config"
  /\ \/ /\ \E f \in Files, m \in Machines :
             config' = ApplyIdentity([ConfigInit EXCEPT !.services = Load(f)], m)
        /\ pc' = "handlers"
        /\ UNCHANGED <<exit, logOpen>>
     \/ Fail /\ UNCHANGED config
  /\ UNCHANGED <<cur, handling, terminate, last, lag, sockVars>>

InstallHandlers ==
  /\ pc = "handlers"
  /\ \/ handling' = TRUE /\ pc' = "listen" /\ UNCHANGED <<exit, logOpen>>
     \/ Fail /\ UNCHANGED handling
  /\ UNCHANGED <<cur, config, terminate, last, lag, sockVars>>

\* Both listeners are tried; the server gives up only when both failed.
Listen ==
  /\ pc = "listen"
  /\ CreateListener(cur)
  /\ IF cur = V4 THEN cur' = V6 /\ UNCHANGED <<pc, exit, logOpen>>
     ELSE /\ UNCHANGED cur
          /\ IF \A s \in Family : fd'[s] = "none" THEN Fail
             ELSE pc' = "loop" /\ UNCHANGED <<exit, logOpen>>
  /\ UNCHANGED <<config, handling, terminate, last, lag>>

----------------------------------------------------------------------------
(* The main loop. *)

BeginPass ==
  /\ pc = "loop" /\ ~terminate
  /\ pc' = "poll"
  /\ cur' = IF Open(V4) THEN V4 ELSE V6
  /\ UNCHANGED <<config, handling, terminate, logOpen, exit, last, lag, sockVars>>

Shutdown ==
  /\ pc = "loop" /\ terminate
  /\ CloseAll
  /\ pc' = "exited" /\ exit' = 0 /\ logOpen' = FALSE
  /\ UNCHANGED <<cur, config, handling, terminate, last, lag>>

\* Mutant: the pass starts over without the loop test.
NextSocketNoTest ==
  /\ cur' = IF (cur = V4 /\ Open(V6)) \/ ~Open(V4) THEN V6 ELSE V4
  /\ UNCHANGED pc

\* Mutant: a socket is drained before the other is looked at.
NextSocketDrain ==
  IF queue'[cur] # << >> THEN UNCHANGED <<pc, cur>>
  ELSE IF cur = V4 /\ Open(V6) THEN cur' = V6 /\ UNCHANGED pc
  ELSE pc' = "loop" /\ UNCHANGED cur

\* After the IPv4 socket its IPv6 peer, if open; then the loop test.
NextSocket ==
  IF cur = V4 /\ Open(V6) THEN cur' = V6 /\ UNCHANGED pc
  ELSE pc' = "loop" /\ UNCHANGED cur

PollSleep ==
  /\ pc = "poll"
  /\ Sleep(cur, PollTicks)
  /\ lag' = IF terminate THEN lag + 1 ELSE lag
  /\ UNCHANGED <<pc, cur, config, handling, terminate, logOpen, exit, last>>

PollExpire ==
  /\ pc = "poll"
  /\ Expire(cur, PollTicks)
  /\ NextSocket
  /\ UNCHANGED <<config, handling, terminate, logOpen, exit, last, lag>>

\* umdns_mdns_parse_question reads the first question only; handle_question
\* answers to the sender on the socket it came from; a failed send is logged.
HandleDatagram ==
  /\ pc = "poll"
  /\ Receive(cur)
  /\ NextSocket
  /\ LET d == Head(queue[cur]) IN
     IF d.questions = << >> THEN UNCHANGED last
     ELSE LET reply == Answer(config, Head(d.questions)) IN
          \E ok \in BOOLEAN :
            last' = [sock |-> cur, dgram |-> d, reply |-> reply,
                     sent |-> ok /\ reply.len > 0]
  /\ UNCHANGED <<config, handling, terminate, logOpen, exit, lag>>

----------------------------------------------------------------------------
(* The environment. *)

DatagramArrives ==
  /\ \E s \in Family, d \in Datagrams : Arrive(s, d)
  /\ UNCHANGED procVars

\* SIGINT or SIGTERM with its default action: the process is gone.
SignalKills ==
  /\ pc \in {"log", "config", "handlers"}
  /\ pc' = "exited" /\ exit' = -2 /\ logOpen' = FALSE
  /\ UNCHANGED <<cur, config, handling, terminate, last, lag, sockVars>>

\* The handler runs while the process is not asleep: before poll blocks, or
\* once it has been woken.  Nothing is interrupted.
SignalBetween ==
  /\ handling /\ pc # "exited" /\ ~terminate
  /\ pc = "poll" => (waited \in {0, PollTicks} \/ queue[cur] # << >>)
  /\ terminate' = TRUE
  /\ UNCHANGED <<pc, cur, config, handling, logOpen, exit, last, lag, sockVars>>

\* The handler runs while poll sleeps: recv_with_timeout returns -1.
SignalInPoll ==
  /\ handling /\ pc = "poll" /\ queue[cur] = << >>
  /\ terminate' = TRUE
  /\ Interrupt
  /\ NextSocket
  /\ UNCHANGED <<config, handling, logOpen, exit, last, lag>>

ServerStep ==
  \/ LogInit \/ LoadConfig \/ InstallHandlers \/ Listen
  \/ BeginPass \/ Shutdown \/ PollSleep \/ PollExpire \/ HandleDatagram

Next ==
  \/ ServerStep
  \/ DatagramArrives \/ SignalKills \/ SignalBetween \/ SignalInPoll

\* The scheduler runs the server: a statement that can execute eventually
\* does.  Neither datagrams nor signals need ever come.
Spec == Init /\ [][Next]_vars /\ WF_vars(ServerStep)

----------------------------------------------------------------------------
(* Properties. *)

\* Type invariant: the ranges of the server's locals, flags and sockets.
TypeOK ==
  /\ SocketsTypeOK /\ waited <= PollTicks
  /\ pc \in {"log", "config", "handlers", "listen", "loop", "poll", "exited"}
  /\ cur \in Family
  /\ config \in Config \cup {None}
  /\ handling \in BOOLEAN /\ terminate \in BOOLEAN /\ logOpen \in BOOLEAN
  /\ exit \in {-2, -1, 0, 1}
  /\ last # None => last.sock \in Family /\ last.dgram \in Datagrams /\ last.sent \in BOOLEAN
  /\ lag \in Nat

\* The sleep a whole pass may cost: one timeout per socket that was opened.
PassTicks == (IF fd[V4] = "none" THEN 0 ELSE PollTicks)
           + (IF fd[V6] = "none" THEN 0 ELSE PollTicks)

\* Graceful shutdown is prompt: once the flag is set the server sleeps at
\* most one poll timeout per socket before it is gone, wherever in the pass
\* (or in start-up) the signal hit and whatever arrives meanwhile.
ShutdownIsPrompt == terminate => lag <= PassTicks

\* Whatever way main() ends, no descriptor is left open and the log stream
\* is closed: every failing step of start-up releases what earlier steps
\* acquired (src/src/server/main.c:365-436).
NothingLeaks == pc = "exited" => ~logOpen /\ \A s \in Family : ~Open(s)

\* Every SRV record the server may send names the machine's own host, never
\* a "host" of the configuration file (README.md:259), although the host
\* is stored per service and read from there.
SrvNamesRuntimeHost ==
  last # None =>
    \A i \in DOMAIN last.reply.answers :
      LET r == last.reply.answers[i] IN
        r.rr = "SRV" => r.host = Tokens(HostName(config.hostname))

\* What was sent answers what was asked: the reply carries a record named
\* as the question (an enumeration of no services carries none), although
\* each match overwrites what an earlier one built and three places of the
\* code normalise names.  Empty pieces, which a decoder may leave in a
\* question's name, are not in the record's: "_http._tcp.local..local" is
\* answered under "_http._tcp.local.local".
RepliesAnswerTheQuestion ==
  last # None /\ last.sent =>
    LET q == Head(last.dgram.questions)
        a == last.reply.answers
    IN  \/ \E i \in DOMAIN a : NameMatches(a[i].name, Tokens(q.name))
        \/ AsksEnum(q) /\ a = << >>

\* A service the responder can name and encode: no empty piece in its
\* names (strtok_r would drop it from the wire), a full name that a decoder
\* reads when it is asked for (one octet shorter than the server's own
\* limit) and a reply that fits.
Presentable(s) ==
  /\ "" \notin Range(InstanceName(s))
  /\ StrLen(InstanceName(s)) + 1 < MaxName
  /\ ServiceReply(s).len > 0

\* Discovery closes: a service type listed by the enumeration is answered
\* when it is queried by the name listed, and a service instance listed by
\* that answer when it is queried in turn -- for presentable services.
EnumeratedTypesResolve ==
  config # None /\ (\A i \in DOMAIN config.services : Presentable(config.services[i])) =>
    \A t \in {r.target : r \in Range(EnumReply(config).answers)} :
      \E r \in Range(Answer(config, [name |-> t, qtype |-> "PTR"]).answers) :
        /\ r.rr = "PTR"
        /\ \E srv \in Range(Answer(config, [name |-> r.target, qtype |-> "SRV"]).answers) :
             srv.rr = "SRV" /\ NameMatches(srv.name, r.target)

\* A signal stops the server, from any point of start-up, pass or loop.
SignalStops == terminate ~> pc = "exited"

\* A full receive queue is relieved however the other socket is flooded:
\* each pass reads at most one datagram per socket.
NoStarvation ==
  \A s \in Family :
    Len(queue[s]) = QueueCap ~> Len(queue[s]) < QueueCap

----------------------------------------------------------------------------
(* What the documentation says, and the code does not do.  Each is refuted  *)
(* by a run of its own.                                                     *)

\* PRD.md:9: the server will "listen for any mDNS queries and respond with
\* the local hostname or the local registered services".  Every question
\* of a handled query that has an answer is answered.
EveryQuestionAnswered ==
  last # None =>
    \A k \in DOMAIN last.dgram.questions :
      LET a == Answer(config, last.dgram.questions[k])
      IN  a.len > 0 => last.reply = a

\* PRD.md:9 again: the answer for a service type lists each registered
\* service of that type.
RegisteredServicesAnswered ==
  last # None =>
    LET q == Head(last.dgram.questions) IN
    \A i \in DOMAIN config.services :
      q.qtype = "PTR" /\ ServiceMatches(config.services[i], q) =>
        \E r \in Range(last.reply.answers) :
          r.rr = "PTR" /\ r.target = Tokens(InstanceName(config.services[i]))
=============================================================================
