---------------------------- MODULE ServerProofs ----------------------------
(***************************************************************************)
(* Theorems about Server, for every configuration, network and timeout.    *)
(***************************************************************************)
EXTENDS Server, ResponderProofs

\* The host name and every service's host agree once identity was applied.
HostsAgree ==
  /\ config \in Config
  /\ \A i \in DOMAIN config.services : config.services[i].host = config.hostname

\* Where start-up has got to.
StartupInv ==
  /\ pc \in {"log", "config", "handlers"} => ~handling /\ cur = V4
  /\ pc \in {"log", "config", "handlers", "listen"} => last = None
  /\ ~handling => ~terminate
  /\ pc \in {"handlers", "listen", "loop", "poll"} => HostsAgree
  /\ last # None => HostsAgree

\* Which descriptors are open.
DescriptorInv ==
  /\ pc \in {"log", "config", "handlers"} => \A s \in Family : fd[s] = "none"
  /\ pc = "listen" => fd[V6] = "none" /\ (cur = V4 => fd[V4] = "none")
  /\ pc \in {"listen", "loop", "poll"} => \A s \in Family : fd[s] # "closed"
  /\ pc \in {"loop", "poll"} => \E s \in Family : Open(s)
  /\ pc = "poll" => Open(cur)
  /\ NothingLeaks

\* The ticks slept since the signal, against the position in the pass.
LagInv ==
  /\ ~terminate => lag = 0
  /\ pc = "listen" => lag = 0
  /\ pc # "poll" => waited = 0
  /\ pc = "poll" /\ cur = V4 => lag <= waited
  /\ pc = "poll" /\ cur = V6 =>
       lag <= (IF fd[V4] = "none" THEN 0 ELSE PollTicks) + waited
  /\ ShutdownIsPrompt

ServerInv == TypeOK /\ StartupInv /\ DescriptorInv /\ LagInv

----------------------------------------------------------------------------
(* The invariant. *)

LEMMA InitInv == Init => ServerInv
<1> SUFFICES ASSUME Init PROVE ServerInv
  OBVIOUS
<1> USE DEF Init, SocketsInit
<1>1. TypeOK
  <2>1. SocketsTypeOK
    <3>1. << >> \in Seq(Datagrams)
      OBVIOUS
    <3> QED BY <3>1 DEF SocketsTypeOK
  <2>2. waited <= PollTicks
    BY ServerAssumption
  <2> QED BY <2>1, <2>2 DEF TypeOK, Family
<1>2. StartupInv
  BY DEF StartupInv
<1>3. DescriptorInv
  BY DEF DescriptorInv, NothingLeaks
<1>4. LagInv
  BY DEF LagInv, ShutdownIsPrompt
<1> QED BY <1>1, <1>2, <1>3, <1>4 DEF ServerInv

\* Every statement of the server and every move of its environment keeps it.
LEMMA StepInv == ServerInv /\ [Next]_vars => ServerInv'
<1> SUFFICES ASSUME ServerInv, [Next]_vars PROVE ServerInv'
  OBVIOUS
<1> USE SocketsAssumption, ServerAssumption
<1>1. CASE LogInit
  <2>1. TypeOK'
    BY <1>1 DEF ServerInv, TypeOK, SocketsTypeOK, DescriptorInv, LogInit, Fail, sockVars, Open, Family, V4, V6
  <2>2. StartupInv'
    BY <1>1 DEF ServerInv, StartupInv, HostsAgree, LogInit, Fail, sockVars, Open, Family, V4, V6
  <2>3. DescriptorInv'
    BY <1>1 DEF ServerInv, DescriptorInv, NothingLeaks, TypeOK, SocketsTypeOK, LogInit, Fail, sockVars, Open, Family, V4, V6
  <2>4. LagInv'
    BY <1>1 DEF ServerInv, LagInv, ShutdownIsPrompt, PassTicks, StartupInv, DescriptorInv, TypeOK, SocketsTypeOK, LogInit, Fail, sockVars, Open, Family, V4, V6
  <2> QED BY <2>1, <2>2, <2>3, <2>4 DEF ServerInv
<1>2. CASE LoadConfig
  <2>0. \A f \in Files, m \in Machines :
          LET c == ApplyIdentity([ConfigInit EXCEPT !.services = Load(f)], m) IN
          /\ c \in Config
          /\ \A i \in DOMAIN c.services : c.services[i].host = c.hostname
    BY IdentityApplied
  <2>1. TypeOK'
    <3>1. config' \in Config \cup {None}
      BY <2>0, <1>2 DEF ServerInv, TypeOK, LoadConfig, Fail
    <3>2. SocketsTypeOK' /\ waited' = waited
      BY <1>2 DEF ServerInv, TypeOK, SocketsTypeOK, LoadConfig, Fail, sockVars
    <3>3. /\ pc' \in {"log", "config", "handlers", "listen", "loop", "poll", "exited"}
          /\ exit' \in {-2, -1, 0, 1} /\ logOpen' \in BOOLEAN
          /\ UNCHANGED <<cur, handling, terminate, last, lag>>
      BY <1>2 DEF ServerInv, TypeOK, LoadConfig, Fail
    <3> QED BY <3>1, <3>2, <3>3 DEF ServerInv, TypeOK
  <2>2. StartupInv'
    BY <2>0, <1>2 DEF ServerInv, StartupInv, HostsAgree, LoadConfig, Fail, sockVars, Open, Family, V4, V6
  <2>3. DescriptorInv'
    BY <1>2 DEF ServerInv, DescriptorInv, NothingLeaks, TypeOK, SocketsTypeOK, LoadConfig, Fail, sockVars, Open, Family, V4, V6
  <2>4. LagInv'
    BY <1>2 DEF ServerInv, LagInv, ShutdownIsPrompt, PassTicks, StartupInv, DescriptorInv, TypeOK, SocketsTypeOK, LoadConfig, Fail, sockVars, Open, Family, V4, V6
  <2> QED BY <2>1, <2>2, <2>3, <2>4 DEF ServerInv
<1>3. CASE InstallHandlers
  <2>1. TypeOK'
    BY <1>3 DEF ServerInv, TypeOK, SocketsTypeOK, DescriptorInv, InstallHandlers, Fail, sockVars, Open, Family, V4, V6
  <2>2. StartupInv'
    BY <1>3 DEF ServerInv, StartupInv, HostsAgree, InstallHandlers, Fail, sockVars, Open, Family, V4, V6
  <2>3. DescriptorInv'
    BY <1>3 DEF ServerInv, DescriptorInv, NothingLeaks, TypeOK, SocketsTypeOK, InstallHandlers, Fail, sockVars, Open, Family, V4, V6
  <2>4. LagInv'
    BY <1>3 DEF ServerInv, LagInv, ShutdownIsPrompt, PassTicks, StartupInv, DescriptorInv, TypeOK, SocketsTypeOK, InstallHandlers, Fail, sockVars, Open, Family, V4, V6
  <2> QED BY <2>1, <2>2, <2>3, <2>4 DEF ServerInv
<1>4. CASE Listen
  <2>1. TypeOK'
    <3>1. PICK r \in {"open", "none"} : fd' = [fd EXCEPT ![cur] = r]
      BY <1>4 DEF Listen, CreateListener
    <3>2. SocketsTypeOK'
      BY <1>4, <3>1 DEF ServerInv, TypeOK, SocketsTypeOK, Listen, CreateListener
    <3> QED BY <1>4, <3>2 DEF ServerInv, TypeOK, Listen, Fail, CreateListener, Family
  <2>2. StartupInv'
    BY <1>4 DEF ServerInv, StartupInv, HostsAgree, Listen, Fail, CreateListener, sockVars, Open, Family, V4, V6
  <2>3. DescriptorInv'
    BY <1>4 DEF ServerInv, DescriptorInv, NothingLeaks, TypeOK, SocketsTypeOK, Listen, Fail, CreateListener, sockVars, Open, Family, V4, V6
  <2>4. LagInv'
    BY <1>4 DEF ServerInv, LagInv, ShutdownIsPrompt, PassTicks, StartupInv, DescriptorInv, TypeOK, SocketsTypeOK, Listen, Fail, CreateListener, sockVars, Open, Family, V4, V6
  <2> QED BY <2>1, <2>2, <2>3, <2>4 DEF ServerInv
<1>5. CASE BeginPass
  <2>1. TypeOK'
    BY <1>5 DEF ServerInv, TypeOK, SocketsTypeOK, DescriptorInv, BeginPass, sockVars, Open, Family, V4, V6
  <2>2. StartupInv'
    BY <1>5 DEF ServerInv, StartupInv, HostsAgree, BeginPass, sockVars, Open, Family, V4, V6
  <2>3. DescriptorInv'
    BY <1>5 DEF ServerInv, DescriptorInv, NothingLeaks, TypeOK, SocketsTypeOK, BeginPass, sockVars, Open, Family, V4, V6
  <2>4. LagInv'
    BY <1>5 DEF ServerInv, LagInv, ShutdownIsPrompt, PassTicks, StartupInv, DescriptorInv, TypeOK, SocketsTypeOK, BeginPass, sockVars, Open, Family, V4, V6
  <2> QED BY <2>1, <2>2, <2>3, <2>4 DEF ServerInv
<1>6. CASE Shutdown
  <2>1. TypeOK'
    <3>1. << >> \in Seq(Datagrams)
      OBVIOUS
    <3>2. SocketsTypeOK'
      <4>1. fd' \in [Family -> {"none", "open", "closed"}]
        BY <1>6 DEF ServerInv, TypeOK, SocketsTypeOK, Shutdown, CloseAll
      <4>2. queue' \in [Family -> Seq(Datagrams)]
        BY <1>6, <3>1 DEF Shutdown, CloseAll
      <4>3. waited' \in Nat
        BY <1>6 DEF Shutdown, CloseAll
      <4> QED BY <4>1, <4>2, <4>3 DEF SocketsTypeOK
    <3>3. waited' <= PollTicks
      BY <1>6, ServerAssumption DEF Shutdown, CloseAll
    <3> QED BY <1>6, <3>2, <3>3 DEF ServerInv, TypeOK, Shutdown
  <2>2. StartupInv'
    BY <1>6 DEF ServerInv, StartupInv, HostsAgree, Shutdown, CloseAll, sockVars, Open, Family, V4, V6
  <2>3. DescriptorInv'
    BY <1>6 DEF ServerInv, DescriptorInv, NothingLeaks, TypeOK, SocketsTypeOK, Shutdown, CloseAll, sockVars, Open, Family, V4, V6
  <2>4. LagInv'
    BY <1>6 DEF ServerInv, LagInv, ShutdownIsPrompt, PassTicks, StartupInv, DescriptorInv, TypeOK, SocketsTypeOK, Shutdown, CloseAll, sockVars, Open, Family, V4, V6
  <2> QED BY <2>1, <2>2, <2>3, <2>4 DEF ServerInv
<1>7. CASE PollSleep
  <2>1. TypeOK'
    BY <1>7 DEF ServerInv, TypeOK, SocketsTypeOK, DescriptorInv, PollSleep, Sleep, sockVars, Open, Family, V4, V6
  <2>2. StartupInv'
    BY <1>7 DEF ServerInv, StartupInv, HostsAgree, PollSleep, Sleep, sockVars, Open, Family, V4, V6
  <2>3. DescriptorInv'
    BY <1>7 DEF ServerInv, DescriptorInv, NothingLeaks, TypeOK, SocketsTypeOK, PollSleep, Sleep, sockVars, Open, Family, V4, V6
  <2>4. LagInv'
    BY <1>7 DEF ServerInv, LagInv, ShutdownIsPrompt, PassTicks, StartupInv, DescriptorInv, TypeOK, SocketsTypeOK, PollSleep, Sleep, sockVars, Open, Family, V4, V6
  <2> QED BY <2>1, <2>2, <2>3, <2>4 DEF ServerInv
<1>8. CASE PollExpire
  <2>1. TypeOK'
    BY <1>8 DEF ServerInv, TypeOK, SocketsTypeOK, DescriptorInv, PollExpire, Expire, NextSocket, sockVars, Open, Family, V4, V6
  <2>2. StartupInv'
    BY <1>8 DEF ServerInv, StartupInv, HostsAgree, PollExpire, Expire, NextSocket, sockVars, Open, Family, V4, V6
  <2>3. DescriptorInv'
    BY <1>8 DEF ServerInv, DescriptorInv, NothingLeaks, TypeOK, SocketsTypeOK, PollExpire, Expire, NextSocket, sockVars, Open, Family, V4, V6
  <2>4. LagInv'
    BY <1>8 DEF ServerInv, LagInv, ShutdownIsPrompt, PassTicks, StartupInv, DescriptorInv, TypeOK, SocketsTypeOK, PollExpire, Expire, NextSocket, sockVars, Open, Family, V4, V6
  <2> QED BY <2>1, <2>2, <2>3, <2>4 DEF ServerInv
<1>9. CASE HandleDatagram
  <2>1. TypeOK'
    <3>1. queue[cur] \in Seq(Datagrams) /\ Head(queue[cur]) \in Datagrams
          /\ Tail(queue[cur]) \in Seq(Datagrams)
      BY <1>9 DEF ServerInv, TypeOK, SocketsTypeOK, HandleDatagram, Receive
    <3>2. SocketsTypeOK'
      BY <1>9, <3>1 DEF ServerInv, TypeOK, SocketsTypeOK, HandleDatagram, Receive
    <3>3. (last # None => /\ last.sock \in Family /\ last.dgram \in Datagrams
                          /\ last.sent \in BOOLEAN)'
      <4>1. CASE UNCHANGED last
        BY <4>1 DEF ServerInv, TypeOK
      <4>2. ASSUME NEW reply, NEW ok \in BOOLEAN,
                   last' = [sock |-> cur, dgram |-> Head(queue[cur]), reply |-> reply,
                            sent |-> ok /\ reply.len > 0]
            PROVE  last'.sock \in Family /\ last'.dgram \in Datagrams /\ last'.sent \in BOOLEAN
        BY <3>1, <4>2 DEF ServerInv, TypeOK
      <4> QED BY <1>9, <4>1, <4>2 DEF HandleDatagram
    <3> QED BY <1>9, <3>2, <3>3 DEF ServerInv, TypeOK, HandleDatagram, Receive, NextSocket, Family
  <2>2. StartupInv'
    BY <1>9 DEF ServerInv, StartupInv, HostsAgree, HandleDatagram, Receive, NextSocket, sockVars, Open, Family, V4, V6
  <2>3. DescriptorInv'
    BY <1>9 DEF ServerInv, DescriptorInv, NothingLeaks, TypeOK, SocketsTypeOK, HandleDatagram, Receive, NextSocket, sockVars, Open, Family, V4, V6
  <2>4. LagInv'
    BY <1>9 DEF ServerInv, LagInv, ShutdownIsPrompt, PassTicks, StartupInv, DescriptorInv, TypeOK, SocketsTypeOK, HandleDatagram, Receive, NextSocket, sockVars, Open, Family, V4, V6
  <2> QED BY <2>1, <2>2, <2>3, <2>4 DEF ServerInv
<1>10. CASE DatagramArrives
  <2>1. TypeOK'
    BY <1>10 DEF ServerInv, TypeOK, SocketsTypeOK, DescriptorInv, DatagramArrives, Arrive, procVars, sockVars, Open, Family, V4, V6
  <2>2. StartupInv'
    BY <1>10 DEF ServerInv, StartupInv, HostsAgree, DatagramArrives, Arrive, procVars, sockVars, Open, Family, V4, V6
  <2>3. DescriptorInv'
    BY <1>10 DEF ServerInv, DescriptorInv, NothingLeaks, TypeOK, SocketsTypeOK, DatagramArrives, Arrive, procVars, sockVars, Open, Family, V4, V6
  <2>4. LagInv'
    BY <1>10 DEF ServerInv, LagInv, ShutdownIsPrompt, PassTicks, StartupInv, DescriptorInv, TypeOK, SocketsTypeOK, DatagramArrives, Arrive, procVars, sockVars, Open, Family, V4, V6
  <2> QED BY <2>1, <2>2, <2>3, <2>4 DEF ServerInv
<1>11. CASE SignalKills
  <2>1. TypeOK'
    BY <1>11 DEF ServerInv, TypeOK, SocketsTypeOK, DescriptorInv, SignalKills, sockVars, Open, Family, V4, V6
  <2>2. StartupInv'
    BY <1>11 DEF ServerInv, StartupInv, HostsAgree, SignalKills, sockVars, Open, Family, V4, V6
  <2>3. DescriptorInv'
    BY <1>11 DEF ServerInv, DescriptorInv, NothingLeaks, TypeOK, SocketsTypeOK, SignalKills, sockVars, Open, Family, V4, V6
  <2>4. LagInv'
    BY <1>11 DEF ServerInv, LagInv, ShutdownIsPrompt, PassTicks, StartupInv, DescriptorInv, TypeOK, SocketsTypeOK, SignalKills, sockVars, Open, Family, V4, V6
  <2> QED BY <2>1, <2>2, <2>3, <2>4 DEF ServerInv
<1>12. CASE SignalBetween
  <2>1. TypeOK'
    BY <1>12 DEF ServerInv, TypeOK, SocketsTypeOK, DescriptorInv, SignalBetween, sockVars, Open, Family, V4, V6
  <2>2. StartupInv'
    BY <1>12 DEF ServerInv, StartupInv, HostsAgree, SignalBetween, sockVars, Open, Family, V4, V6
  <2>3. DescriptorInv'
    BY <1>12 DEF ServerInv, DescriptorInv, NothingLeaks, TypeOK, SocketsTypeOK, SignalBetween, sockVars, Open, Family, V4, V6
  <2>4. LagInv'
    BY <1>12 DEF ServerInv, LagInv, ShutdownIsPrompt, PassTicks, StartupInv, DescriptorInv, TypeOK, SocketsTypeOK, SignalBetween, sockVars, Open, Family, V4, V6
  <2> QED BY <2>1, <2>2, <2>3, <2>4 DEF ServerInv
<1>13. CASE SignalInPoll
  <2>1. TypeOK'
    BY <1>13 DEF ServerInv, TypeOK, SocketsTypeOK, DescriptorInv, SignalInPoll, Interrupt, NextSocket, sockVars, Open, Family, V4, V6
  <2>2. StartupInv'
    BY <1>13 DEF ServerInv, StartupInv, HostsAgree, SignalInPoll, Interrupt, NextSocket, sockVars, Open, Family, V4, V6
  <2>3. DescriptorInv'
    BY <1>13 DEF ServerInv, DescriptorInv, NothingLeaks, TypeOK, SocketsTypeOK, SignalInPoll, Interrupt, NextSocket, sockVars, Open, Family, V4, V6
  <2>4. LagInv'
    BY <1>13 DEF ServerInv, LagInv, ShutdownIsPrompt, PassTicks, StartupInv, DescriptorInv, TypeOK, SocketsTypeOK, SignalInPoll, Interrupt, NextSocket, sockVars, Open, Family, V4, V6
  <2> QED BY <2>1, <2>2, <2>3, <2>4 DEF ServerInv
<1>14. CASE UNCHANGED vars
  <2>1. TypeOK'
    BY <1>14 DEF vars, sockVars, ServerInv, TypeOK, SocketsTypeOK
  <2>2. StartupInv'
    BY <1>14 DEF vars, sockVars, ServerInv, StartupInv, HostsAgree
  <2>3. DescriptorInv'
    BY <1>14 DEF vars, sockVars, ServerInv, DescriptorInv, NothingLeaks, Open
  <2>4. LagInv'
    BY <1>14 DEF vars, sockVars, ServerInv, LagInv, ShutdownIsPrompt, PassTicks
  <2> QED BY <2>1, <2>2, <2>3, <2>4 DEF ServerInv
<1> QED BY <1>1, <1>2, <1>3, <1>4, <1>5, <1>6, <1>7, <1>8, <1>9, <1>10, <1>11, <1>12, <1>13, <1>14 DEF Next, ServerStep

----------------------------------------------------------------------------
(* Discovery closes. *)

\* The names of a presentable service are written as they are.
LEMMA PresentableNames ==
  ASSUME NEW s \in Service, Presentable(s)
  PROVE  /\ Tokens(InstanceName(s)) = InstanceName(s)
         /\ Tokens(TypeName(s)) = TypeName(s)
<1>1. InstanceName(s) \in Name
  BY ServiceNames
<1>2. \A i \in DOMAIN InstanceName(s) : InstanceName(s)[i] # ""
  BY DEF Presentable, Range
<1>3. Whole(InstanceName(s))
  BY <1>1, <1>2 DEF Whole
<1> QED BY <1>3, ServiceNames, TokensOfWhole

\* A question some service matches is answered with the records of one that
\* matches it.
LEMMA MatchedAnswer ==
  ASSUME NEW c \in Config,
         \A i \in DOMAIN c.services : Presentable(c.services[i]),
         NEW q, NEW k \in DOMAIN c.services, ServiceMatches(c.services[k], q)
  PROVE  \E m \in DOMAIN c.services :
           LET s == c.services[m]
               a == Answer(c, q).answers
           IN  /\ s \in Service /\ Presentable(s) /\ ServiceMatches(s, q)
               /\ PtrRecord(TypeName(s), InstanceName(s)) \in Range(a)
               /\ SrvOf(s) \in Range(a)
<1> DEFINE m == Max(Matching(c, q))
           s == c.services[m]
           a == Answer(c, q).answers
<1>1. c.services \in Seq(Service) /\ Matching(c, q) \in SUBSET (1..Len(c.services))
  BY DEF Config, Matching
<1>2. Matching(c, q) # {}
  BY DEF Matching
<1>3. m \in Matching(c, q)
  <2>1. Len(c.services) \in Nat
    BY <1>1
  <2> QED BY <1>1, <1>2, <2>1, MaxExists, Zenon
<1>4. m \in DOMAIN c.services /\ ServiceMatches(s, q)
  BY <1>3 DEF Matching
<1> HIDE DEF m
<1>5. s \in Service /\ Presentable(s)
  BY <1>1, <1>4
<1>6. Answer(c, q) = ServiceReply(s)
  BY <1>2, Zenon DEF Answer, m
<1> HIDE DEF s
<1>7. ServiceReply(s).len > 0
  BY <1>5 DEF Presentable
<1>8. /\ 1 \in DOMAIN a /\ a[1] = PtrRecord(TypeName(s), InstanceName(s))
      /\ 2 \in DOMAIN a /\ a[2] = SrvOf(s)
  BY <1>6, <1>7, ServiceReplySent
<1> HIDE DEF a
<1>9. PtrRecord(TypeName(s), InstanceName(s)) \in Range(a) /\ SrvOf(s) \in Range(a)
  <2>1. \A i \in DOMAIN a : a[i] \in Range(a)
    BY DEF Range
  <2> QED BY <1>8, <2>1
<1> QED BY <1>4, <1>5, <1>9 DEF a, s

\* Each type listed is answered with an instance, and each such instance
\* with its SRV record, whichever of the services share a type or a name.
LEMMA DiscoveryCloses ==
  ASSUME NEW c \in Config,
         \A i \in DOMAIN c.services : Presentable(c.services[i]),
         NEW e \in Range(EnumReply(c).answers)
  PROVE  \E r \in Range(Answer(c, [name |-> e.target, qtype |-> "PTR"]).answers) :
           /\ r.rr = "PTR"
           /\ \E srv \in Range(Answer(c, [name |-> r.target, qtype |-> "SRV"]).answers) :
                srv.rr = "SRV" /\ NameMatches(srv.name, r.target)
<1> DEFINE q == [name |-> e.target, qtype |-> "PTR"]
<1>1. /\ c.services \in Seq(Service) /\ Len(c.services) \in Nat
      /\ DOMAIN c.services = 1..Len(c.services)
      /\ \A i \in DOMAIN c.services : c.services[i] \in Service
  BY DEF Config
<1>2. PICK k \in DOMAIN c.services :
        /\ c.services[k].type # << >>
        /\ e = PtrRecord(EnumName, TypeName(c.services[k]))
  <2> DEFINE a == EnumReply(c).answers
  <2>1. PICK i \in DOMAIN a : e = a[i]
    BY DEF Range
  <2>2. Lists(a[i], c, Len(c.services))
    BY <1>1, EnumReplyLists
  <2> QED BY <1>1, <2>1, <2>2 DEF Lists
<1>3. e.target = TypeName(c.services[k])
  <2>1. e.target = Tokens(TypeName(c.services[k]))
    BY <1>2 DEF PtrRecord
  <2> QED BY <1>1, <2>1, PresentableNames
<1>4. ServiceMatches(c.services[k], q)
  <2>1. ServiceReply(c.services[k]).len > 0
    BY DEF Presentable
  <2>2. StrLen(InstanceName(c.services[k])) < MaxName
    BY <2>1, ServiceReplySent
  <2>3. NameMatches(q.name, TypeName(c.services[k]))
    BY <1>3, NameMatchesFacts
  <2> QED BY <1>2, <2>2, <2>3 DEF ServiceMatches
<1> DEFINE a == Answer(c, q).answers
<1> HIDE DEF q
<1>5. PICK m \in DOMAIN c.services :
        /\ Presentable(c.services[m]) /\ ServiceMatches(c.services[m], q)
        /\ PtrRecord(TypeName(c.services[m]), InstanceName(c.services[m])) \in Range(a)
  BY <1>4, MatchedAnswer
<1> DEFINE s == c.services[m]
           r == PtrRecord(TypeName(s), InstanceName(s))
           p == [name |-> r.target, qtype |-> "SRV"]
           b == Answer(c, p).answers
<1>6. r \in Range(a) /\ r.rr = "PTR" /\ r.target = InstanceName(s)
  <2>1. r.rr = "PTR" /\ r.target = Tokens(InstanceName(s))
    BY DEF PtrRecord
  <2> QED BY <1>1, <1>5, <2>1, PresentableNames
<1>7. ServiceMatches(s, p)
  <2>1. s.type # << >> /\ StrLen(InstanceName(s)) < MaxName
    BY <1>5 DEF ServiceMatches
  <2>2. p.qtype = "SRV" /\ NameMatches(p.name, InstanceName(s))
    BY <1>6, NameMatchesFacts
  <2> HIDE DEF p
  <2> QED BY <2>1, <2>2 DEF ServiceMatches
<1>8. PICK n \in DOMAIN c.services :
        /\ c.services[n] \in Service /\ Presentable(c.services[n])
        /\ ServiceMatches(c.services[n], p) /\ SrvOf(c.services[n]) \in Range(b)
  <2> HIDE DEF p
  <2> QED BY <1>7, MatchedAnswer
<1> DEFINE v == SrvOf(c.services[n])
<1>9. v.rr = "SRV" /\ v.name = InstanceName(c.services[n])
  <2>1. v.rr = "SRV" /\ v.name = Tokens(InstanceName(c.services[n]))
    BY DEF SrvOf, SrvRecord
  <2> QED BY <1>8, <2>1, PresentableNames
<1>10. NameMatches(v.name, r.target)
  <2>1. p.qtype = "SRV" /\ p.name = r.target
    OBVIOUS
  <2> HIDE DEF p, r
  <2>2. NameMatches(r.target, InstanceName(c.services[n]))
    BY <1>8, <2>1 DEF ServiceMatches
  <2>3. r.target \in Name /\ InstanceName(c.services[n]) \in Name
    BY <1>1, <1>6, <1>8, ServiceNames
  <2> QED BY <1>9, <2>2, <2>3, NameMatchesFacts
<1> HIDE DEF r, v
<1> QED BY <1>6, <1>8, <1>9, <1>10 DEF v, q

----------------------------------------------------------------------------
(* The theorems. *)

\* The invariant holds in every reachable state: the ranges of the
\* variables, what start-up has acquired, which descriptors are open, and
\* how long the server has slept since it was told to stop.
THEOREM ServerInvariant == Spec => []ServerInv
<1>1. Init => ServerInv
  BY InitInv
<1>2. ServerInv /\ [Next]_vars => ServerInv'
  BY StepInv
<1> QED BY <1>1, <1>2, PTL DEF Spec

\* Type correctness of main()'s locals, the flags and the sockets.
THEOREM TypeCorrect == Spec => []TypeOK
<1>1. ServerInv => TypeOK
  BY DEF ServerInv
<1> QED BY <1>1, ServerInvariant, PTL

\* For every poll timeout and however datagrams and signals are timed, a
\* server told to stop sleeps at most one timeout per socket it opened.
THEOREM ShutdownPrompt == Spec => []ShutdownIsPrompt
<1>1. ServerInv => ShutdownIsPrompt
  BY DEF ServerInv, LagInv
<1> QED BY <1>1, ServerInvariant, PTL

\* main() returns only with every descriptor closed and the log released,
\* whichever step of start-up fails.
THEOREM NoLeak == Spec => []NothingLeaks
<1>1. ServerInv => NothingLeaks
  BY DEF ServerInv, DescriptorInv
<1> QED BY <1>1, ServerInvariant, PTL

\* For every configuration file, identity and question, an SRV record that
\* is sent names the machine's own host: the hosts agree, and an answer is
\* taken from the configuration.
THEOREM SrvRuntimeHost == Spec => []SrvNamesRuntimeHost
<1>1. Init => SrvNamesRuntimeHost
  BY DEF Init, SrvNamesRuntimeHost
<1>2. ServerInv /\ SrvNamesRuntimeHost /\ [Next]_vars => SrvNamesRuntimeHost'
  <2> SUFFICES ASSUME ServerInv, SrvNamesRuntimeHost, [Next]_vars
               PROVE  SrvNamesRuntimeHost'
    OBVIOUS
  <2>1. CASE UNCHANGED <<config, last>>
    BY <2>1 DEF SrvNamesRuntimeHost
  <2>2. CASE HandleDatagram
    <3>1. UNCHANGED config /\ HostsAgree
      BY <2>2 DEF HandleDatagram, ServerInv, StartupInv
    <3> DEFINE q == Head(Head(queue[cur]).questions)
    <3>2. CASE UNCHANGED last
      BY <3>1, <3>2, <2>1
    <3>3. CASE last'.reply = Answer(config, q)
      <4> DEFINE a == Answer(config, q).answers
      <4>1. ASSUME NEW i \in DOMAIN a, a[i].rr = "SRV"
            PROVE  a[i].host = Tokens(HostName(config.hostname))
        <5> HIDE DEF q, a
        <5>1. PICK k \in DOMAIN config.services : a[i] = SrvOf(config.services[k])
          BY <3>1, <4>1, AnswerSrv DEF HostsAgree, a
        <5> QED BY <3>1, <5>1 DEF HostsAgree, SrvOf, SrvRecord
      <4> HIDE DEF q
      <4> QED BY <3>1, <3>3, <4>1 DEF SrvNamesRuntimeHost
    <3> QED BY <2>2, <3>2, <3>3 DEF HandleDatagram
  <2>3. CASE LoadConfig
    BY <2>3 DEF LoadConfig, ServerInv, StartupInv, SrvNamesRuntimeHost
  <2> QED
    BY <2>1, <2>2, <2>3
    DEF Next, ServerStep, vars, LogInit, InstallHandlers, Listen, BeginPass, Shutdown,
        PollSleep, PollExpire, DatagramArrives, SignalKills, SignalBetween,
        SignalInPoll, procVars
<1> QED BY <1>1, <1>2, ServerInvariant, PTL DEF Spec

\* Whatever the configuration, the network and the question, a reply that
\* goes out carries a record named as the question asked, without the empty
\* pieces a decoder may leave in its name.
THEOREM RepliesAnswer == Spec => []RepliesAnswerTheQuestion
<1>1. Init => RepliesAnswerTheQuestion
  BY DEF Init, RepliesAnswerTheQuestion
<1>2. ServerInv /\ RepliesAnswerTheQuestion /\ [Next]_vars => RepliesAnswerTheQuestion'
  <2> SUFFICES ASSUME ServerInv, RepliesAnswerTheQuestion, [Next]_vars
               PROVE  RepliesAnswerTheQuestion'
    OBVIOUS
  <2>1. CASE UNCHANGED last
    BY <2>1 DEF RepliesAnswerTheQuestion
  <2>2. CASE HandleDatagram /\ last' # last
    <3> DEFINE d == Head(queue[cur])
               q == Head(d.questions)
    <3>1. PICK ok \in BOOLEAN :
            /\ d.questions # << >>
            /\ last' = [sock |-> cur, dgram |-> d, reply |-> Answer(config, q),
                        sent |-> ok /\ Answer(config, q).len > 0]
      BY <2>2 DEF HandleDatagram
    <3>2. config \in Config
      BY <2>2 DEF HandleDatagram, ServerInv, StartupInv, HostsAgree
    <3>3. q.name \in Name
      <4>1. d \in Datagrams
        BY <2>2 DEF ServerInv, TypeOK, SocketsTypeOK, HandleDatagram, Receive
      <4>2. d.questions \in Seq(Question)
        BY <4>1, ServerAssumption
      <4>3. q \in Question
        BY <3>1, <4>2
      <4>4. q \in [name : Name, qtype : QTypes]
        BY <4>3 DEF Question
      <4> HIDE DEF q
      <4> QED BY <4>4
    <3> HIDE DEF d, q
    <3>4. Answer(config, q).len > 0 =>
            LET a == Answer(config, q).answers IN
            \/ \E i \in DOMAIN a : NameMatches(a[i].name, Tokens(q.name))
            \/ AsksEnum(q) /\ a = << >>
      BY <3>2, <3>3, AnswerRelates
    <3>5. /\ last'.sent => Answer(config, q).len > 0
          /\ Head(last'.dgram.questions) = q
          /\ last'.reply.answers = Answer(config, q).answers
      BY <3>1 DEF q
    <3> DEFINE a == Answer(config, q)
    <3> HIDE DEF a
    <3>6. (\E i \in DOMAIN a.answers : NameMatches(a.answers[i].name, Tokens(q.name)))
            \/ (AsksEnum(q) /\ a.answers = << >>) \/ ~last'.sent
      BY <3>4, <3>5 DEF a
    <3>7. last'.reply.answers = a.answers
      BY <3>5 DEF a
    <3> QED BY <3>5, <3>6, <3>7 DEF RepliesAnswerTheQuestion
  <2> QED
    BY <2>1, <2>2
    DEF Next, ServerStep, vars, LogInit, LoadConfig, InstallHandlers, Listen, BeginPass,
        Shutdown, PollSleep, PollExpire, DatagramArrives, SignalKills, SignalBetween,
        SignalInPoll, procVars
<1> QED BY <1>1, <1>2, ServerInvariant, PTL DEF Spec

\* Whatever is configured, as long as every service is presentable, each
\* step of a discovery leads to the next.
THEOREM EnumeratedResolve == Spec => []EnumeratedTypesResolve
<1>1. ServerInv => EnumeratedTypesResolve
  <2> SUFFICES ASSUME ServerInv, config # None,
                      \A i \in DOMAIN config.services : Presentable(config.services[i]),
                      NEW e \in Range(EnumReply(config).answers)
               PROVE  \E r \in Range(Answer(config, [name |-> e.target, qtype |-> "PTR"]).answers) :
                        /\ r.rr = "PTR"
                        /\ \E srv \in Range(Answer(config, [name |-> r.target, qtype |-> "SRV"]).answers) :
                             srv.rr = "SRV" /\ NameMatches(srv.name, r.target)
    BY DEF EnumeratedTypesResolve
  <2>1. config \in Config
    BY DEF ServerInv, TypeOK
  <2> QED BY <2>1, DiscoveryCloses
<1> QED BY <1>1, ServerInvariant, PTL
=============================================================================
