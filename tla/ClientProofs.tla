---------------------------- MODULE ClientProofs ----------------------------
(***************************************************************************)
(* Theorems about Client, for every timeout, slice, capacity and network.  *)
(***************************************************************************)
EXTENDS Client, TableProofs, SequenceTheorems, TLAPS

\* Which descriptors are open.
DescriptorInv ==
  /\ pc = "log" => \A s \in Family : fd[s] = "none"
  /\ pc = "listen" => fd[V6] = "none" /\ (cur = V4 => fd[V4] = "none")
  /\ pc # "exited" => \A s \in Family : fd[s] # "closed"
  /\ pc = "log" => cur = V4
  /\ pc = "poll" => Open(cur)
  /\ pc \in {"send", "loop", "poll"} => \E s \in Family : Open(s)
  /\ NothingLeaks

\* There is room for an answer whenever a socket is polled.
RoomInv ==
  /\ pc = "poll" => Len(results) < MaxResults
  /\ ResultsFit

\* What was slept so far, against what has been taken off the budget.
Spent == Share(V4, Timeout - budget) + Share(V6, Timeout - budget)

BudgetInv ==
  /\ pc \in {"log", "listen", "send"} => clock = 0 /\ budget = Timeout
  /\ pc # "poll" => waited = 0
  /\ pc \notin {"poll", "exited"} => clock <= Spent
  /\ pc = "poll" /\ cur = V4 => clock <= Spent + waited
  /\ pc = "poll" /\ cur = V6 => clock <= Spent + Share(V4, Wait) + waited
  /\ WaitBounded

ClientInv == TypeOK /\ DescriptorInv /\ RoomInv /\ BudgetInv

----------------------------------------------------------------------------
\* The packet's answers fit in the room they are parsed into.
LEMMA ParseFits ==
  ASSUME NEW d \in Seq(Results), NEW rs \in Seq(Results), NEW room \in Nat
  PROVE  /\ rs \o ParseAnswers(d, room) \in Seq(Results)
         /\ Len(rs \o ParseAnswers(d, room)) <= Len(rs) + room
<1> DEFINE n == IF Len(d) < room THEN Len(d) ELSE room
<1>1. n \in 0..Len(d) /\ n <= room
  OBVIOUS
<1>2. SubSeq(d, 1, n) \in Seq(Results) /\ Len(SubSeq(d, 1, n)) = n
  <2>1. CASE n = 0
    BY <2>1, SubSeqEmpty, Len(<< >>) = 0, << >> \in Seq(Results)
  <2>2. CASE n # 0
    BY <1>1, <2>2, SubSeqProperties
  <2> QED BY <2>1, <2>2
<1> QED BY <1>1, <1>2, ConcatProperties DEF ParseAnswers

\* Closing the sockets keeps their types.
LEMMA CloseAllTypes ==
  ASSUME SocketsTypeOK, CloseAll
  PROVE  SocketsTypeOK' /\ waited' = 0
<1>1. fd' \in [Family -> {"none", "open", "closed"}]
  BY DEF SocketsTypeOK, CloseAll
<1>2. queue' \in [Family -> Seq(Datagrams)]
  <2>1. << >> \in Seq(Datagrams)
    OBVIOUS
  <2> QED BY <2>1 DEF CloseAll
<1>3. waited' = 0
  BY DEF CloseAll
<1> QED BY <1>1, <1>2, <1>3 DEF SocketsTypeOK

LEMMA InitInv == Init => ClientInv
<1> SUFFICES ASSUME Init PROVE ClientInv
  OBVIOUS
<1> USE ClientAssumption DEF Init, SocketsInit
<1>1. TypeOK
  <2>1. << >> \in Seq(Datagrams) /\ << >> \in Seq(Results)
    OBVIOUS
  <2>2. SocketsTypeOK
    BY <2>1 DEF SocketsTypeOK
  <2>3. waited <= Wait
    BY DEF Wait
  <2>4. budget \in 0..Timeout /\ clock \in Nat
    OBVIOUS
  <2> QED BY <2>1, <2>2, <2>3, <2>4 DEF TypeOK, Family
<1>2. DescriptorInv
  BY DEF DescriptorInv, NothingLeaks
<1>3. RoomInv
  BY DEF RoomInv, ResultsFit
<1>4. BudgetInv
  BY DEF BudgetInv, WaitBounded, Spent, Share
<1> QED BY <1>1, <1>2, <1>3, <1>4 DEF ClientInv

\* Every statement of the client and every move of its environment keeps it.
LEMMA StepInv == ClientInv /\ [Next]_vars => ClientInv'
<1> SUFFICES ASSUME ClientInv, [Next]_vars PROVE ClientInv'
  OBVIOUS
<1> USE SocketsAssumption, ClientAssumption
<1>1. CASE LogInit
  <2>1. TypeOK'
    BY <1>1 DEF ClientInv, TypeOK, SocketsTypeOK, DescriptorInv, Wait, LogInit, Quit, sockVars, Open, Family, V4, V6
  <2>2. DescriptorInv'
    BY <1>1 DEF ClientInv, DescriptorInv, NothingLeaks, TypeOK, SocketsTypeOK, LogInit, Quit, sockVars, Open, Family, V4, V6
  <2>3. RoomInv'
    BY <1>1 DEF ClientInv, RoomInv, ResultsFit, TypeOK, LogInit, Quit, sockVars, Open, Family, V4, V6
  <2>4. BudgetInv'
    BY <1>1 DEF ClientInv, BudgetInv, WaitBounded, Spent, Share, Wait, DescriptorInv, TypeOK, SocketsTypeOK, LogInit, Quit, sockVars, Open, Family, V4, V6
  <2> QED BY <2>1, <2>2, <2>3, <2>4 DEF ClientInv
<1>2. CASE Listen
  <2>1. TypeOK'
    BY <1>2 DEF ClientInv, TypeOK, SocketsTypeOK, DescriptorInv, Wait, Listen, Quit, CreateListener, sockVars, Open, Family, V4, V6
  <2>2. DescriptorInv'
    BY <1>2 DEF ClientInv, DescriptorInv, NothingLeaks, TypeOK, SocketsTypeOK, Listen, Quit, CreateListener, sockVars, Open, Family, V4, V6
  <2>3. RoomInv'
    BY <1>2 DEF ClientInv, RoomInv, ResultsFit, TypeOK, Listen, Quit, CreateListener, sockVars, Open, Family, V4, V6
  <2>4. BudgetInv'
    BY <1>2 DEF ClientInv, BudgetInv, WaitBounded, Spent, Share, Wait, DescriptorInv, TypeOK, SocketsTypeOK, Listen, Quit, CreateListener, sockVars, Open, Family, V4, V6
  <2> QED BY <2>1, <2>2, <2>3, <2>4 DEF ClientInv
<1>3. CASE BuildFails
  <2>1. TypeOK'
    <3>1. SocketsTypeOK' /\ waited' = 0
      BY <1>3, CloseAllTypes DEF ClientInv, TypeOK, BuildFails
    <3>2. waited' <= Wait'
      BY <1>3, <3>1 DEF ClientInv, TypeOK, BuildFails, Wait
    <3> QED BY <1>3, <3>1, <3>2 DEF ClientInv, TypeOK, BuildFails, Quit
  <2>2. DescriptorInv'
    BY <1>3 DEF ClientInv, DescriptorInv, NothingLeaks, TypeOK, SocketsTypeOK, BuildFails, Quit, CloseAll, sockVars, Open, Family, V4, V6
  <2>3. RoomInv'
    BY <1>3 DEF ClientInv, RoomInv, ResultsFit, TypeOK, BuildFails, Quit, CloseAll, sockVars, Open, Family, V4, V6
  <2>4. BudgetInv'
    BY <1>3 DEF ClientInv, BudgetInv, WaitBounded, Spent, Share, Wait, DescriptorInv, TypeOK, SocketsTypeOK, BuildFails, Quit, CloseAll, sockVars, Open, Family, V4, V6
  <2> QED BY <2>1, <2>2, <2>3, <2>4 DEF ClientInv
<1>4. CASE SendQuery
  <2>1. TypeOK'
    BY <1>4 DEF ClientInv, TypeOK, SocketsTypeOK, DescriptorInv, Wait, SendQuery, sockVars, Open, Family, V4, V6
  <2>2. DescriptorInv'
    BY <1>4 DEF ClientInv, DescriptorInv, NothingLeaks, TypeOK, SocketsTypeOK, SendQuery, sockVars, Open, Family, V4, V6
  <2>3. RoomInv'
    BY <1>4 DEF ClientInv, RoomInv, ResultsFit, TypeOK, SendQuery, sockVars, Open, Family, V4, V6
  <2>4. BudgetInv'
    BY <1>4 DEF ClientInv, BudgetInv, WaitBounded, Spent, Share, Wait, DescriptorInv, TypeOK, SocketsTypeOK, SendQuery, sockVars, Open, Family, V4, V6
  <2> QED BY <2>1, <2>2, <2>3, <2>4 DEF ClientInv
<1>5. CASE BeginPass
  <2>1. TypeOK'
    BY <1>5 DEF ClientInv, TypeOK, SocketsTypeOK, DescriptorInv, Wait, BeginPass, sockVars, Open, Family, V4, V6
  <2>2. DescriptorInv'
    BY <1>5 DEF ClientInv, DescriptorInv, NothingLeaks, TypeOK, SocketsTypeOK, BeginPass, sockVars, Open, Family, V4, V6
  <2>3. RoomInv'
    BY <1>5 DEF ClientInv, RoomInv, ResultsFit, TypeOK, BeginPass, sockVars, Open, Family, V4, V6
  <2>4. BudgetInv'
    BY <1>5 DEF ClientInv, BudgetInv, WaitBounded, Spent, Share, Wait, DescriptorInv, TypeOK, SocketsTypeOK, BeginPass, sockVars, Open, Family, V4, V6
  <2> QED BY <2>1, <2>2, <2>3, <2>4 DEF ClientInv
<1>6. CASE EndLoop
  <2>1. TypeOK'
    BY <1>6 DEF ClientInv, TypeOK, SocketsTypeOK, DescriptorInv, Wait, EndLoop, sockVars, Open, Family, V4, V6
  <2>2. DescriptorInv'
    BY <1>6 DEF ClientInv, DescriptorInv, NothingLeaks, TypeOK, SocketsTypeOK, EndLoop, sockVars, Open, Family, V4, V6
  <2>3. RoomInv'
    BY <1>6 DEF ClientInv, RoomInv, ResultsFit, TypeOK, EndLoop, sockVars, Open, Family, V4, V6
  <2>4. BudgetInv'
    BY <1>6 DEF ClientInv, BudgetInv, WaitBounded, Spent, Share, Wait, DescriptorInv, TypeOK, SocketsTypeOK, EndLoop, sockVars, Open, Family, V4, V6
  <2> QED BY <2>1, <2>2, <2>3, <2>4 DEF ClientInv
<1>7. CASE PollSleep
  <2>1. TypeOK'
    BY <1>7 DEF ClientInv, TypeOK, SocketsTypeOK, DescriptorInv, Wait, PollSleep, Sleep, sockVars, Open, Family, V4, V6
  <2>2. DescriptorInv'
    BY <1>7 DEF ClientInv, DescriptorInv, NothingLeaks, TypeOK, SocketsTypeOK, PollSleep, Sleep, sockVars, Open, Family, V4, V6
  <2>3. RoomInv'
    BY <1>7 DEF ClientInv, RoomInv, ResultsFit, TypeOK, PollSleep, Sleep, sockVars, Open, Family, V4, V6
  <2>4. BudgetInv'
    BY <1>7 DEF ClientInv, BudgetInv, WaitBounded, Spent, Share, Wait, DescriptorInv, TypeOK, SocketsTypeOK, PollSleep, Sleep, sockVars, Open, Family, V4, V6
  <2> QED BY <2>1, <2>2, <2>3, <2>4 DEF ClientInv
<1>8. CASE PollExpire
  <2>1. TypeOK'
    BY <1>8 DEF ClientInv, TypeOK, SocketsTypeOK, DescriptorInv, Wait, PollExpire, Expire, NextSocket, sockVars, Open, Family, V4, V6
  <2>2. DescriptorInv'
    BY <1>8 DEF ClientInv, DescriptorInv, NothingLeaks, TypeOK, SocketsTypeOK, PollExpire, Expire, NextSocket, sockVars, Open, Family, V4, V6
  <2>3. RoomInv'
    BY <1>8 DEF ClientInv, RoomInv, ResultsFit, TypeOK, PollExpire, Expire, NextSocket, sockVars, Open, Family, V4, V6
  <2>4. BudgetInv'
    BY <1>8 DEF ClientInv, BudgetInv, WaitBounded, Spent, Share, Wait, DescriptorInv, TypeOK, SocketsTypeOK, PollExpire, Expire, NextSocket, sockVars, Open, Family, V4, V6
  <2> QED BY <2>1, <2>2, <2>3, <2>4 DEF ClientInv
<1>9. CASE HandleDatagram
  <2> DEFINE d == Head(queue[cur])
  <2>1. /\ queue[cur] \in Seq(Datagrams) /\ d \in Datagrams /\ d \in Seq(Results)
        /\ Tail(queue[cur]) \in Seq(Datagrams)
    BY <1>9 DEF ClientInv, TypeOK, SocketsTypeOK, HandleDatagram, Receive
  <2>2. results' \in Seq(Results) /\ Len(results') <= MaxResults
    <3>1. results \in Seq(Results) /\ Len(results) <= MaxResults
      BY DEF ClientInv, TypeOK, RoomInv, ResultsFit
    <3>2. MaxResults - Len(results) \in Nat
      BY <3>1
    <3>3. results' = results \o ParseAnswers(d, MaxResults - Len(results))
      BY <1>9 DEF HandleDatagram
    <3> HIDE DEF d
    <3> QED BY <2>1, <3>1, <3>2, <3>3, ParseFits
  <2>3. TypeOK'
    <3>1. SocketsTypeOK'
      BY <1>9, <2>1 DEF ClientInv, TypeOK, SocketsTypeOK, HandleDatagram, Receive
    <3>2. heard' \in Seq(Results)
      <4>1. heard \in Seq(Results) /\ heard' = heard \o d
        BY <1>9 DEF ClientInv, TypeOK, HandleDatagram
      <4> HIDE DEF d
      <4> QED BY <2>1, <4>1
    <3>3. waited' = 0 /\ budget' \in 0..Timeout /\ cur' \in Family /\ pc' \in {"poll", "loop"}
      BY <1>9 DEF ClientInv, TypeOK, HandleDatagram, Receive, NextSocket, Wait, Family
    <3>4. waited' <= Wait'
      BY <3>3 DEF Wait
    <3> QED BY <1>9, <2>2, <3>1, <3>2, <3>3, <3>4 DEF ClientInv, TypeOK, HandleDatagram
  <2>4. DescriptorInv'
    BY <1>9 DEF ClientInv, DescriptorInv, NothingLeaks, HandleDatagram, Receive, NextSocket,
                Open, Family, V4, V6
  <2>5. RoomInv'
    BY <1>9, <2>2 DEF ClientInv, TypeOK, RoomInv, ResultsFit, HandleDatagram, NextSocket, V4, V6
  <2>6. BudgetInv'
    <3> HIDE DEF d
    <3>1. /\ waited' = 0 /\ clock' = clock /\ fd' = fd /\ pc = "poll"
          /\ \/ cur = V4 /\ cur' = V6 /\ pc' = "poll" /\ budget' = budget
             \/ pc' = "loop" /\ budget' = budget - Wait /\ cur' = cur
      BY <1>9 DEF HandleDatagram, Receive, NextSocket
    <3>2. CASE cur = V4 /\ cur' = V6 /\ pc' = "poll" /\ budget' = budget
      BY <3>1, <3>2, SMTT(30)
      DEF ClientInv, BudgetInv, WaitBounded, Spent, Share, Wait, DescriptorInv,
          TypeOK, SocketsTypeOK, Open, Family, V4, V6
    <3>3. CASE pc' = "loop" /\ budget' = budget - Wait /\ cur' = cur
      BY <3>1, <3>3, SMTT(30)
      DEF ClientInv, BudgetInv, WaitBounded, Spent, Share, Wait, DescriptorInv,
          TypeOK, SocketsTypeOK, Open, Family, V4, V6
    <3> QED BY <3>1, <3>2, <3>3
  <2> QED BY <2>3, <2>4, <2>5, <2>6 DEF ClientInv
<1>10. CASE Report
  <2>1. TypeOK'
    <3>1. SocketsTypeOK' /\ waited' = 0
      BY <1>10, CloseAllTypes DEF ClientInv, TypeOK, Report
    <3>2. waited' <= Wait'
      BY <1>10, <3>1 DEF ClientInv, TypeOK, Report, Wait
    <3> QED BY <1>10, <3>1, <3>2 DEF ClientInv, TypeOK, Report, Quit
  <2>2. DescriptorInv'
    BY <1>10 DEF ClientInv, DescriptorInv, NothingLeaks, TypeOK, SocketsTypeOK, Report, Quit, CloseAll, sockVars, Open, Family, V4, V6
  <2>3. RoomInv'
    BY <1>10 DEF ClientInv, RoomInv, ResultsFit, TypeOK, Report, Quit, CloseAll, sockVars, Open, Family, V4, V6
  <2>4. BudgetInv'
    BY <1>10 DEF ClientInv, BudgetInv, WaitBounded, Spent, Share, Wait, DescriptorInv, TypeOK, SocketsTypeOK, Report, Quit, CloseAll, sockVars, Open, Family, V4, V6
  <2> QED BY <2>1, <2>2, <2>3, <2>4 DEF ClientInv
<1>11. CASE DatagramArrives
  <2>1. TypeOK'
    BY <1>11 DEF ClientInv, TypeOK, SocketsTypeOK, DescriptorInv, Wait, DatagramArrives, Arrive, procVars, sockVars, Open, Family, V4, V6
  <2>2. DescriptorInv'
    BY <1>11 DEF ClientInv, DescriptorInv, NothingLeaks, TypeOK, SocketsTypeOK, DatagramArrives, Arrive, procVars, sockVars, Open, Family, V4, V6
  <2>3. RoomInv'
    BY <1>11 DEF ClientInv, RoomInv, ResultsFit, TypeOK, DatagramArrives, Arrive, procVars, sockVars, Open, Family, V4, V6
  <2>4. BudgetInv'
    BY <1>11 DEF ClientInv, BudgetInv, WaitBounded, Spent, Share, Wait, DescriptorInv, TypeOK, SocketsTypeOK, DatagramArrives, Arrive, procVars, sockVars, Open, Family, V4, V6
  <2> QED BY <2>1, <2>2, <2>3, <2>4 DEF ClientInv
<1>12. CASE SignalKills
  <2>1. TypeOK'
    <3>1. SocketsTypeOK' /\ waited' = 0
      BY <1>12, CloseAllTypes DEF ClientInv, TypeOK, SignalKills
    <3>2. waited' <= Wait'
      BY <1>12, <3>1 DEF ClientInv, TypeOK, SignalKills, Wait
    <3> QED BY <1>12, <3>1, <3>2 DEF ClientInv, TypeOK, SignalKills, Quit
  <2>2. DescriptorInv'
    BY <1>12 DEF ClientInv, DescriptorInv, NothingLeaks, TypeOK, SocketsTypeOK, SignalKills, Quit, CloseAll, sockVars, Open, Family, V4, V6
  <2>3. RoomInv'
    BY <1>12 DEF ClientInv, RoomInv, ResultsFit, TypeOK, SignalKills, Quit, CloseAll, sockVars, Open, Family, V4, V6
  <2>4. BudgetInv'
    BY <1>12 DEF ClientInv, BudgetInv, WaitBounded, Spent, Share, Wait, DescriptorInv, TypeOK, SocketsTypeOK, SignalKills, Quit, CloseAll, sockVars, Open, Family, V4, V6
  <2> QED BY <2>1, <2>2, <2>3, <2>4 DEF ClientInv
<1>13. CASE UNCHANGED vars
  <2>1. TypeOK'
    BY <1>13 DEF vars, sockVars, ClientInv, TypeOK, SocketsTypeOK, Wait
  <2>2. DescriptorInv'
    BY <1>13 DEF vars, sockVars, ClientInv, DescriptorInv, NothingLeaks, Open
  <2>3. RoomInv'
    BY <1>13 DEF vars, ClientInv, RoomInv, ResultsFit
  <2>4. BudgetInv'
    BY <1>13 DEF vars, sockVars, ClientInv, BudgetInv, WaitBounded, Spent, Share, Wait
  <2> QED BY <2>1, <2>2, <2>3, <2>4 DEF ClientInv
<1> QED BY <1>1, <1>2, <1>3, <1>4, <1>5, <1>6, <1>7, <1>8, <1>9, <1>10, <1>11, <1>12, <1>13 DEF Next, ClientStep

----------------------------------------------------------------------------
(* The theorems. *)

\* The invariant holds in every reachable state: ranges, descriptors, room
\* for answers while polling, and the sleep paid for by the budget.
THEOREM ClientInvariant == Spec => []ClientInv
<1>1. Init => ClientInv
  BY InitInv
<1>2. ClientInv /\ [Next]_vars => ClientInv'
  BY StepInv
<1> QED BY <1>1, <1>2, PTL DEF Spec

\* Type correctness of main()'s locals and the sockets.
THEOREM ClientTypeCorrect == Spec => []TypeOK
<1>1. ClientInv => TypeOK
  BY DEF ClientInv
<1> QED BY <1>1, ClientInvariant, PTL

\* For every capacity and every run of packets, parsing into the tail of the
\* array of results never passes its end.
THEOREM ArrayNeverOverrun == Spec => []ResultsFit
<1>1. ClientInv => ResultsFit
  BY DEF ClientInv, RoomInv
<1> QED BY <1>1, ClientInvariant, PTL

\* For every timeout and slice, and however replies are timed, the client
\* sleeps at most its timeout once per socket it opened.
THEOREM ClientWaitBounded == Spec => []WaitBounded
<1>1. ClientInv => WaitBounded
  BY DEF ClientInv, BudgetInv
<1> QED BY <1>1, ClientInvariant, PTL

\* Whichever step fails, and if it is killed, the client leaves no
\* descriptor open and the log released.
THEOREM ClientNoLeak == Spec => []NothingLeaks
<1>1. ClientInv => NothingLeaks
  BY DEF ClientInv, DescriptorInv
<1> QED BY <1>1, ClientInvariant, PTL

----------------------------------------------------------------------------
(* What the table shows. *)

\* The array holds the answers read, up to its capacity.
HeardInv ==
  /\ pc # "exited" => rows = << >>
  /\ pc \in {"log", "listen", "send"} => heard = << >>
  /\ results = First(heard, MaxResults)
  /\ TableIsWhatWasHeard

\* The first members of a sequence, up to a number.
LEMMA FirstFacts ==
  ASSUME NEW d \in Seq(Results), NEW max \in Nat
  PROVE  LET n == IF Len(d) < max THEN Len(d) ELSE max IN
         /\ n \in 0..Len(d)
         /\ First(d, max) \in Seq(Results)
         /\ Len(First(d, max)) = n
         /\ \A i \in 1..n : First(d, max)[i] = d[i]
<1> DEFINE n == IF Len(d) < max THEN Len(d) ELSE max
<1>1. n \in 0..Len(d) /\ Len(d) \in Nat
  OBVIOUS
<1>2. First(d, max) = SubSeq(d, 1, n)
  BY DEF First
<1> HIDE DEF n
<1>3. SubSeq(d, 1, n) \in Seq(Results) /\ Len(SubSeq(d, 1, n)) = n /\ \A i \in 1..n : SubSeq(d, 1, n)[i] = d[i]
  <2>1. CASE n = 0
    BY <2>1, SubSeqEmpty, Len(<< >>) = 0, << >> \in Seq(Results)
  <2>2. CASE n # 0
    BY <1>1, <2>2, SubSeqProperties
  <2> QED BY <2>1, <2>2
<1> QED BY <1>1, <1>2, <1>3 DEF n

\* Parsing into the tail continues the first answers.
LEMMA FirstGoesOn ==
  ASSUME NEW s \in Seq(Results), NEW d \in Seq(Results), NEW max \in Nat, Len(s) < max
  PROVE  First(s \o d, max) = s \o First(d, max - Len(s))
<1> DEFINE u == s \o d
           room == max - Len(s)
           p == First(d, room)
           w == s \o p
           n == IF Len(d) < room THEN Len(d) ELSE room
<1>1. Len(s) \in Nat /\ Len(d) \in Nat /\ room \in Nat /\ Len(s) + room = max
  OBVIOUS
<1>2. /\ u \in Seq(Results) /\ Len(u) = Len(s) + Len(d)
      /\ \A i \in 1..(Len(s) + Len(d)) : u[i] = IF i <= Len(s) THEN s[i] ELSE d[i - Len(s)]
  BY ConcatProperties
<1>3. n \in 0..Len(d) /\ p \in Seq(Results) /\ Len(p) = n /\ \A i \in 1..n : p[i] = d[i]
  <2> HIDE DEF room
  <2> QED BY <1>1, FirstFacts
<1> HIDE DEF p
<1>4. /\ w \in Seq(Results) /\ Len(w) = Len(s) + n
      /\ \A i \in 1..(Len(s) + n) : w[i] = IF i <= Len(s) THEN s[i] ELSE p[i - Len(s)]
  <2> HIDE DEF n
  <2> QED BY <1>3, ConcatProperties
<1> HIDE DEF u, w
<1> DEFINE m == IF Len(u) < max THEN Len(u) ELSE max
<1>5. m = Len(s) + n
  <2> HIDE DEF room
  <2> QED BY <1>1, <1>2
<1>6. First(u, max) \in Seq(Results) /\ Len(First(u, max)) = m /\ \A i \in 1..m : First(u, max)[i] = u[i]
  BY <1>2, FirstFacts
<1> HIDE DEF m, n, room
<1>7. ASSUME NEW i \in 1..(Len(s) + n) PROVE u[i] = w[i]
  <2>0. i \in 1..(Len(s) + Len(d))
    BY <1>1, <1>3
  <2>1. CASE i <= Len(s)
    BY <1>2, <1>4, <2>0, <2>1
  <2>2. CASE ~(i <= Len(s))
    <3>1. i - Len(s) \in 1..n
      BY <1>1, <1>3, <2>2
    <3> QED BY <1>2, <1>3, <1>4, <2>0, <2>2, <3>1
  <2> QED BY <2>1, <2>2
<1>8. First(u, max) = w
  <2>1. \A i \in 1..Len(w) : First(u, max)[i] = w[i]
    BY <1>4, <1>5, <1>6, <1>7
  <2> QED BY <1>4, <1>5, <1>6, <2>1, SeqEqual
<1> QED BY <1>8 DEF u, w, p, room

\* What is not full holds everything.
LEMMA FirstIsAll ==
  ASSUME NEW s \in Seq(Results), NEW max \in Nat, Len(First(s, max)) < max
  PROVE  First(s, max) = s
<1>1. Len(s) < max
  BY FirstFacts
<1>2. First(s, max) = SubSeq(s, 1, Len(s))
  BY <1>1 DEF First
<1> QED BY <1>2, SubSeqFull

LEMMA HeardInit == Init => HeardInv
<1> SUFFICES ASSUME Init PROVE HeardInv
  OBVIOUS
<1> USE ClientAssumption
<1>1. First(<< >>, MaxResults) = << >>
  <2>1. << >> \in Seq(Results) /\ Len(<< >>) = 0 /\ 0 < MaxResults
    OBVIOUS
  <2>2. First(<< >>, MaxResults) = SubSeq(<< >>, 1, 0)
    BY <2>1 DEF First
  <2> QED BY <2>1, <2>2, SubSeqEmpty
<1> QED BY <1>1 DEF Init, HeardInv, TableIsWhatWasHeard

LEMMA HeardStep == ClientInv /\ HeardInv /\ [Next]_vars => HeardInv'
<1> SUFFICES ASSUME ClientInv, HeardInv, [Next]_vars PROVE HeardInv'
  OBVIOUS
<1> USE ClientAssumption
<1>1. ASSUME pc' # "exited", pc # "exited", UNCHANGED <<results, heard, rows>>,
             pc' \in {"log", "listen", "send"} => pc \in {"log", "listen", "send"}
      PROVE  HeardInv'
  BY <1>1 DEF HeardInv, TableIsWhatWasHeard, First
<1>2. ASSUME pc' = "exited", pc \in {"log", "listen", "send"}, exit' = 1,
             UNCHANGED <<results, heard, rows>>
      PROVE  HeardInv'
  <2>1. rows' = << >> /\ heard' = << >>
    BY <1>2 DEF HeardInv
  <2>2. results' = First(heard', MaxResults)
    BY <1>2 DEF HeardInv
  <2>3. results' = << >>
    <3>1. results' \in Seq(Results)
      BY <1>2 DEF ClientInv, TypeOK
    <3>2. Len(results') = 0
      <4>1. << >> \in Seq(Results) /\ Len(<< >>) = 0 /\ ~(0 < 0) /\ MaxResults \in Nat
        OBVIOUS
      <4>2. \A k \in 0..0 : k = 0
        OBVIOUS
      <4>3. LET n == IF Len(<< >>) < MaxResults THEN Len(<< >>) ELSE MaxResults IN
            n \in 0..0 /\ Len(First(<< >>, MaxResults)) = n
        BY <4>1, FirstFacts
      <4> QED BY <2>1, <2>2, <4>2, <4>3
    <3> QED BY <3>1, <3>2
  <2>4. IsInjective(rows')
    BY <2>1 DEF IsInjective
  <2>5. TableIsWhatWasHeard'
    BY <1>2, <2>1, <2>2, <2>3, <2>4 DEF TableIsWhatWasHeard
  <2> QED BY <1>2, <2>1, <2>2, <2>5 DEF HeardInv
<1>3. CASE LogInit
  BY <1>1, <1>2, <1>3 DEF LogInit, Quit
<1>4. CASE Listen
  BY <1>1, <1>2, <1>4 DEF Listen, Quit
<1>5. CASE BuildFails
  BY <1>1, <1>2, <1>5 DEF BuildFails, Quit
<1>6. CASE SendQuery
  BY <1>1, <1>6 DEF SendQuery
<1>7. CASE BeginPass \/ EndLoop \/ PollSleep \/ PollExpire
  BY <1>1, <1>7 DEF BeginPass, EndLoop, PollSleep, PollExpire, NextSocket
<1>8. CASE HandleDatagram
  <2> DEFINE d == Head(queue[cur])
             room == MaxResults - Len(results)
  <2>1. d \in Datagrams /\ d \in Seq(Results)
    BY <1>8 DEF ClientInv, TypeOK, SocketsTypeOK, HandleDatagram, Receive
  <2>2. heard \in Seq(Results) /\ Len(results) < MaxResults
    BY <1>8 DEF ClientInv, TypeOK, RoomInv, HandleDatagram
  <2>3. /\ results' = results \o ParseAnswers(d, room) /\ heard' = heard \o d
        /\ pc = "poll" /\ pc' \in {"poll", "loop"} /\ rows' = rows
    BY <1>8 DEF HandleDatagram, NextSocket
  <2>4. results = heard
    BY <2>2, FirstIsAll DEF HeardInv
  <2>5. ParseAnswers(d, room) = First(d, MaxResults - Len(heard))
    BY <2>4 DEF ParseAnswers, First
  <2> HIDE DEF d, room
  <2>6. results' = First(heard', MaxResults)
    BY <2>1, <2>2, <2>3, <2>4, <2>5, FirstGoesOn
  <2> QED BY <2>3, <2>6 DEF HeardInv, TableIsWhatWasHeard
<1>9. CASE Report
  <2>1. /\ rows' = Deduplicate(results) /\ UNCHANGED <<results, heard>>
        /\ pc = "report" /\ pc' = "exited" /\ exit' = IF rows' = << >> THEN 1 ELSE 0
    BY <1>9 DEF Report, Quit
  <2>2. ToSet(rows') = ToSet(results) /\ IsInjective(rows')
    BY <2>1, DeduplicateExact DEF ClientInv, TypeOK
  <2>3. results' = First(heard', MaxResults)
    BY <2>1 DEF HeardInv
  <2>4. TableIsWhatWasHeard'
    BY <2>1, <2>2, <2>3 DEF TableIsWhatWasHeard
  <2> QED BY <2>1, <2>3, <2>4 DEF HeardInv
<1>10. CASE DatagramArrives
  BY <1>10 DEF DatagramArrives, procVars, HeardInv, TableIsWhatWasHeard, First
<1>11. CASE SignalKills
  BY <1>11 DEF SignalKills, Quit, HeardInv, TableIsWhatWasHeard, First
<1>12. CASE UNCHANGED vars
  BY <1>12 DEF vars, HeardInv, TableIsWhatWasHeard, First
<1> QED BY <1>3, <1>4, <1>5, <1>6, <1>7, <1>8, <1>9, <1>10, <1>11, <1>12 DEF Next, ClientStep

\* For every network, every capacity and every number of datagrams, the
\* table the client prints has the first answers it has read, as many as
\* its array holds, and none twice; status 0 says that there are some.
THEOREM ClientTableExact == Spec => []TableIsWhatWasHeard
<1>1. Init => HeardInv
  BY HeardInit
<1>2. ClientInv /\ HeardInv /\ [Next]_vars => HeardInv'
  BY HeardStep
<1>3. HeardInv => TableIsWhatWasHeard
  BY DEF HeardInv
<1> QED BY <1>1, <1>2, <1>3, ClientInvariant, PTL DEF Spec
=============================================================================
