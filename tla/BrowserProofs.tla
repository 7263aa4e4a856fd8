---------------------------- MODULE BrowserProofs ----------------------------
(***************************************************************************)
(* Theorems about Browser, for every network, every timeout and interval,  *)
(* and arrays of any size.                                                 *)
(***************************************************************************)
EXTENDS Browser, TableProofs

\* The names a row may carry in its instance.
Instances == {r.instance : r \in Rows}

\* The arrays: rows collected and types to ask for.
ArraysInv ==
  /\ results \in Seq(Rows) /\ Len(results) <= MaxResults /\ Distinct(results)
  /\ types \in Seq(Instances)

\* Which descriptors are open.
DescriptorInv ==
  /\ pc \in {"log", "handlers"} => \A s \in Family : fd[s] = "none"
  /\ pc \in {"log", "handlers"} => cur = V4 /\ ~handling
  /\ ~handling => ~terminate
  /\ pc = "listen" => fd[V6] = "none" /\ (cur = V4 => fd[V4] = "none")
  /\ pc # "exited" => \A s \in Family : fd[s] # "closed"
  /\ pc = "poll" => Open(cur)
  /\ pc \notin {"log", "handlers", "listen", "exited"} => \E s \in Family : Open(s)
  /\ NothingLeaks

BrowserInv == TypeOK /\ ArraysInv /\ DescriptorInv

----------------------------------------------------------------------------
\* A packet's rows are cut to the array they are parsed into.
LEMMA ParsedRows ==
  ASSUME NEW d \in Seq(Rows)
  PROVE  ParseAnswers(d) \in Seq(Rows)
<1> DEFINE n == IF Len(d) < PacketCap THEN Len(d) ELSE PacketCap
<1>1. n \in 0..Len(d)
  BY BrowserAssumption
<1>2. SubSeq(d, 1, n) \in Seq(Rows)
  <2> HIDE DEF n
  <2>1. CASE n = 0
    BY <2>1, SubSeqEmpty, << >> \in Seq(Rows)
  <2>2. CASE n # 0
    BY <1>1, <2>2, SubSeqProperties
  <2> QED BY <2>1, <2>2
<1> QED BY <1>2 DEF ParseAnswers

\* Closing the sockets keeps their types.
LEMMA CloseAllTypes ==
  ASSUME SocketsTypeOK, CloseAll
  PROVE  SocketsTypeOK' /\ waited' = 0
<1>1. fd' \in [Family -> {"none", "open", "closed"}]
  BY DEF SocketsTypeOK, CloseAll
<1>2. queue' \in [Family -> Seq(Datagrams)]
  <2>1. << >> \in Seq(Datagrams)
    OBVIOUS
  <2> QED BY <2>1 DEF CloseAll
<1>3. waited' = 0
  BY DEF CloseAll
<1> QED BY <1>1, <1>2, <1>3 DEF SocketsTypeOK

LEMMA InitInv == Init => BrowserInv
<1> SUFFICES ASSUME Init PROVE BrowserInv
  OBVIOUS
<1> USE BrowserAssumption DEF Init, SocketsInit
<1>1. SocketsTypeOK
  <2>1. << >> \in Seq(Datagrams)
    OBVIOUS
  <2> QED BY <2>1 DEF SocketsTypeOK
<1>2. Len(types) = 0 /\ Len(results) = 0 /\ types \in Seq(Instances) /\ results \in Seq(Rows)
  OBVIOUS
<1>3. TypeOK
  <2>1. waited <= Slice /\ Len(types) <= MaxTypes /\ idx \in 0..Len(types) /\ remaining \in 0..Interval
    BY <1>2
  <2>2. cur \in Family
    BY DEF Family
  <2> QED BY <1>1, <2>1, <2>2 DEF TypeOK
<1>4. ArraysInv
  BY <1>2 DEF ArraysInv, Distinct
<1>5. DescriptorInv
  BY DEF DescriptorInv, NothingLeaks
<1> QED BY <1>3, <1>4, <1>5 DEF BrowserInv

\* Every statement of the browser and every move of its environment keeps it.
LEMMA StepInv == BrowserInv /\ [Next]_vars => BrowserInv'
<1> SUFFICES ASSUME BrowserInv, [Next]_vars PROVE BrowserInv'
  OBVIOUS
<1> USE SocketsAssumption, BrowserAssumption
<1>1. CASE LogInit
  <2>1. TypeOK'
    BY <1>1 DEF BrowserInv, TypeOK, SocketsTypeOK, Wait, LogInit, Quit, flags, cycle, history, sockVars, Open, Family, V4, V6
  <2>2. ArraysInv'
    BY <1>1 DEF BrowserInv, ArraysInv, Distinct, LogInit, Quit, flags, cycle, history
  <2>3. DescriptorInv'
    BY <1>1 DEF BrowserInv, DescriptorInv, NothingLeaks, TypeOK, SocketsTypeOK, LogInit, Quit, flags, cycle, history, sockVars, Open, Family, V4, V6
  <2> QED BY <2>1, <2>2, <2>3 DEF BrowserInv
<1>2. CASE InstallHandlers
  <2>1. TypeOK'
    BY <1>2 DEF BrowserInv, TypeOK, SocketsTypeOK, Wait, InstallHandlers, Quit, flags, cycle, history, sockVars, Open, Family, V4, V6
  <2>2. ArraysInv'
    BY <1>2 DEF BrowserInv, ArraysInv, Distinct, InstallHandlers, Quit, flags, cycle, history
  <2>3. DescriptorInv'
    BY <1>2 DEF BrowserInv, DescriptorInv, NothingLeaks, TypeOK, SocketsTypeOK, InstallHandlers, Quit, flags, cycle, history, sockVars, Open, Family, V4, V6
  <2> QED BY <2>1, <2>2, <2>3 DEF BrowserInv
<1>3. CASE Listen
  <2>1. TypeOK'
    BY <1>3 DEF BrowserInv, TypeOK, SocketsTypeOK, Wait, Listen, Quit, CreateListener, flags, cycle, history, sockVars, Open, Family, V4, V6
  <2>2. ArraysInv'
    BY <1>3 DEF BrowserInv, ArraysInv, Distinct, Listen, Quit, CreateListener, flags, cycle, history
  <2>3. DescriptorInv'
    BY <1>3 DEF BrowserInv, DescriptorInv, NothingLeaks, TypeOK, SocketsTypeOK, Listen, Quit, CreateListener, flags, cycle, history, sockVars, Open, Family, V4, V6
  <2> QED BY <2>1, <2>2, <2>3 DEF BrowserInv
<1>4. CASE BeginCycle
  <2>1. TypeOK'
    BY <1>4 DEF BrowserInv, TypeOK, SocketsTypeOK, Wait, BeginCycle, flags, cycle, history, sockVars, Open, Family, V4, V6
  <2>2. ArraysInv'
    BY <1>4 DEF BrowserInv, ArraysInv, Distinct, BeginCycle, flags, cycle, history
  <2>3. DescriptorInv'
    BY <1>4 DEF BrowserInv, DescriptorInv, NothingLeaks, TypeOK, SocketsTypeOK, BeginCycle, flags, cycle, history, sockVars, Open, Family, V4, V6
  <2> QED BY <2>1, <2>2, <2>3 DEF BrowserInv
<1>5. CASE SendQuery
  <2>1. TypeOK'
    BY <1>5 DEF BrowserInv, TypeOK, SocketsTypeOK, Wait, SendQuery, flags, cycle, history, sockVars, Open, Family, V4, V6
  <2>2. ArraysInv'
    BY <1>5 DEF BrowserInv, ArraysInv, Distinct, SendQuery, flags, cycle, history
  <2>3. DescriptorInv'
    BY <1>5 DEF BrowserInv, DescriptorInv, NothingLeaks, TypeOK, SocketsTypeOK, SendQuery, flags, cycle, history, sockVars, Open, Family, V4, V6
  <2> QED BY <2>1, <2>2, <2>3 DEF BrowserInv
<1>51. CASE SkipType
  <2>0. UNCHANGED types /\ IF idx < Len(types) THEN idx' = idx + 1 /\ pc' = "query"
        ELSE pc' = "endcycle" /\ UNCHANGED idx
    BY <1>51 DEF SkipType, NextType
  <2>1. TypeOK'
    BY <1>51, <2>0 DEF BrowserInv, TypeOK, SocketsTypeOK, SkipType, flags, history, sockVars
  <2>2. ArraysInv'
    BY <1>51, <2>0 DEF BrowserInv, ArraysInv, Distinct, SkipType
  <2>3. DescriptorInv'
    BY <1>51, <2>0 DEF BrowserInv, DescriptorInv, NothingLeaks, TypeOK, SocketsTypeOK, SkipType, flags, sockVars, Open, Family, V4, V6
  <2> QED BY <2>1, <2>2, <2>3 DEF BrowserInv
<1>6. CASE EndReceive
  <2>0. types' \in Seq(Instances) /\ Len(types') <= MaxTypes /\ Len(types') \in Nat /\ idx \in 0..Len(types')
    <3>1. CASE idx = 0
      <4>1. results \in Seq(Rows) /\ types' = ServiceTypes(results, MaxTypes)
        BY <1>6, <3>1 DEF BrowserInv, ArraysInv, EndReceive
      <4>2. Len(results) \in Nat /\ \A k \in 1..Len(results) : results[k].instance \in Instances
        BY <4>1 DEF Instances
      <4>3. TypesFound(Instances, types', MaxTypes, results, Len(results))
        BY <4>1, <4>2, ServiceTypesFound
      <4> QED BY <3>1, <4>3 DEF TypesFound
    <3>2. CASE idx # 0
      BY <1>6, <3>2 DEF BrowserInv, ArraysInv, TypeOK, EndReceive
    <3> QED BY <3>1, <3>2
  <2>1. TypeOK'
    BY <1>6, <2>0 DEF BrowserInv, TypeOK, SocketsTypeOK, EndReceive, NextType, flags, history, sockVars
  <2>2. ArraysInv'
    BY <1>6, <2>0 DEF BrowserInv, ArraysInv, Distinct, EndReceive, NextType, flags, history
  <2>3. DescriptorInv'
    BY <1>6 DEF BrowserInv, DescriptorInv, NothingLeaks, TypeOK, SocketsTypeOK, EndReceive, NextType, flags, cycle, history, sockVars, Open, Family, V4, V6
  <2> QED BY <2>1, <2>2, <2>3 DEF BrowserInv
<1>7. CASE EndCycle
  <2>1. TypeOK'
    BY <1>7 DEF BrowserInv, TypeOK, SocketsTypeOK, Wait, EndCycle, flags, cycle, history, sockVars, Open, Family, V4, V6
  <2>2. ArraysInv'
    BY <1>7 DEF BrowserInv, ArraysInv, Distinct, EndCycle, flags, cycle, history
  <2>3. DescriptorInv'
    BY <1>7 DEF BrowserInv, DescriptorInv, NothingLeaks, TypeOK, SocketsTypeOK, EndCycle, flags, cycle, history, sockVars, Open, Family, V4, V6
  <2> QED BY <2>1, <2>2, <2>3 DEF BrowserInv
<1>8. CASE Stop
  <2>1. TypeOK'
    BY <1>8 DEF BrowserInv, TypeOK, SocketsTypeOK, Wait, Stop, flags, cycle, history, sockVars, Open, Family, V4, V6
  <2>2. ArraysInv'
    BY <1>8 DEF BrowserInv, ArraysInv, Distinct, Stop, flags, cycle, history
  <2>3. DescriptorInv'
    BY <1>8 DEF BrowserInv, DescriptorInv, NothingLeaks, TypeOK, SocketsTypeOK, Stop, flags, cycle, history, sockVars, Open, Family, V4, V6
  <2> QED BY <2>1, <2>2, <2>3 DEF BrowserInv
<1>9. CASE Report
  <2>1. TypeOK'
    <3>1. SocketsTypeOK' /\ waited' = 0
      BY <1>9, CloseAllTypes DEF BrowserInv, TypeOK, Report
    <3>2. pc' = "exited" /\ exit' = 0 /\ logOpen' = FALSE
      BY <1>9 DEF Report, Quit
    <3>3. UNCHANGED <<total, cur, handling, terminate, types, idx, remaining, elapsed, lag, clock>>
      BY <1>9 DEF Report, history
    <3>4. waited' <= Slice
      BY <3>1
    <3>5. Len(types') <= MaxTypes /\ idx' \in 0..Len(types') /\ remaining' \in 0..Interval
      BY <3>3 DEF BrowserInv, TypeOK
    <3> QED BY <3>1, <3>2, <3>3, <3>4, <3>5 DEF BrowserInv, TypeOK
  <2>2. ArraysInv'
    BY <1>9 DEF BrowserInv, ArraysInv, Distinct, Report, Quit, CloseAll, flags, cycle, history
  <2>3. DescriptorInv'
    BY <1>9 DEF BrowserInv, DescriptorInv, NothingLeaks, TypeOK, SocketsTypeOK, Report, Quit, CloseAll, flags, cycle, history, sockVars, Open, Family, V4, V6
  <2> QED BY <2>1, <2>2, <2>3 DEF BrowserInv
<1>10. CASE BeginPass
  <2>1. TypeOK'
    BY <1>10 DEF BrowserInv, TypeOK, SocketsTypeOK, Wait, BeginPass, flags, cycle, history, sockVars, Open, Family, V4, V6
  <2>2. ArraysInv'
    BY <1>10 DEF BrowserInv, ArraysInv, Distinct, BeginPass, flags, cycle, history
  <2>3. DescriptorInv'
    BY <1>10 DEF BrowserInv, DescriptorInv, NothingLeaks, TypeOK, SocketsTypeOK, BeginPass, flags, cycle, history, sockVars, Open, Family, V4, V6
  <2> QED BY <2>1, <2>2, <2>3 DEF BrowserInv
<1>11. CASE PollSleep
  <2>1. TypeOK'
    BY <1>11 DEF BrowserInv, TypeOK, SocketsTypeOK, Wait, PollSleep, Sleep, flags, cycle, history, sockVars, Open, Family, V4, V6
  <2>2. ArraysInv'
    BY <1>11 DEF BrowserInv, ArraysInv, Distinct, PollSleep, Sleep, flags, cycle, history
  <2>3. DescriptorInv'
    BY <1>11 DEF BrowserInv, DescriptorInv, NothingLeaks, TypeOK, SocketsTypeOK, PollSleep, Sleep, flags, cycle, history, sockVars, Open, Family, V4, V6
  <2> QED BY <2>1, <2>2, <2>3 DEF BrowserInv
<1>12. CASE PollExpire
  <2>1. TypeOK'
    BY <1>12 DEF BrowserInv, TypeOK, SocketsTypeOK, Wait, PollExpire, Expire, NextSocket, flags, cycle, history, sockVars, Open, Family, V4, V6
  <2>2. ArraysInv'
    BY <1>12 DEF BrowserInv, ArraysInv, Distinct, PollExpire, Expire, flags, cycle, history
  <2>3. DescriptorInv'
    BY <1>12 DEF BrowserInv, DescriptorInv, NothingLeaks, TypeOK, SocketsTypeOK, PollExpire, Expire, NextSocket, flags, cycle, history, sockVars, Open, Family, V4, V6
  <2> QED BY <2>1, <2>2, <2>3 DEF BrowserInv
<1>13. CASE HandleDatagram
  <2> DEFINE d == Head(queue[cur])
  <2>1. /\ queue[cur] \in Seq(Datagrams) /\ d \in Datagrams /\ d \in Seq(Rows)
        /\ Tail(queue[cur]) \in Seq(Datagrams)
    BY <1>13 DEF BrowserInv, TypeOK, SocketsTypeOK, HandleDatagram, Receive
  <2>2. results' = AppendUnique(results, MaxResults, ParseAnswers(d)) /\ types' = types
    BY <1>13 DEF HandleDatagram
  <2>3. ParseAnswers(d) \in Seq(Rows)
    BY <2>1, ParsedRows
  <2> HIDE DEF d
  <2>4. ArraysInv'
    <3>1. results \in Seq(Rows) /\ Len(results) <= MaxResults /\ Distinct(results)
      BY DEF BrowserInv, ArraysInv
    <3>2. results' \in Seq(Rows) /\ Len(results') <= MaxResults /\ Distinct(results')
      BY <2>2, <2>3, <3>1, AppendUniqueKeeps
    <3> QED BY <2>2, <3>2 DEF BrowserInv, ArraysInv
  <2>5. SocketsTypeOK'
    BY <1>13, <2>1 DEF d, BrowserInv, TypeOK, SocketsTypeOK, HandleDatagram, Receive
  <2>6. TypeOK'
    BY <1>13, <2>5 DEF BrowserInv, TypeOK, SocketsTypeOK, HandleDatagram, Receive, NextSocket, Wait, Family, history
  <2>7. DescriptorInv'
    BY <1>13 DEF BrowserInv, DescriptorInv, NothingLeaks, TypeOK, SocketsTypeOK, HandleDatagram, Receive, NextSocket, flags, cycle, history, sockVars, Open, Family, V4, V6
  <2> QED BY <2>4, <2>6, <2>7 DEF BrowserInv
<1>14. CASE DatagramArrives
  <2>1. TypeOK'
    BY <1>14 DEF BrowserInv, TypeOK, SocketsTypeOK, Wait, DatagramArrives, Arrive, procVars, flags, cycle, history, sockVars, Open, Family, V4, V6
  <2>2. ArraysInv'
    BY <1>14 DEF BrowserInv, ArraysInv, Distinct, DatagramArrives, Arrive, procVars, flags, cycle, history
  <2>3. DescriptorInv'
    BY <1>14 DEF BrowserInv, DescriptorInv, NothingLeaks, TypeOK, SocketsTypeOK, DatagramArrives, Arrive, procVars, flags, cycle, history, sockVars, Open, Family, V4, V6
  <2> QED BY <2>1, <2>2, <2>3 DEF BrowserInv
<1>15. CASE SignalKills
  <2>1. TypeOK'
    BY <1>15 DEF BrowserInv, TypeOK, SocketsTypeOK, Wait, SignalKills, Quit, flags, cycle, history, sockVars, Open, Family, V4, V6
  <2>2. ArraysInv'
    BY <1>15 DEF BrowserInv, ArraysInv, Distinct, SignalKills, Quit, flags, cycle, history
  <2>3. DescriptorInv'
    BY <1>15 DEF BrowserInv, DescriptorInv, NothingLeaks, TypeOK, SocketsTypeOK, SignalKills, Quit, flags, cycle, history, sockVars, Open, Family, V4, V6
  <2> QED BY <2>1, <2>2, <2>3 DEF BrowserInv
<1>16. CASE SignalBetween
  <2>1. TypeOK'
    BY <1>16 DEF BrowserInv, TypeOK, SocketsTypeOK, Wait, SignalBetween, flags, cycle, history, sockVars, Open, Family, V4, V6
  <2>2. ArraysInv'
    BY <1>16 DEF BrowserInv, ArraysInv, Distinct, SignalBetween, flags, cycle, history
  <2>3. DescriptorInv'
    BY <1>16 DEF BrowserInv, DescriptorInv, NothingLeaks, TypeOK, SocketsTypeOK, SignalBetween, flags, cycle, history, sockVars, Open, Family, V4, V6
  <2> QED BY <2>1, <2>2, <2>3 DEF BrowserInv
<1>17. CASE SignalInPoll
  <2>1. TypeOK'
    BY <1>17 DEF BrowserInv, TypeOK, SocketsTypeOK, Wait, SignalInPoll, Interrupt, NextSocket, flags, cycle, history, sockVars, Open, Family, V4, V6
  <2>2. ArraysInv'
    BY <1>17 DEF BrowserInv, ArraysInv, Distinct, SignalInPoll, Interrupt, flags, cycle, history
  <2>3. DescriptorInv'
    BY <1>17 DEF BrowserInv, DescriptorInv, NothingLeaks, TypeOK, SocketsTypeOK, SignalInPoll, Interrupt, NextSocket, flags, cycle, history, sockVars, Open, Family, V4, V6
  <2> QED BY <2>1, <2>2, <2>3 DEF BrowserInv
<1>18. CASE UNCHANGED vars
  <2> USE DEF vars, procVars, flags, cycle, history, sockVars
  <2>1. TypeOK'
    BY <1>18 DEF BrowserInv, TypeOK, SocketsTypeOK
  <2>2. ArraysInv'
    BY <1>18 DEF BrowserInv, ArraysInv, Distinct
  <2>3. DescriptorInv'
    BY <1>18 DEF BrowserInv, DescriptorInv, NothingLeaks, Open
  <2> QED BY <2>1, <2>2, <2>3 DEF BrowserInv
<1> QED BY <1>1, <1>2, <1>3, <1>4, <1>5, <1>51, <1>6, <1>7, <1>8, <1>9, <1>10, <1>11, <1>12, <1>13, <1>14, <1>15, <1>16, <1>17, <1>18 DEF Next, BrowserStep

\* Type correctness, the arrays' shape and the descriptors' state hold in
\* every state of umdns_browser's main().
THEOREM BrowserInvariant == Spec => []BrowserInv
BY InitInv, StepInv, PTL DEF Spec

\* Type correctness of umdns_browser: in particular types never outgrows
\* service_types[32] and a wait is never negative.
THEOREM BrowserTypeOK == Spec => []TypeOK
<1>1. BrowserInv => TypeOK
  BY DEF BrowserInv
<1> QED BY <1>1, BrowserInvariant, PTL

\* What the array holds was heard, and what was heard it holds, or it is full.
HeardInv ==
  /\ results \in Seq(heard)
  /\ Len(results) < MaxResults => \A r \in heard : Holds(results, r)

LEMMA HeardStep == BrowserInv /\ HeardInv /\ [Next]_vars => HeardInv'
<1> SUFFICES ASSUME BrowserInv, HeardInv, [Next]_vars PROVE HeardInv'
  OBVIOUS
<1>1. CASE HandleDatagram
  <2> DEFINE src == ParseAnswers(Head(queue[cur]))
  <2>1. /\ results' = AppendUnique(results, MaxResults, src)
        /\ heard' = heard \cup ToSet(src)
    BY <1>1 DEF HandleDatagram
  <2>2. src \in Seq(Rows)
    <3>1. Head(queue[cur]) \in Seq(Rows)
      BY <1>1, BrowserAssumption DEF BrowserInv, TypeOK, SocketsTypeOK, HandleDatagram, Receive
    <3> QED BY <3>1, ParsedRows
  <2> HIDE DEF src
  <2>3. src \in Seq(heard') /\ results \in Seq(heard') /\ Len(results) <= MaxResults
    <3>1. \A k \in 1..Len(src) : src[k] \in heard'
      BY <2>1, <2>2 DEF ToSet
    <3>2. \A k \in 1..Len(results) : results[k] \in heard'
      BY <2>1 DEF HeardInv
    <3>3. src \in Seq(heard')
      BY <2>2, <3>1
    <3>4. results \in Seq(heard')
      BY <3>2 DEF HeardInv
    <3> QED BY <3>3, <3>4 DEF BrowserInv, ArraysInv
  <2>4. /\ results' \in Seq(heard')
        /\ Len(results) <= Len(results') /\ \A k \in 1..Len(results) : results'[k] = results[k]
        /\ Len(results') < MaxResults =>
             \A i \in 1..Len(src) : \E k \in 1..Len(results') : Alike(results'[k], src[i])
    BY <2>1, <2>3, BrowserAssumption, AppendUniqueKeeps
  <2>5. ASSUME Len(results') < MaxResults, NEW r \in heard' PROVE Holds(results', r)
    <3>1. CASE r \in heard
      <4>1. Len(results) < MaxResults
        BY <2>3, <2>4, <2>5, BrowserAssumption
      <4>2. PICK k \in 1..Len(results) : Alike(results[k], r)
        BY <3>1, <4>1 DEF HeardInv, Holds
      <4>3. k \in 1..Len(results') /\ results'[k] = results[k]
        BY <2>3, <2>4, <4>2
      <4> QED BY <4>2, <4>3 DEF Holds
    <3>2. CASE r \in ToSet(src)
      <4>1. PICK i \in 1..Len(src) : src[i] = r
        BY <2>2, <3>2 DEF ToSet
      <4> QED BY <2>4, <2>5, <4>1 DEF Holds
    <3> QED BY <2>1, <3>1, <3>2
  <2> QED BY <2>4, <2>5 DEF HeardInv
<1>2. CASE ~HandleDatagram
  <2>1. results' = results /\ heard' = heard
    BY <1>2 DEF Next, BrowserStep, vars, procVars, flags, cycle, history, LogInit, InstallHandlers,
      Listen, Quit, BeginCycle, SendQuery, SkipType, EndReceive, EndCycle, Stop, Report, BeginPass,
      PollSleep, PollExpire, DatagramArrives, SignalKills, SignalBetween, SignalInPoll
  <2> QED BY <2>1 DEF HeardInv
<1> QED BY <1>1, <1>2

\* append_results_unique: whatever the network sends, in any number of
\* cycles, the array never overflows, repeats no row, holds nothing that was
\* not heard, and misses nothing that was heard while it has room.
THEOREM BrowserResultsDistinct == Spec => []ResultsDistinct
<1>1. Init => HeardInv
  <2>1. ASSUME Init PROVE results = << >> /\ heard = {}
    BY <2>1 DEF Init
  <2>2. << >> \in Seq({})
    OBVIOUS
  <2> QED BY <2>1, <2>2 DEF HeardInv
<1>2. BrowserInv /\ HeardInv => ResultsDistinct
  BY DEF BrowserInv, ArraysInv, HeardInv, Distinct, ResultsDistinct
<1> QED BY <1>1, <1>2, HeardStep, BrowserInvariant, PTL DEF Spec

\* Every way out of main() leaves no descriptor open and the log released.
THEOREM BrowserNothingLeaks == Spec => []NothingLeaks
<1>1. BrowserInv => NothingLeaks
  BY DEF BrowserInv, DescriptorInv
<1> QED BY <1>1, BrowserInvariant, PTL

----------------------------------------------------------------------------
(* The rows collected: only HandleDatagram touches them. *)

LEMMA RowsGrow == BrowserInv /\ [Next]_vars => Begins(results, results')
<1> SUFFICES ASSUME BrowserInv, [Next]_vars PROVE Begins(results, results')
  OBVIOUS
<1>1. results \in Seq(Rows) /\ Len(results) <= MaxResults
  BY DEF BrowserInv, ArraysInv
<1>2. CASE HandleDatagram
  <2> DEFINE d == Head(queue[cur])
  <2>1. d \in Seq(Rows)
    BY <1>2, BrowserAssumption DEF BrowserInv, TypeOK, SocketsTypeOK, HandleDatagram, Receive
  <2>2. results' = AppendUnique(results, MaxResults, ParseAnswers(d))
    BY <1>2 DEF HandleDatagram
  <2> HIDE DEF d
  <2>3. ParseAnswers(d) \in Seq(Rows)
    BY <2>1, ParsedRows
  <2>4. Len(results) <= Len(results') /\ \A k \in 1..Len(results) : results'[k] = results[k]
    BY <1>1, <2>2, <2>3, BrowserAssumption, AppendUniqueKeeps
  <2> QED BY <2>4 DEF Begins
<1>3. CASE ~HandleDatagram
  <2>1. results' = results
    BY <1>3 DEF Next, BrowserStep, vars, procVars, flags, cycle, LogInit, InstallHandlers, Listen,
      Quit, BeginCycle, SendQuery, SkipType, EndReceive, EndCycle, Stop, Report, BeginPass, PollSleep,
      PollExpire, DatagramArrives, SignalKills, SignalBetween, SignalInPoll
  <2> QED BY <1>1, <2>1 DEF Begins
<1> QED BY <1>2, <1>3

\* No step of the browser forgets, changes or reorders a row it collected.
THEOREM BrowserRowsStay == Spec => RowsStay
<1>1. ASSUME BrowserInv, BrowserInv', [Next]_vars
      PROVE  IsPrefix(results, results')
  <2>1. Begins(results, results')
    BY <1>1, RowsGrow
  <2>2. results \in Seq(Rows) /\ results' \in Seq(Rows)
    BY <1>1 DEF BrowserInv, ArraysInv
  <2>3. SubSeq(results, 1, Len(results)) = SubSeq(results', 1, Len(results))
    BY <2>1, <2>2 DEF Begins
  <2> QED BY <2>1, <2>3 DEF IsPrefix, Begins
<1>2. BrowserInv /\ BrowserInv' /\ [Next]_vars => [IsPrefix(results, results')]_vars
  BY <1>1
<1> QED BY <1>2, BrowserInvariant, PTL DEF Spec, RowsStay

----------------------------------------------------------------------------
(* Types known when a cycle begins.  The enumeration's answers come on top  *)
(* of the rows they were known from, so the extraction finds them again.    *)

Waiting == {"receive", "poll", "received"}

\* The types up to the one in hand were asked for, but those that cannot be.
Passed(t) == QueryFor[t] # NoQuery => QueryFor[t] \in asked
AskedInv ==
  /\ pc = "query" => \A i \in 1..idx-1 : Passed(types[i])
  /\ pc \in Waiting => \A i \in 1..idx : Passed(types[i])
  /\ pc = "endcycle" => \A i \in 1..Len(types) : Passed(types[i])

\* What is known comes from rows still held, then is among the types.
KnownInv ==
  /\ pc \in Waiting \cup {"query"} /\ idx = 0 =>
       \E old \in Seq(Rows) : Begins(old, results) /\ known = TypesIn(old)
  /\ pc = "endcycle" \/ (pc \in Waiting \cup {"query"} /\ idx # 0) =>
       (Cardinality(known) <= MaxTypes => known \subseteq ToSet(types))

LEMMA AskedStep == BrowserInv /\ AskedInv /\ [Next]_vars => AskedInv'
<1> SUFFICES ASSUME BrowserInv, AskedInv, [Next]_vars PROVE AskedInv'
  OBVIOUS
<1>1. types \in Seq(Instances) /\ idx \in 0..Len(types)
  BY DEF BrowserInv, TypeOK, ArraysInv
<1>2. CASE SendQuery
  <2>1. /\ pc = "query" /\ pc' = "receive" /\ UNCHANGED <<types, idx>>
        /\ asked' = asked \cup {QueryFor[Wanted]}
        /\ idx # 0 => Wanted = types[idx]
    BY <1>2 DEF SendQuery, Wanted
  <2> QED BY <1>1, <2>1 DEF AskedInv, Waiting, Passed
<1>21. CASE SkipType
  <2>1. /\ pc = "query" /\ UNCHANGED <<types, asked>>
        /\ IF idx < Len(types) THEN idx' = idx + 1 /\ pc' = "query"
           ELSE pc' = "endcycle" /\ UNCHANGED idx
    BY <1>21 DEF SkipType, NextType, history
  <2>2. idx # 0 /\ QueryFor[types[idx]] = NoQuery
    BY <1>21, BrowserAssumption DEF SkipType, Wanted
  <2>3. \A i \in 1..idx : Passed(types[i])
    BY <1>1, <2>1, <2>2 DEF AskedInv, Passed
  <2> QED BY <1>1, <2>1, <2>3 DEF AskedInv, Waiting, Passed
<1>3. CASE EndReceive
  <2>1. /\ pc \in Waiting /\ asked' = asked /\ (idx # 0 => types' = types)
        /\ IF idx < Len(types') THEN idx' = idx + 1 /\ pc' = "query"
           ELSE pc' = "endcycle" /\ UNCHANGED idx
    BY <1>3 DEF EndReceive, NextType, Waiting, history
  <2>2. CASE idx = 0
    <3>1. types' \in Seq(Instances)
      <4>1. BrowserInv'
        BY StepInv
      <4> QED BY <4>1 DEF BrowserInv, ArraysInv
    <3>2. Len(types') \in Nat
      BY <3>1
    <3> QED BY <2>1, <2>2, <3>2 DEF AskedInv, Waiting, Passed
  <2>3. CASE idx # 0
    BY <1>1, <2>1, <2>3 DEF AskedInv, Waiting, Passed
  <2> QED BY <2>2, <2>3
<1>4. CASE BeginCycle
  BY <1>4 DEF BeginCycle, AskedInv, Waiting
<1>5. CASE ~(SendQuery \/ SkipType \/ EndReceive \/ BeginCycle)
  <2>1. /\ UNCHANGED <<types, idx, asked>>
        /\ \/ pc' = pc
           \/ pc \in Waiting /\ pc' \in Waiting
           \/ pc' \notin Waiting \cup {"query", "endcycle"}
    BY <1>5 DEF Next, BrowserStep, vars, procVars, flags, cycle, history, LogInit, InstallHandlers,
      Listen, Quit, EndCycle, Stop, Report, BeginPass, PollSleep, PollExpire, HandleDatagram,
      DatagramArrives, SignalKills, SignalBetween, SignalInPoll, NextSocket, Waiting
  <2> QED BY <2>1 DEF AskedInv, Waiting, Passed
<1> QED BY <1>2, <1>21, <1>3, <1>4, <1>5

LEMMA KnownStep == BrowserInv /\ KnownInv /\ [Next]_vars => KnownInv'
<1> SUFFICES ASSUME BrowserInv, KnownInv, [Next]_vars PROVE KnownInv'
  OBVIOUS
<1>1. /\ types \in Seq(Instances) /\ idx \in 0..Len(types) /\ results \in Seq(Rows)
      /\ results' \in Seq(Rows)
  <2>1. BrowserInv'
    BY StepInv
  <2> QED BY <2>1 DEF BrowserInv, TypeOK, ArraysInv
<1>2. CASE BeginCycle
  <2>1. pc' = "query" /\ idx' = 0 /\ known' = TypesIn(results) /\ results' = results
    BY <1>2 DEF BeginCycle
  <2>2. Begins(results, results)
    BY <1>1 DEF Begins
  <2>3. \E old \in Seq(Rows) : Begins(old, results') /\ known' = TypesIn(old)
    BY <1>1, <2>1, <2>2
  <2> QED BY <2>1, <2>3 DEF KnownInv
<1>3. CASE EndReceive
  <2>1. /\ pc \in Waiting /\ known' = known /\ results' = results /\ (idx # 0 => types' = types)
        /\ types' = IF idx = 0 THEN ServiceTypes(results, MaxTypes) ELSE types
        /\ \/ idx' = idx + 1 /\ pc' = "query"
           \/ pc' = "endcycle"
    BY <1>3 DEF EndReceive, NextType, Waiting, history
  <2>2. Cardinality(known) <= MaxTypes => known \subseteq ToSet(types')
    <3>1. CASE idx = 0
      <4>1. PICK old \in Seq(Rows) : Begins(old, results) /\ known = TypesIn(old)
        BY <2>1, <3>1 DEF KnownInv
      <4>2. types' = ServiceTypes(results, MaxTypes)
        BY <2>1, <3>1
      <4> QED BY <1>1, <4>1, <4>2, BrowserAssumption, KnownTypesFound
    <3>2. CASE idx # 0
      BY <2>1, <3>2 DEF KnownInv
    <3> QED BY <3>1, <3>2
  <2>3. idx' # 0 \/ pc' = "endcycle"
    BY <1>1, <2>1
  <2> QED BY <2>1, <2>2, <2>3 DEF KnownInv, Waiting
<1>31. CASE SkipType
  <2>1. /\ pc = "query" /\ UNCHANGED <<types, known>>
        /\ \/ idx' = idx + 1 /\ pc' = "query"
           \/ idx' = idx /\ pc' = "endcycle"
    BY <1>31 DEF SkipType, NextType, history
  <2>2. idx # 0
    BY <1>31, BrowserAssumption DEF SkipType, Wanted
  <2> QED BY <1>1, <2>1, <2>2 DEF KnownInv, Waiting
<1>4. CASE ~(BeginCycle \/ EndReceive \/ SkipType)
  <2>1. /\ UNCHANGED <<types, idx, known>>
        /\ \/ pc' = pc
           \/ pc \in Waiting \cup {"query"} /\ pc' \in Waiting
           \/ pc' \notin Waiting \cup {"query", "endcycle"}
    BY <1>4 DEF Next, BrowserStep, vars, procVars, flags, cycle, history, LogInit, InstallHandlers,
      Listen, Quit, SendQuery, EndCycle, Stop, Report, BeginPass, PollSleep, PollExpire,
      HandleDatagram, DatagramArrives, SignalKills, SignalBetween, SignalInPoll, NextSocket, Waiting
  <2>2. ASSUME NEW old \in Seq(Rows), Begins(old, results)
        PROVE  Begins(old, results')
    BY <1>1, <2>2, RowsGrow DEF Begins
  <2>3. (\E old \in Seq(Rows) : Begins(old, results) /\ known = TypesIn(old)) =>
        \E old \in Seq(Rows) : Begins(old, results') /\ known' = TypesIn(old)
    BY <2>1, <2>2
  <2> QED BY <2>1, <2>3 DEF KnownInv, Waiting
<1> QED BY <1>2, <1>3, <1>31, <1>4

\* A cycle asks for every service type known when it began, as long as
\* service_types has room for all of them, but for those no query can be
\* built for: these cost no other type its query.
THEOREM BrowserKnownTypesAsked == Spec => []KnownTypesAsked
<1>1. Init => AskedInv /\ KnownInv
  BY DEF Init, AskedInv, KnownInv, Waiting
<1>2. BrowserInv /\ AskedInv /\ KnownInv => KnownTypesAsked
  <2> SUFFICES ASSUME BrowserInv, AskedInv, KnownInv, pc = "endcycle",
                      Cardinality(known) <= MaxTypes, NEW t \in known, QueryFor[t] # NoQuery
               PROVE  QueryFor[t] \in asked
    BY DEF KnownTypesAsked
  <2>1. types \in Seq(Instances) /\ t \in ToSet(types)
    BY DEF BrowserInv, ArraysInv, KnownInv
  <2>2. PICK i \in 1..Len(types) : t = types[i]
    BY <2>1 DEF ToSet
  <2> QED BY <2>2 DEF AskedInv, Passed
<1> QED BY <1>1, <1>2, AskedStep, KnownStep, BrowserInvariant, PTL DEF Spec

----------------------------------------------------------------------------
(* How long the browser sleeps once the flag is set.  The wait in progress  *)
(* ends after its pass and each later one lasts one pass only, so the sleep *)
(* is bounded by one pass for each name the cycle has asked for.            *)

\* Products are kept out of the solver's sight.
Times(n, i) == n * i

LEMMA TimesFacts ==
  ASSUME NEW n \in Nat, NEW i \in Nat
  PROVE  /\ Times(n, i) \in Nat /\ Times(n, 0) = 0
         /\ Times(n, i + 1) = Times(n, i) + n
BY DEF Times

LEMMA TimesMonotone ==
  ASSUME NEW n \in Nat, NEW i \in Nat, NEW j \in Nat, i <= j
  PROVE  Times(n, i) <= Times(n, j)
BY DEF Times

StartUp == {"log", "handlers", "listen"}

LagInv ==
  /\ ~terminate => lag = 0
  /\ pc \in StartUp => lag = 0 /\ idx = 0
  /\ pc \in {"query", "receive"} => lag <= Times(PassTicks, idx)
  /\ pc = "poll" =>
       lag <= Times(PassTicks, idx) + (IF cur = V6 THEN Share(V4) ELSE 0) + waited
  /\ lag <= Times(PassTicks, idx + 1)

\* Only start-up changes which sockets the browser has.
LEMMA TicksStay ==
  ASSUME BrowserInv, [Next]_vars, pc \notin StartUp
  PROVE  Share(V4)' = Share(V4) /\ Share(V6)' = Share(V6) /\ PassTicks' = PassTicks
<1>1. CASE Report
  <2>1. \A s \in Family : (fd'[s] = "none") <=> (fd[s] = "none")
    BY <1>1 DEF Report, CloseAll, Open
  <2> QED BY <2>1 DEF Share, PassTicks, Family
<1>2. CASE ~Report
  <2>1. fd' = fd
    BY <1>2 DEF StartUp, Next, BrowserStep, vars, sockVars, LogInit, InstallHandlers, Listen, BeginCycle,
      SendQuery, SkipType, EndReceive, EndCycle, Stop, BeginPass, PollSleep, Sleep, PollExpire, Expire,
      HandleDatagram, Receive, DatagramArrives, Arrive, SignalKills, SignalBetween, SignalInPoll,
      Interrupt
  <2> QED BY <2>1 DEF Share, PassTicks
<1> QED BY <1>1, <1>2

LEMMA LagStep == BrowserInv /\ LagInv /\ [Next]_vars => LagInv'
<1> SUFFICES ASSUME BrowserInv, LagInv, [Next]_vars PROVE LagInv'
  OBVIOUS
<1> DEFINE P == PassTicks
           T == Times(PassTicks, idx)
<1>1. /\ idx \in Nat /\ idx' \in Nat /\ lag \in Nat /\ lag' \in Nat /\ waited \in 0..Slice
      /\ cur \in Family /\ Slice \in Nat
  <2>1. TypeOK /\ TypeOK' /\ Len(types) \in Nat /\ Len(types') \in Nat
    <3>1. BrowserInv'
      BY StepInv
    <3> QED BY <3>1 DEF BrowserInv, ArraysInv
  <2> QED BY <2>1, BrowserAssumption DEF TypeOK, SocketsTypeOK
<1>2. /\ Share(V4) \in 0..Slice /\ Share(V6) \in 0..Slice
      /\ Share(V4)' \in 0..Slice /\ Share(V6)' \in 0..Slice
  BY <1>1 DEF Share
<1>3. /\ P = Share(V4) + Share(V6) /\ P \in Nat /\ P' \in Nat
      /\ T \in Nat /\ Times(P, 0) = 0 /\ Times(P, idx + 1) = T + P
      /\ Times(P', idx') \in Nat /\ Times(P', idx' + 1) \in Nat
      /\ Times(P', idx' + 1) = Times(P', idx') + P'
  <2>1. P = Share(V4) + Share(V6) /\ P' = Share(V4)' + Share(V6)'
    BY DEF PassTicks
  <2>2. P \in Nat /\ P' \in Nat
    <3> HIDE DEF P
    <3> QED BY <1>1, <1>2, <2>1
  <2>3. T \in Nat /\ Times(P, 0) = 0 /\ Times(P, idx + 1) = T + P
    BY <1>1, <2>2, TimesFacts
  <2>4. ASSUME NEW n \in Nat, NEW i \in Nat
        PROVE  Times(n, i) \in Nat /\ Times(n, i + 1) \in Nat /\ Times(n, i + 1) = Times(n, i) + n
    <3>1. Times(n, i) \in Nat /\ Times(n, i + 1) = Times(n, i) + n
      BY TimesFacts
    <3> QED BY <3>1
  <2> HIDE DEF P
  <2>5. /\ Times(P', idx') \in Nat /\ Times(P', idx' + 1) \in Nat
        /\ Times(P', idx' + 1) = Times(P', idx') + P'
    BY <1>1, <2>2, <2>4
  <2> QED BY <2>1, <2>2, <2>3, <2>5
<1>4. CASE pc \in StartUp
  <2>1. lag' = 0 /\ idx' = 0
    BY <1>4 DEF LagInv, StartUp, Next, BrowserStep, vars, procVars, flags, cycle, history, LogInit,
      InstallHandlers, Listen, BeginCycle, SendQuery, SkipType, EndReceive, EndCycle, Stop, Report, BeginPass,
      PollSleep, PollExpire, HandleDatagram, DatagramArrives, SignalKills, SignalBetween, SignalInPoll
  <2>2. waited' \in Nat
    <3>1. BrowserInv'
      BY StepInv
    <3> QED BY <3>1 DEF BrowserInv, TypeOK, SocketsTypeOK
  <2> QED BY <1>1, <1>2, <1>3, <2>1, <2>2 DEF LagInv
<1>5. CASE pc \notin StartUp
  <2>1. P' = P /\ Share(V4)' = Share(V4)
    BY <1>5, TicksStay
  <2>2. pc' \notin StartUp
    BY <1>5 DEF StartUp, Next, BrowserStep, vars, procVars, LogInit, InstallHandlers, Listen, Quit,
      BeginCycle, SendQuery, SkipType, EndReceive, NextType, EndCycle, Stop, Report, BeginPass, PollSleep,
      PollExpire, HandleDatagram, DatagramArrives, SignalKills, SignalBetween, SignalInPoll, NextSocket
  <2>3. CASE BeginCycle
    <3>1. pc' = "query" /\ lag' = 0 /\ idx' = 0
      BY <2>3 DEF BeginCycle, LagInv
    <3> QED BY <1>3, <2>2, <3>1 DEF LagInv
  <2>4. CASE SendQuery
    <3>1. pc = "query" /\ pc' = "receive" /\ UNCHANGED <<lag, idx, terminate>>
      BY <2>4 DEF SendQuery, flags
    <3> QED BY <2>1, <2>2, <3>1 DEF LagInv
  <2>5. CASE EndReceive \/ SkipType
    <3>1. /\ UNCHANGED <<lag, terminate>>
          /\ \/ idx' = idx + 1 /\ pc' = "query"
             \/ idx' = idx /\ pc' = "endcycle"
      BY <2>5 DEF EndReceive, SkipType, NextType, flags, history
    <3>2. lag <= T + P /\ (~terminate => lag = 0)
      BY <1>3 DEF LagInv
    <3>3. CASE idx' = idx + 1 /\ pc' = "query"
      <4>1. Times(P', idx') = T + P
        BY <1>3, <2>1, <3>3
      <4> QED BY <1>1, <1>3, <2>1, <2>2, <3>1, <3>2, <3>3, <4>1 DEF LagInv
    <3>4. CASE idx' = idx /\ pc' = "endcycle"
      BY <1>3, <2>1, <2>2, <3>1, <3>2, <3>4 DEF LagInv
    <3> QED BY <3>1, <3>3, <3>4
  <2>6. CASE BeginPass
    <3>1. pc = "receive" /\ pc' = "poll" /\ UNCHANGED <<lag, idx, terminate, waited>>
      BY <2>6 DEF BeginPass, flags, cycle, history, sockVars
    <3>2. lag <= T
      BY <3>1 DEF LagInv
    <3>3. lag <= T + (IF cur' = V6 THEN Share(V4) ELSE 0) + waited
      <4> HIDE DEF T
      <4> QED BY <1>1, <1>2, <1>3, <3>2
    <3> QED BY <2>1, <2>2, <3>1, <3>3 DEF LagInv
  <2>7. CASE PollSleep
    <3>1. /\ pc = "poll" /\ waited + 1 <= Slice /\ waited' = waited + 1
          /\ lag' = (IF terminate THEN lag + 1 ELSE lag)
          /\ UNCHANGED <<pc, cur, idx, terminate, fd>>
      BY <1>1, <2>7, BrowserAssumption DEF PollSleep, Sleep, Wait, flags, cycle, BrowserInv, TypeOK
    <3>2. Share(cur) = Slice
      BY <3>1 DEF Share, Open, BrowserInv, DescriptorInv
    <3>3. lag' <= T + (IF cur = V6 THEN Share(V4) ELSE 0) + waited'
      <4>1. lag <= T + (IF cur = V6 THEN Share(V4) ELSE 0) + waited
        BY <3>1 DEF LagInv
      <4> HIDE DEF T
      <4> QED BY <1>1, <1>2, <1>3, <3>1, <4>1
    <3>4. lag' <= Times(P, idx + 1)
      <4> HIDE DEF T, P
      <4>1. lag' <= T + P
        BY <1>1, <1>2, <1>3, <3>1, <3>2, <3>3 DEF Family, V4, V6
      <4> QED BY <1>3, <4>1
    <3>5. ~terminate' => lag' = 0
      BY <3>1 DEF LagInv
    <3> QED BY <2>1, <2>2, <3>1, <3>3, <3>4, <3>5 DEF LagInv
  <2>8. CASE PollExpire \/ HandleDatagram \/ SignalInPoll
    <3>1. /\ pc = "poll" /\ NextSocket /\ waited' = 0 /\ UNCHANGED <<lag, idx>>
          /\ ~terminate' => ~terminate
      BY <2>8 DEF PollExpire, HandleDatagram, SignalInPoll, Expire, Receive, Interrupt, history
    <3>2. \/ cur = V4 /\ cur' = V6 /\ pc' = "poll"
          \/ pc' = "received"
          \/ pc' = "receive" /\ ~terminate'
      BY <3>1 DEF NextSocket
    <3>3. ~terminate' => lag' = 0
      BY <3>1 DEF LagInv
    <3>4. CASE cur = V4 /\ cur' = V6 /\ pc' = "poll"
      <4>1. Share(V4) = Slice
        BY <3>1, <3>4 DEF Share, Open, BrowserInv, DescriptorInv
      <4>2. lag <= T + waited
        <5>1. V4 # V6 /\ lag <= T + (IF cur = V6 THEN Share(V4) ELSE 0) + waited
          BY <3>1 DEF LagInv, V4, V6
        <5> HIDE DEF T
        <5> QED BY <1>1, <1>3, <3>4, <5>1
      <4>3. lag' <= T + Share(V4) + waited'
        <5> HIDE DEF T
        <5> QED BY <1>1, <1>2, <1>3, <3>1, <4>1, <4>2
      <4> QED BY <2>1, <2>2, <3>1, <3>3, <3>4, <4>3 DEF LagInv
    <3>5. CASE pc' = "received"
      BY <2>1, <2>2, <3>1, <3>3, <3>5 DEF LagInv
    <3>6. CASE pc' = "receive" /\ ~terminate'
      <4>1. lag' = 0
        BY <3>3, <3>6
      <4> QED BY <1>3, <2>2, <3>6, <4>1 DEF LagInv
    <3> QED BY <3>2, <3>4, <3>5, <3>6
  <2>9. CASE EndCycle \/ Stop \/ Report \/ DatagramArrives \/ SignalBetween \/ UNCHANGED vars
    <3>1. /\ UNCHANGED <<lag, idx, cur>> /\ (~terminate' => ~terminate)
          /\ \/ pc' = pc /\ waited' = waited
             \/ pc' \notin {"query", "receive", "poll"}
      BY <2>9 DEF EndCycle, Stop, Report, Quit, DatagramArrives, Arrive, SignalBetween, vars, procVars,
        flags, cycle, history, sockVars
    <3> QED BY <2>1, <2>2, <3>1 DEF LagInv
  <2>10. ~(LogInit \/ InstallHandlers \/ Listen \/ SignalKills)
    BY <1>5 DEF StartUp, LogInit, InstallHandlers, Listen, SignalKills
  <2> QED BY <2>3, <2>4, <2>5, <2>6, <2>7, <2>8, <2>9, <2>10 DEF Next, BrowserStep
<1> QED BY <1>4, <1>5

\* After a signal the browser sleeps at most one slice on each socket for
\* the enumeration and for each service type it may hold.
THEOREM BrowserShutdownBounded == Spec => []ShutdownBounded
<1>1. Init => LagInv
  <2> SUFFICES ASSUME Init PROVE LagInv
    OBVIOUS
  <2>1. PassTicks = 0
    BY DEF Init, SocketsInit, PassTicks, Share, Family
  <2>2. Times(PassTicks, idx + 1) = 0
    BY <2>1 DEF Init, Times
  <2> QED BY <2>2 DEF Init, LagInv, StartUp
<1>2. BrowserInv /\ LagInv => ShutdownBounded
  <2> SUFFICES ASSUME BrowserInv, LagInv PROVE lag <= PassTicks * (1 + MaxTypes)
    BY DEF ShutdownBounded
  <2>1. /\ lag \in Nat /\ idx + 1 \in Nat /\ 1 + MaxTypes \in Nat /\ idx + 1 <= 1 + MaxTypes
        /\ Slice \in Nat
    BY BrowserAssumption DEF BrowserInv, TypeOK, ArraysInv
  <2>2. PassTicks \in Nat
    BY <2>1 DEF PassTicks, Share
  <2>3. Times(PassTicks, idx + 1) \in Nat /\ Times(PassTicks, 1 + MaxTypes) \in Nat
    BY <2>1, <2>2, TimesFacts
  <2>4. Times(PassTicks, idx + 1) <= Times(PassTicks, 1 + MaxTypes)
    BY <2>1, <2>2, TimesMonotone
  <2>5. lag <= Times(PassTicks, 1 + MaxTypes)
    BY <2>1, <2>3, <2>4 DEF LagInv
  <2> QED BY <2>5 DEF Times
<1> QED BY <1>1, <1>2, LagStep, BrowserInvariant, PTL DEF Spec

----------------------------------------------------------------------------
(* How long the browser sleeps when it has a total timeout.  A cycle is      *)
(* charged one interval and sleeps longer, by what its waits come to.        *)

\* How much of a cycle's waits lies behind, and ahead, for one socket: the
\* names up to idx have been waited for; the present wait is not over.
After(i) == Interval + Times(Interval \div 2, i)
CycleSleep ==
  CASE pc = "query"                  -> IF idx = 0 THEN 0 ELSE After(idx - 1)
    [] pc \in {"receive", "poll"}    -> After(idx) - remaining
    [] pc \in {"received", "endcycle"} -> After(idx)
    [] OTHER                         -> 0

\* The sleep of the sockets in use, and what the pass in progress adds.
Used(s) == IF fd[s] = "none" THEN 0 ELSE 1
AllUsed == Used(V4) + Used(V6)
OnAll(u, t) == IF u = 0 THEN 0 ELSE IF u = 1 THEN t ELSE t + t
PassSleep ==
  IF pc # "poll" THEN 0
  ELSE waited + (IF cur = V6 /\ Used(V4) = 1 THEN Wait ELSE 0)

\* After k cycles.
ClockAt(k) ==
  /\ elapsed = Times(Interval, k) /\ k <= Cycles
  /\ pc \notin {"report", "exited"} => k < Cycles
  /\ clock <= OnAll(AllUsed, Times(CycleTicks, k) + CycleSleep) + PassSleep

PollInv ==
  /\ pc = "poll" => waited <= Wait /\ remaining > 0
  /\ pc # "poll" => waited = 0

ClockInv ==
  /\ PollInv
  /\ pc \in StartUp => clock = 0 /\ elapsed = 0 /\ idx = 0
  /\ total > 0 => \E k \in Nat : ClockAt(k)

\* An interval begun before the timeout is one of those that fit into it,
\* rounded up.
LEMMA IntervalsLeft ==
  ASSUME NEW n \in Nat, NEW i \in Nat \ {0}, NEW k \in Nat, Times(i, k) < n
  PROVE  /\ (n + i - 1) \div i \in Nat /\ k < (n + i - 1) \div i
<1> DEFINE a == n + i - 1
           q == a \div i
<1>1. q \in Int /\ i * q <= a /\ a < i * q + i
  OBVIOUS
<1>2. a \in Nat /\ i * k < n
  BY DEF Times
<1> HIDE DEF q
<1>3. k < q
  <2>1. CASE q <= k
    <3>1. i * q <= i * k
      BY <1>1, <2>1
    <3> QED BY <1>1, <1>2, <3>1
  <2> QED BY <1>1, <2>1
<1> QED BY <1>1, <1>3 DEF q

\* Sums over no, one or two sockets.
LEMMA OnAllFacts ==
  ASSUME NEW u \in 0..2, NEW s \in Int, NEW t \in Int
  PROVE  /\ OnAll(u, s) \in Int
         /\ OnAll(u, s + t) = OnAll(u, s) + OnAll(u, t)
         /\ s <= t => OnAll(u, s) <= OnAll(u, t)
         /\ s >= 0 => OnAll(u, s) >= 0
BY DEF OnAll

\* The waits of a cycle.
LEMMA AfterFacts ==
  /\ CycleTicks \in Nat /\ Times(CycleTicks, 0) = 0 /\ Times(Interval, 0) = 0
  /\ After(0) = Interval
  /\ \A i \in Nat :
       /\ After(i) \in Nat
       /\ i > 0 => After(i) = After(i - 1) + (Interval \div 2)
       /\ i <= MaxTypes => After(i) <= CycleTicks
<1> DEFINE h == Interval \div 2
<1>1. h \in Nat /\ Interval \in Nat /\ MaxTypes \in Nat
  BY BrowserAssumption
<1> HIDE DEF h
<1>2. Times(h, MaxTypes) \in Nat /\ CycleTicks = Interval + Times(h, MaxTypes)
  <2>1. Times(h, MaxTypes) = MaxTypes * h
    BY <1>1 DEF Times
  <2>2. CycleTicks = Interval + MaxTypes * h
    BY DEF CycleTicks, h
  <2> QED BY <1>1, <2>1, <2>2, TimesFacts
<1>3. CycleTicks \in Nat /\ Times(CycleTicks, 0) = 0 /\ Times(Interval, 0) = 0
  BY <1>1, <1>2, TimesFacts
<1>4. \A i \in Nat : After(i) = Interval + Times(h, i) /\ Times(h, i) \in Nat
  BY <1>1, TimesFacts DEF After, h
<1>5. After(0) = Interval
  BY <1>1, <1>4, TimesFacts
<1>6. ASSUME NEW i \in Nat, i > 0 PROVE After(i) = After(i - 1) + h
  <2>1. i - 1 \in Nat /\ (i - 1) + 1 = i
    BY <1>6
  <2>2. Times(h, i) = Times(h, i - 1) + h
    BY <1>1, <2>1, TimesFacts
  <2> QED BY <1>1, <1>4, <2>1, <2>2
<1>7. ASSUME NEW i \in Nat, i <= MaxTypes PROVE After(i) <= CycleTicks
  <2>1. Times(h, i) <= Times(h, MaxTypes)
    BY <1>1, <1>7, TimesMonotone
  <2> QED BY <1>1, <1>2, <1>4, <2>1
<1>8. \A i \in Nat : After(i) \in Nat
  BY <1>1, <1>4
<1> QED BY <1>3, <1>5, <1>6, <1>7, <1>8 DEF h

\* Only start-up changes which sockets the browser has.
LEMMA UsedStays ==
  ASSUME BrowserInv, [Next]_vars, pc \notin StartUp
  PROVE  Used(V4)' = Used(V4) /\ AllUsed' = AllUsed
<1>1. CASE Report
  <2>1. \A s \in Family : (fd'[s] = "none") <=> (fd[s] = "none")
    BY <1>1 DEF Report, CloseAll, Open
  <2> QED BY <2>1 DEF Used, AllUsed, Family
<1>2. CASE ~Report
  <2>1. fd' = fd
    BY <1>2 DEF StartUp, Next, BrowserStep, vars, sockVars, LogInit, InstallHandlers, Listen, BeginCycle,
      SendQuery, SkipType, EndReceive, EndCycle, Stop, BeginPass, PollSleep, Sleep, PollExpire, Expire,
      HandleDatagram, Receive, DatagramArrives, Arrive, SignalKills, SignalBetween, SignalInPoll,
      Interrupt
  <2> QED BY <2>1 DEF Used, AllUsed
<1> QED BY <1>1, <1>2

\* A poll sleeps for its slice at most, and nothing else sleeps.
LEMMA PollStep ==
  ASSUME BrowserInv, PollInv, [Next]_vars
  PROVE  PollInv'
<1>1. /\ waited \in Nat /\ remaining \in Nat /\ Wait \in Nat
  BY BrowserAssumption DEF BrowserInv, TypeOK, SocketsTypeOK, Wait
<1>2. CASE PollSleep
  <2>1. pc' = "poll" /\ pc = "poll" /\ remaining' = remaining /\ Wait' = Wait /\ waited < Wait /\ waited' = waited + 1
    BY <1>2 DEF PollSleep, Sleep, cycle, Wait
  <2> QED BY <1>1, <2>1 DEF PollInv
<1>3. CASE PollExpire \/ HandleDatagram \/ SignalInPoll
  <2>1. pc = "poll" /\ NextSocket /\ waited' = 0
    BY <1>3 DEF PollExpire, HandleDatagram, SignalInPoll, Expire, Receive, Interrupt
  <2>2. pc' = "poll" => remaining' = remaining
    BY <2>1 DEF NextSocket
  <2>3. pc' = "poll" => Wait' = Wait
    BY <2>2 DEF Wait
  <2> QED BY <1>1, <2>1, <2>2, <2>3 DEF PollInv
<1>4. CASE BeginPass
  <2>1. pc = "receive" /\ waited' = waited /\ remaining' = remaining /\ remaining > 0
    BY <1>4 DEF BeginPass, sockVars, cycle
  <2>2. Wait' = Wait
    BY <2>1 DEF Wait
  <2> QED BY <1>1, <2>1, <2>2 DEF PollInv
<1>5. CASE DatagramArrives \/ SignalBetween \/ UNCHANGED vars
  <2>1. UNCHANGED <<pc, waited, remaining>>
    BY <1>5 DEF DatagramArrives, Arrive, SignalBetween, vars, procVars, cycle, sockVars
  <2>2. Wait' = Wait
    BY <2>1 DEF Wait
  <2> QED BY <2>1, <2>2 DEF PollInv
<1>6. CASE \/ LogInit \/ InstallHandlers \/ Listen \/ BeginCycle \/ SendQuery \/ SkipType \/ EndReceive
           \/ EndCycle \/ Stop \/ Report \/ SignalKills
  <2>1. pc # "poll" /\ pc' # "poll" /\ (waited' = waited \/ waited' = 0)
    BY <1>6 DEF LogInit, InstallHandlers, Listen, CreateListener, BeginCycle, SendQuery, SkipType, EndReceive,
      NextType, EndCycle, Stop, Report, CloseAll, SignalKills, Quit, sockVars
  <2> QED BY <2>1 DEF PollInv
<1> QED BY <1>2, <1>3, <1>4, <1>5, <1>6 DEF Next, BrowserStep

\* The clock keeps to what the cycles, the waits and the pass account for.
LEMMA ClockStep ==
  ASSUME BrowserInv, ClockInv, [Next]_vars
  PROVE  ClockInv'
<1>0. PollInv'
  BY PollStep DEF ClockInv
<1>1. /\ idx \in Nat /\ idx' \in Nat /\ clock \in Nat /\ clock' \in Nat /\ elapsed \in Nat
      /\ waited \in Nat /\ waited' \in Nat /\ remaining \in Nat /\ remaining' \in Nat
      /\ idx <= MaxTypes /\ idx' <= MaxTypes
      /\ total \in Nat /\ total' = total /\ Interval \in Nat \ {0} /\ Slice \in Nat
      /\ MaxTypes \in Nat /\ cur \in Family
  <2>1. TypeOK /\ TypeOK' /\ Len(types) \in Nat /\ Len(types') \in Nat
    <3>1. BrowserInv'
      BY StepInv
    <3> QED BY <3>1 DEF BrowserInv, ArraysInv
  <2>2. total' = total
    BY DEF Next, BrowserStep, vars, procVars, flags, LogInit, InstallHandlers, Listen, BeginCycle,
      SendQuery, SkipType, EndReceive, EndCycle, Stop, Report, BeginPass, PollSleep, PollExpire, HandleDatagram,
      DatagramArrives, SignalKills, SignalBetween, SignalInPoll
  <2>3. /\ Interval \in Nat \ {0} /\ Slice \in Nat /\ MaxTypes \in Nat
    BY BrowserAssumption
  <2>4. /\ idx \in Nat /\ clock \in Nat /\ elapsed \in Nat /\ waited \in Nat
        /\ remaining \in Nat /\ total \in Nat /\ cur \in Family /\ idx <= MaxTypes
    <3>1. /\ idx \in 0..Len(types) /\ Len(types) <= MaxTypes /\ clock \in Nat /\ elapsed \in Nat
          /\ waited \in Nat /\ remaining \in 0..Interval /\ total \in Timeouts /\ cur \in Family
      BY <2>1, Zenon DEF TypeOK, SocketsTypeOK
    <3>2. total \in Nat
      BY <3>1, BrowserAssumption
    <3> QED BY <2>1, <2>3, <3>1, <3>2
  <2>5. /\ idx' \in Nat /\ clock' \in Nat /\ waited' \in Nat /\ remaining' \in Nat
        /\ idx' <= MaxTypes
    <3>1. /\ idx' \in 0..Len(types') /\ Len(types') <= MaxTypes /\ clock' \in Nat
          /\ waited' \in Nat /\ remaining' \in 0..Interval
      BY <2>1, Zenon DEF TypeOK, SocketsTypeOK
    <3> QED BY <2>1, <2>3, <3>1
  <2> QED BY <2>2, <2>3, <2>4, <2>5
<1>2. /\ Used(V4) \in 0..1 /\ Used(V6) \in 0..1 /\ AllUsed = Used(V4) + Used(V6) /\ AllUsed \in 0..2
      /\ Used(V4)' \in 0..1 /\ AllUsed' \in 0..2
  BY DEF Used, AllUsed
<1>3. CASE pc \in StartUp
  <2>1. clock' = 0 /\ elapsed' = 0 /\ idx' = 0 /\ pc' \in StartUp \cup {"main", "exited"}
    BY <1>3 DEF ClockInv, StartUp, Next, BrowserStep, vars, procVars, flags, cycle, history, LogInit,
      InstallHandlers, Listen, BeginCycle, SendQuery, SkipType, EndReceive, EndCycle, Stop, Report, BeginPass,
      PollSleep, PollExpire, HandleDatagram, DatagramArrives, SignalKills, SignalBetween, SignalInPoll,
      Quit
  <2>2. ASSUME total > 0 PROVE ClockAt(0)'
    <3>1. Times(Interval, 0) = 0 /\ Times(CycleTicks, 0) = 0
      BY AfterFacts
    <3>2. Cycles' \in Nat /\ 0 < Cycles'
      <4>1. Times(Interval, 0) < total
        BY <1>1, <2>2, <3>1
      <4> QED BY <1>1, <4>1, IntervalsLeft DEF Cycles
    <3>3. CycleSleep' = 0 /\ PassSleep' = 0
      BY <2>1 DEF CycleSleep, PassSleep, StartUp
    <3>4. OnAll(AllUsed', 0) = 0
      BY DEF OnAll
    <3> QED BY <2>1, <3>1, <3>2, <3>3, <3>4 DEF ClockAt, CycleTicks
  <2> QED BY <1>0, <1>1, <2>1, <2>2 DEF ClockInv
<1>4. CASE pc \notin StartUp
  <2>1. pc' \notin StartUp /\ Used(V4)' = Used(V4) /\ AllUsed' = AllUsed
    <3>1. pc' \notin StartUp
      BY <1>4 DEF StartUp, Next, BrowserStep, vars, procVars, LogInit, InstallHandlers, Listen, Quit,
        BeginCycle, SendQuery, SkipType, EndReceive, NextType, EndCycle, Stop, Report, BeginPass, PollSleep,
        PollExpire, HandleDatagram, DatagramArrives, SignalKills, SignalBetween, SignalInPoll, NextSocket
    <3> QED BY <1>4, <3>1, UsedStays
  <2> SUFFICES ASSUME total > 0 PROVE \E k \in Nat : ClockAt(k)'
    BY <1>0, <1>1, <2>1 DEF ClockInv
  <2>2. PICK k \in Nat : ClockAt(k)
    BY DEF ClockInv
  <2> DEFINE T == Times(CycleTicks, k)
  <2>3. CycleTicks \in Nat /\ T \in Nat /\ Times(CycleTicks, k + 1) = T + CycleTicks
    BY AfterFacts, TimesFacts
  <2>4. \A i \in Nat : After(i) \in Nat /\ (i > 0 => After(i) = After(i - 1) + (Interval \div 2))
    BY AfterFacts
  <2>5. After(0) = Interval /\ \A i \in Nat : i <= MaxTypes => After(i) <= CycleTicks
    BY AfterFacts
  <2>6. Cycles \in Int /\ Cycles' = Cycles
    BY <1>1 DEF Cycles
  <2>7. /\ clock <= OnAll(AllUsed, T + CycleSleep) + PassSleep
        /\ elapsed = Times(Interval, k) /\ k <= Cycles
        /\ pc \notin {"report", "exited"} => k < Cycles
    BY <2>2 DEF ClockAt
  <2> HIDE DEF T
  <2>8. Wait \in Nat /\ Wait <= remaining /\ PollInv
    BY <1>1 DEF Wait, ClockInv
  <2>9. CycleSleep \in Int /\ PassSleep \in Nat /\ CycleSleep' \in Int /\ PassSleep' \in Nat
    <3>1. After(idx) \in Nat /\ After(idx') \in Nat
      BY <1>1, <2>4
    <3>2. (idx # 0 => After(idx - 1) \in Nat) /\ (idx' # 0 => After(idx' - 1) \in Nat)
      <4>1. \A i \in Nat : i # 0 => i - 1 \in Nat
        OBVIOUS
      <4> QED BY <1>1, <2>4, <4>1
    <3>3. CycleSleep \in Int /\ CycleSleep' \in Int
      BY <1>1, <3>1, <3>2 DEF CycleSleep
    <3>4. Wait' \in Nat
      BY <1>1 DEF Wait
    <3>5. /\ (IF cur = V6 /\ Used(V4) = 1 THEN Wait ELSE 0) \in Nat
          /\ (IF cur' = V6 /\ Used(V4)' = 1 THEN Wait' ELSE 0) \in Nat
      BY <2>8, <3>4
    <3>6. PassSleep \in Nat
      BY <1>1, <3>5 DEF PassSleep
    <3>7. PassSleep' \in Nat
      <4>1. CASE pc' # "poll"
        BY <4>1 DEF PassSleep
      <4>2. CASE pc' = "poll" /\ cur' = V6 /\ Used(V4) = 1
        <5>1. PassSleep' = waited' + Wait'
          BY <2>1, <4>2 DEF PassSleep
        <5>2. \A a, b \in Nat : a + b \in Nat
          OBVIOUS
        <5> QED BY <1>1, <3>4, <5>1, <5>2
      <4>3. CASE pc' = "poll" /\ ~(cur' = V6 /\ Used(V4) = 1)
        <5>1. PassSleep' = waited' + 0
          BY <2>1, <4>3 DEF PassSleep
        <5>2. \A a \in Nat : a + 0 \in Nat
          OBVIOUS
        <5> QED BY <1>1, <5>1, <5>2
      <4> QED BY <4>1, <4>2, <4>3
    <3> QED BY <3>3, <3>6, <3>7
  <2>10. ASSUME elapsed' = elapsed, pc' \in {"report", "exited"} \/ pc \notin {"report", "exited"},
                clock' <= OnAll(AllUsed, T + CycleSleep') + PassSleep'
         PROVE  ClockAt(k)'
    BY <2>1, <2>6, <2>7, <2>10 DEF ClockAt, T
  <2>11. ASSUME clock' = clock, CycleSleep' = CycleSleep, PassSleep <= PassSleep'
         PROVE  clock' <= OnAll(AllUsed, T + CycleSleep') + PassSleep'
    <3>1. OnAll(AllUsed, T + CycleSleep) \in Int
      BY <1>2, <2>3, <2>9 DEF OnAll
    <3> QED BY <1>1, <2>7, <2>9, <2>11, <3>1
  <2>12. CASE BeginCycle
    <3>1. /\ pc = "main" /\ pc' = "query" /\ idx' = 0 /\ UNCHANGED <<clock, elapsed>>
      BY <2>12 DEF BeginCycle
    <3>2. CycleSleep' = 0 /\ CycleSleep = 0 /\ PassSleep = 0 /\ PassSleep' = 0
      BY <3>1 DEF CycleSleep, PassSleep
    <3> QED BY <2>10, <2>11, <3>1, <3>2
  <2>13. CASE SendQuery
    <3>1. /\ pc = "query" /\ pc' = "receive" /\ UNCHANGED <<clock, elapsed, idx>>
          /\ remaining' = IF idx = 0 THEN Interval ELSE Interval \div 2
      BY <2>13 DEF SendQuery
    <3>2. CycleSleep' = After(idx) - remaining'
      BY <3>1 DEF CycleSleep
    <3>3. CycleSleep = IF idx = 0 THEN 0 ELSE After(idx - 1)
      BY <3>1 DEF CycleSleep
    <3>4. CASE idx = 0
      BY <1>1, <2>5, <3>1, <3>2, <3>3, <3>4, <2>10, <2>11 DEF PassSleep
    <3>5. CASE idx # 0
      <4>1. After(idx) = After(idx - 1) + (Interval \div 2) /\ After(idx - 1) \in Nat
        <5>1. idx - 1 \in Nat
          BY <1>1, <3>5
        <5> QED BY <1>1, <2>4, <3>5, <5>1
      <4>2. CycleSleep' = CycleSleep
        BY <1>1, <3>1, <3>2, <3>3, <3>5, <4>1
      <4>3. PassSleep = 0 /\ PassSleep' = 0
        BY <3>1 DEF PassSleep
      <4> QED BY <2>10, <2>11, <3>1, <4>2, <4>3
    <3> QED BY <3>4, <3>5
  <2>131. CASE SkipType
    <3>1. /\ pc = "query" /\ UNCHANGED <<clock, elapsed>>
          /\ \/ idx' = idx + 1 /\ pc' = "query"
             \/ idx' = idx /\ pc' = "endcycle"
      BY <2>131 DEF SkipType, NextType, history
    <3>2. idx # 0
      BY <2>131, BrowserAssumption DEF SkipType, Wanted
    <3>3. CycleSleep = After(idx - 1)
      BY <3>1, <3>2 DEF CycleSleep
    <3>4. CycleSleep' = After(idx)
      <4>1. CASE idx' = idx + 1 /\ pc' = "query"
        <5>1. CycleSleep' = After(idx' - 1) /\ idx' - 1 = idx
          BY <1>1, <4>1 DEF CycleSleep
        <5> QED BY <5>1
      <4>2. CASE idx' = idx /\ pc' = "endcycle"
        BY <4>2 DEF CycleSleep
      <4> QED BY <3>1, <4>1, <4>2
    <3>5. CycleSleep <= CycleSleep'
      <4>1. After(idx) = After(idx - 1) + (Interval \div 2) /\ After(idx - 1) \in Nat
        <5>1. idx - 1 \in Nat
          BY <1>1, <3>2
        <5> QED BY <1>1, <2>4, <3>2, <5>1
      <4>2. Interval \div 2 \in Nat
        BY <1>1
      <4> QED BY <3>3, <3>4, <4>1, <4>2
    <3>6. PassSleep = 0 /\ PassSleep' = 0
      BY <3>1 DEF PassSleep
    <3>7. clock' <= OnAll(AllUsed, T + CycleSleep') + PassSleep'
      <4>1. T + CycleSleep <= T + CycleSleep' /\ T + CycleSleep \in Int /\ T + CycleSleep' \in Int
        <5>1. \A a, b, c \in Int : b <= c => a + b <= a + c /\ a + b \in Int /\ a + c \in Int
          OBVIOUS
        <5>2. T \in Int /\ CycleSleep \in Int /\ CycleSleep' \in Int
          BY <2>3, <2>9
        <5> QED BY <3>5, <5>1, <5>2
      <4>2. /\ OnAll(AllUsed, T + CycleSleep) <= OnAll(AllUsed, T + CycleSleep')
            /\ OnAll(AllUsed, T + CycleSleep) \in Int /\ OnAll(AllUsed, T + CycleSleep') \in Int
        BY <1>2, <4>1, OnAllFacts
      <4> QED BY <1>1, <2>7, <3>1, <3>6, <4>2
    <3> QED BY <2>10, <3>1, <3>7
  <2>14. CASE EndReceive
    <3>1. /\ pc = "received" \/ (pc = "receive" /\ remaining = 0)
          /\ UNCHANGED <<clock, elapsed>>
          /\ \/ idx' = idx + 1 /\ pc' = "query"
             \/ idx' = idx /\ pc' = "endcycle"
      BY <1>1, <2>14 DEF EndReceive, NextType, history
    <3>2. CycleSleep = After(idx)
      BY <1>1, <2>4, <3>1 DEF CycleSleep
    <3>3. CycleSleep' = After(idx)
      <4>1. CASE idx' = idx + 1 /\ pc' = "query"
        <5>1. CycleSleep' = After(idx' - 1) /\ idx' - 1 = idx
          BY <1>1, <4>1 DEF CycleSleep
        <5> QED BY <5>1
      <4>2. CASE idx' = idx /\ pc' = "endcycle"
        BY <4>2 DEF CycleSleep
      <4> QED BY <3>1, <4>1, <4>2
    <3>4. PassSleep = 0 /\ PassSleep' = 0
      BY <3>1 DEF PassSleep
    <3> QED BY <2>10, <2>11, <3>1, <3>2, <3>3, <3>4
  <2>15. CASE BeginPass
    <3>1. pc = "receive" /\ pc' = "poll" /\ UNCHANGED <<clock, elapsed, idx, remaining>>
      BY <2>15 DEF BeginPass, cycle, history
    <3>2. CycleSleep' = CycleSleep /\ PassSleep = 0
      BY <3>1 DEF CycleSleep, PassSleep
    <3> QED BY <2>9, <2>10, <2>11, <3>1, <3>2
  <2>16. CASE PollSleep
    <3>1. /\ pc = "poll" /\ clock' = clock + 1 /\ waited' = waited + 1
          /\ UNCHANGED <<pc, cur, elapsed, idx, remaining>>
      BY <2>16 DEF PollSleep, Sleep, cycle
    <3>2. CycleSleep' = CycleSleep
      BY <3>1 DEF CycleSleep
    <3>3. PassSleep' = PassSleep + 1
      <4>1. Wait' = Wait
        BY <3>1 DEF Wait
      <4> QED BY <1>1, <2>1, <2>8, <3>1, <4>1 DEF PassSleep
    <3>4. OnAll(AllUsed, T + CycleSleep) \in Int
      BY <1>2, <2>3, <2>9 DEF OnAll
    <3>5. clock' <= OnAll(AllUsed, T + CycleSleep') + PassSleep'
      BY <1>1, <2>7, <2>9, <3>1, <3>2, <3>3, <3>4
    <3> QED BY <2>10, <3>1, <3>5
  <2>17. CASE PollExpire \/ HandleDatagram \/ SignalInPoll
    <3>1. pc = "poll" /\ NextSocket /\ waited' = 0 /\ UNCHANGED <<clock, elapsed, idx, fd>>
      BY <2>17 DEF PollExpire, HandleDatagram, SignalInPoll, Expire, Receive, Interrupt, history
    <3>2. waited <= Wait /\ CycleSleep = After(idx) - remaining
      BY <2>8, <3>1 DEF PollInv, CycleSleep
    <3>3. Open(cur) /\ \A s \in Family : fd[s] \in {"none", "open"}
      BY <3>1 DEF BrowserInv, DescriptorInv, TypeOK, SocketsTypeOK
    <3>4. Used(cur) = 1
      BY <3>3 DEF Used, Open
    <3>5. CASE cur = V4 /\ Open(V6)
      <4>1. cur' = V6 /\ UNCHANGED <<pc, remaining>>
        BY <3>1, <3>5 DEF NextSocket
      <4>2. CycleSleep' = CycleSleep
        BY <3>1, <4>1 DEF CycleSleep
      <4>3. PassSleep = waited
        BY <1>1, <3>1, <3>5 DEF PassSleep, V4, V6
      <4>4. PassSleep' = Wait
        <5>1. Wait' = Wait
          BY <4>1 DEF Wait
        <5> QED BY <2>1, <2>8, <3>1, <3>4, <3>5, <4>1, <5>1 DEF PassSleep
      <4> QED BY <2>10, <2>11, <3>1, <3>2, <4>2, <4>3, <4>4
    <3>6. CASE ~(cur = V4 /\ Open(V6))
      <4>1. remaining' = remaining - Wait /\ pc' \in {"received", "receive"}
        BY <3>1, <3>6 DEF NextSocket
      <4>2. CycleSleep + Wait <= CycleSleep'
        <5>1. After(idx) \in Nat
          BY <1>1, <2>4
        <5>2. CycleSleep' = After(idx) \/ CycleSleep' = After(idx) - (remaining - Wait)
          BY <3>1, <4>1 DEF CycleSleep
        <5> QED BY <1>1, <2>8, <3>2, <5>1, <5>2
      <4>3. PassSleep <= OnAll(AllUsed, Wait)
        <5>1. CASE cur = V4
          <6>1. Used(V4) = 1 /\ Used(V6) = 0
            BY <3>3, <3>4, <3>6, <5>1 DEF Used, Open, Family
          <6> QED BY <1>1, <1>2, <2>8, <3>1, <3>2, <5>1, <6>1 DEF PassSleep, OnAll, V4, V6
        <5>2. CASE cur = V6
          <6>1. Used(V6) = 1
            BY <3>4, <5>2
          <6> QED BY <1>1, <1>2, <2>8, <3>1, <3>2, <5>2, <6>1 DEF PassSleep, OnAll
        <5> QED BY <1>1, <5>1, <5>2 DEF Family
      <4>4. /\ OnAll(AllUsed, T + CycleSleep + Wait)
                 = OnAll(AllUsed, T + CycleSleep) + OnAll(AllUsed, Wait)
            /\ OnAll(AllUsed, T + CycleSleep) \in Int /\ OnAll(AllUsed, Wait) \in Int
        BY <1>2, <2>3, <2>8, <2>9 DEF OnAll
      <4>5. /\ OnAll(AllUsed, T + CycleSleep + Wait) <= OnAll(AllUsed, T + CycleSleep')
            /\ OnAll(AllUsed, T + CycleSleep') \in Int
        <5>1. T + CycleSleep + Wait <= T + CycleSleep'
          <6>1. \A a, b, c, d \in Int : b + c <= d => a + b + c <= a + d
            OBVIOUS
          <6>2. T \in Int /\ Wait \in Int /\ CycleSleep \in Int /\ CycleSleep' \in Int
            BY <2>3, <2>8, <2>9
          <6> QED BY <4>2, <6>1, <6>2
        <5>2. T + CycleSleep + Wait \in Int /\ T + CycleSleep' \in Int
          BY <2>3, <2>8, <2>9
        <5> QED BY <1>2, <2>1, <5>1, <5>2, OnAllFacts
      <4>6. clock' <= OnAll(AllUsed, T + CycleSleep') + PassSleep'
        BY <1>1, <2>7, <2>9, <3>1, <4>3, <4>4, <4>5
      <4> QED BY <2>10, <3>1, <4>6
    <3> QED BY <3>5, <3>6
  <2>18. CASE EndCycle
    <3>1. /\ pc = "endcycle" /\ clock' = clock /\ elapsed' = elapsed + Interval
          /\ pc' = IF elapsed' >= total THEN "report" ELSE "main"
      BY <2>18 DEF EndCycle, history
    <3>2. elapsed' = Times(Interval, k + 1) /\ k + 1 \in Nat
      BY <1>1, <2>7, <3>1, TimesFacts
    <3>3. k + 1 <= Cycles /\ (pc' # "report" => k + 1 < Cycles)
      <4>1. k + 1 <= Cycles
        BY <2>6, <2>7, <3>1
      <4>2. CASE elapsed' < total
        BY <1>1, <3>2, <4>1, <4>2, IntervalsLeft DEF Cycles
      <4>3. CASE ~(elapsed' < total)
        BY <1>1, <3>1, <4>1, <4>3
      <4> QED BY <4>2, <4>3
    <3>4. CycleSleep = After(idx) /\ CycleSleep' = 0 /\ PassSleep = 0 /\ PassSleep' = 0
      BY <3>1 DEF CycleSleep, PassSleep
    <3>5. After(idx) <= CycleTicks /\ After(idx) \in Nat
      BY <1>1, <2>4, <2>5
    <3>6. clock' <= OnAll(AllUsed, T + CycleTicks)
      BY <1>1, <1>2, <2>3, <2>7, <3>1, <3>4, <3>5 DEF OnAll
    <3>7. ClockAt(k + 1)'
      <4>1. pc' \notin {"report", "exited"} => k + 1 < Cycles'
        BY <2>6, <3>3
      <4>2. clock' <= OnAll(AllUsed', Times(CycleTicks, k + 1) + CycleSleep') + PassSleep'
        <5>1. Times(CycleTicks, k + 1) + CycleSleep' = T + CycleTicks
          BY <2>3, <3>4
        <5>2. OnAll(AllUsed, T + CycleTicks) \in Int
          BY <1>2, <2>3 DEF OnAll
        <5> QED BY <2>1, <3>4, <3>6, <5>1, <5>2
      <4> QED BY <2>6, <3>2, <3>3, <4>1, <4>2 DEF ClockAt
    <3> QED BY <3>2, <3>7
  <2>19. CASE Stop \/ Report
    <3>1. pc' \in {"report", "exited"} /\ pc \in {"main", "report"} /\ UNCHANGED <<clock, elapsed>>
      BY <2>19 DEF Stop, Report, Quit, cycle, history
    <3>2. CycleSleep = 0 /\ CycleSleep' = 0 /\ PassSleep = 0 /\ PassSleep' = 0
      BY <3>1 DEF CycleSleep, PassSleep
    <3> QED BY <2>10, <2>11, <3>1, <3>2
  <2>20. CASE DatagramArrives \/ SignalBetween \/ UNCHANGED vars
    <3>1. UNCHANGED <<pc, cur, idx, remaining, waited, clock, elapsed>>
      BY <2>20 DEF DatagramArrives, Arrive, SignalBetween, vars, procVars, cycle, history, sockVars
    <3>2. CycleSleep' = CycleSleep
      BY <3>1 DEF CycleSleep
    <3>3. PassSleep' = PassSleep
      <4>1. Wait' = Wait
        BY <3>1 DEF Wait
      <4> QED BY <2>1, <3>1, <4>1 DEF PassSleep
    <3>4. clock' <= OnAll(AllUsed, T + CycleSleep') + PassSleep'
      BY <2>9, <2>11, <3>1, <3>2, <3>3
    <3>5. CASE pc \in {"report", "exited"}
      BY <2>10, <3>1, <3>4, <3>5
    <3>6. CASE pc \notin {"report", "exited"}
      BY <2>10, <3>1, <3>4, <3>6
    <3> QED BY <3>5, <3>6
  <2>21. ~(LogInit \/ InstallHandlers \/ Listen \/ SignalKills)
    BY <1>4 DEF StartUp, LogInit, InstallHandlers, Listen, SignalKills
  <2> QED BY <2>12, <2>13, <2>131, <2>14, <2>15, <2>16, <2>17, <2>18, <2>19, <2>20, <2>21 DEF Next, BrowserStep
<1> QED BY <1>3, <1>4

\* With a total timeout the browser sleeps, on each socket it has, an
\* interval and half of one for each service type it may hold, in as many
\* cycles as there are intervals in the timeout.
THEOREM BrowserSleepBounded == Spec => []SleepBounded
<1>1. Init => ClockInv
  <2> SUFFICES ASSUME Init PROVE ClockInv
    OBVIOUS
  <2>1. /\ pc = "log" /\ clock = 0 /\ elapsed = 0 /\ idx = 0 /\ waited = 0 /\ total \in Nat
        /\ Interval \in Nat \ {0}
    BY BrowserAssumption DEF Init, SocketsInit
  <2>2. ASSUME total > 0 PROVE ClockAt(0)
    <3>1. Times(Interval, 0) = 0 /\ Times(CycleTicks, 0) = 0
      BY AfterFacts
    <3>2. Cycles \in Nat /\ 0 < Cycles
      <4>1. Times(Interval, 0) < total
        BY <2>1, <2>2, <3>1
      <4> QED BY <2>1, <4>1, IntervalsLeft DEF Cycles
    <3>3. CycleSleep = 0 /\ PassSleep = 0 /\ OnAll(AllUsed, 0) = 0
      BY <2>1 DEF CycleSleep, PassSleep, OnAll
    <3> QED BY <2>1, <3>1, <3>2, <3>3 DEF ClockAt
  <2> QED BY <2>1, <2>2 DEF ClockInv, PollInv
<1>2. BrowserInv /\ ClockInv => SleepBounded
  <2> SUFFICES ASSUME BrowserInv, ClockInv, total > 0
               PROVE  clock <= Cardinality(UsedSockets) * Cycles * CycleTicks
    BY DEF SleepBounded
  <2>1. PICK k \in Nat : ClockAt(k)
    BY DEF ClockInv
  <2>2. AllUsed \in 0..2 /\ Used(V4) \in 0..1 /\ Used(V6) \in 0..1 /\ AllUsed = Used(V4) + Used(V6)
    BY DEF Used, AllUsed
  <2>3. Cardinality(UsedSockets) = AllUsed
    <3>1. V4 # V6
      BY DEF V4, V6
    <3>2. CASE Used(V4) = 0 /\ Used(V6) = 0
      <4>1. UsedSockets = {}
        BY <3>2 DEF UsedSockets, Used, Family
      <4> QED BY <2>2, <3>2, <4>1, FS_EmptySet
    <3>3. CASE Used(V4) = 1 /\ Used(V6) = 0
      <4>1. UsedSockets = {V4}
        BY <3>3 DEF UsedSockets, Used, Family
      <4> QED BY <2>2, <3>3, <4>1, FS_Singleton
    <3>4. CASE Used(V4) = 0 /\ Used(V6) = 1
      <4>1. UsedSockets = {V6}
        BY <3>4 DEF UsedSockets, Used, Family
      <4>2. Cardinality({V6}) = 1
        BY FS_Singleton
      <4> QED BY <2>2, <3>4, <4>1, <4>2
    <3>5. CASE Used(V4) = 1 /\ Used(V6) = 1
      <4>1. UsedSockets = {V4} \cup {V6} /\ V6 \notin {V4}
        BY <3>1, <3>5 DEF UsedSockets, Used, Family
      <4>2. Cardinality({V4}) = 1 /\ IsFiniteSet({V4})
        BY FS_Singleton
      <4>3. Cardinality({V4} \cup {V6}) = Cardinality({V4}) + 1
        BY <4>1, <4>2, FS_AddElement
      <4> QED BY <2>2, <3>5, <4>1, <4>2, <4>3
    <3> QED BY <2>2, <3>2, <3>3, <3>4, <3>5
  <2>4. /\ clock \in Nat /\ idx \in Nat /\ idx <= MaxTypes /\ waited \in Nat /\ remaining \in Nat
        /\ Interval \in Nat \ {0} /\ MaxTypes \in Nat /\ total \in Nat /\ Slice \in Nat
        /\ cur \in Family
    <3>1. Len(types) \in Nat
      BY DEF BrowserInv, ArraysInv
    <3> QED BY <3>1, BrowserAssumption DEF BrowserInv, TypeOK, SocketsTypeOK
  <2> DEFINE T == Times(CycleTicks, k)
  <2>5. /\ clock <= OnAll(AllUsed, T + CycleSleep) + PassSleep
        /\ k <= Cycles /\ (pc \notin {"report", "exited"} => k < Cycles)
    BY <2>1 DEF ClockAt
  <2>6. CycleTicks \in Nat /\ Cycles \in Nat
    <3>1. Cycles \in Int
      BY <2>4 DEF Cycles
    <3> QED BY <2>5, <3>1, AfterFacts
  <2>7. T \in Nat /\ Times(CycleTicks, Cycles) \in Nat /\ T <= Times(CycleTicks, Cycles)
    BY <2>5, <2>6, TimesFacts, TimesMonotone
  <2>8. clock <= OnAll(AllUsed, Times(CycleTicks, Cycles))
    <3>1. CASE pc \in {"query", "receive", "received", "endcycle", "poll"}
      <4>1. T + CycleTicks <= Times(CycleTicks, Cycles)
        <5>1. k + 1 \in Nat /\ k + 1 <= Cycles
          BY <2>5, <2>6, <3>1
        <5>2. Times(CycleTicks, k + 1) <= Times(CycleTicks, Cycles)
          BY <2>6, <5>1, TimesMonotone
        <5>3. Times(CycleTicks, k + 1) = T + CycleTicks
          BY <2>6, TimesFacts
        <5> QED BY <5>2, <5>3
      <4>2. /\ After(idx) \in Nat /\ After(idx) <= CycleTicks
            /\ idx # 0 => After(idx - 1) \in Nat /\ After(idx - 1) <= CycleTicks
        <5>1. idx # 0 => idx - 1 \in Nat /\ idx - 1 <= MaxTypes
          BY <2>4
        <5> QED BY <2>4, <5>1, AfterFacts
      <4>3. CASE pc = "poll"
        <5>1. CycleSleep = After(idx) - remaining
          BY <4>3 DEF CycleSleep
        <5>2. waited <= Wait /\ Wait \in Nat /\ Wait <= remaining
          BY <2>4, <4>3 DEF ClockInv, PollInv, Wait
        <5>3. PassSleep <= OnAll(AllUsed, Wait) /\ PassSleep \in Nat
          <6>1. Used(cur) = 1
            BY <4>3 DEF BrowserInv, DescriptorInv, Open, Used
          <6>2. CASE cur = V4
            BY <2>2, <2>4, <4>3, <5>2, <6>1, <6>2 DEF PassSleep, OnAll, V4, V6
          <6>3. CASE cur = V6
            BY <2>2, <2>4, <4>3, <5>2, <6>1, <6>3 DEF PassSleep, OnAll
          <6> QED BY <2>4, <6>2, <6>3 DEF Family
        <5>4. T + CycleSleep + Wait <= Times(CycleTicks, Cycles) /\ CycleSleep \in Int
          BY <2>4, <2>6, <2>7, <4>1, <4>2, <5>1, <5>2
        <5> HIDE DEF T
        <5>5. /\ OnAll(AllUsed, T + CycleSleep + Wait)
                   = OnAll(AllUsed, T + CycleSleep) + OnAll(AllUsed, Wait)
              /\ OnAll(AllUsed, T + CycleSleep) \in Int /\ OnAll(AllUsed, Wait) \in Int
          BY <2>2, <2>7, <5>2, <5>4 DEF OnAll
        <5>6. /\ OnAll(AllUsed, T + CycleSleep + Wait)
                   <= OnAll(AllUsed, Times(CycleTicks, Cycles))
              /\ OnAll(AllUsed, Times(CycleTicks, Cycles)) \in Int
          <6>1. T + CycleSleep + Wait \in Int /\ Times(CycleTicks, Cycles) \in Int
            BY <2>7, <5>2, <5>4
          <6> QED BY <2>2, <5>4, <6>1, OnAllFacts
        <5> QED BY <2>4, <2>5, <5>3, <5>5, <5>6
      <4>4. CASE pc # "poll"
        <5>1. PassSleep = 0
          BY <4>4 DEF PassSleep
        <5>2. CycleSleep \in Int /\ CycleSleep <= CycleTicks
          <6>1. CASE pc = "query"
            BY <2>6, <4>2, <6>1 DEF CycleSleep
          <6>2. CASE pc = "receive"
            <7>1. CycleSleep = After(idx) - remaining
              BY <6>2 DEF CycleSleep
            <7> QED BY <2>4, <2>6, <4>2, <7>1
          <6>3. CASE pc \in {"received", "endcycle"}
            BY <2>6, <4>2, <6>3 DEF CycleSleep
          <6> QED BY <3>1, <4>4, <6>1, <6>2, <6>3
        <5> HIDE DEF T
        <5>3. T + CycleSleep \in Int /\ T + CycleSleep <= Times(CycleTicks, Cycles)
          BY <2>6, <2>7, <4>1, <5>2
        <5>4. /\ OnAll(AllUsed, T + CycleSleep) <= OnAll(AllUsed, Times(CycleTicks, Cycles))
              /\ OnAll(AllUsed, Times(CycleTicks, Cycles)) \in Int
              /\ OnAll(AllUsed, T + CycleSleep) \in Int
          <6>1. Times(CycleTicks, Cycles) \in Int
            BY <2>7
          <6> QED BY <2>2, <5>3, <6>1, OnAllFacts
        <5> QED BY <2>4, <2>5, <5>1, <5>4
      <4> QED BY <4>3, <4>4
    <3>2. CASE pc \notin {"query", "receive", "received", "endcycle", "poll"}
      <4>1. CycleSleep = 0 /\ PassSleep = 0
        BY <3>2 DEF CycleSleep, PassSleep
      <4> HIDE DEF T
      <4>2. clock <= OnAll(AllUsed, T)
        BY <2>2, <2>4, <2>5, <2>7, <4>1 DEF OnAll
      <4>3. OnAll(AllUsed, T) <= OnAll(AllUsed, Times(CycleTicks, Cycles))
            /\ OnAll(AllUsed, T) \in Int /\ OnAll(AllUsed, Times(CycleTicks, Cycles)) \in Int
        <5>1. T \in Int /\ Times(CycleTicks, Cycles) \in Int
          BY <2>7
        <5> QED BY <2>2, <2>7, <5>1, OnAllFacts
      <4> QED BY <2>4, <4>2, <4>3
    <3> QED BY <3>1, <3>2
  <2>9. OnAll(AllUsed, Times(CycleTicks, Cycles)) = AllUsed * Cycles * CycleTicks
    <3> DEFINE p == CycleTicks * Cycles
    <3>1. Times(CycleTicks, Cycles) = p /\ p \in Nat
      BY <2>7 DEF Times
    <3>2. AllUsed * Cycles * CycleTicks = AllUsed * p
      BY <2>2, <2>6
    <3> HIDE DEF p
    <3>3. OnAll(AllUsed, p) = AllUsed * p
      BY <2>2, <3>1 DEF OnAll
    <3> QED BY <3>1, <3>2, <3>3
  <2> QED BY <2>3, <2>8, <2>9
<1> QED BY <1>1, <1>2, ClockStep, BrowserInvariant, PTL DEF Spec

----------------------------------------------------------------------------
(* The browser implements Seeker. *)

\* The passes over the rows are the same in both.
LEMMA SamePasses ==
  /\ \A a, m, b : Seeking!AppendUnique(a, m, b) = AppendUnique(a, m, b)
  /\ \A a, m : Seeking!ServiceTypes(a, m) = ServiceTypes(a, m)
  /\ \A a : Seeking!Merge(a) = Merge(a)
<1>1. \A a, m, b : Seeking!AppendUnique(a, m, b) = AppendUnique(a, m, b)
  BY Zenon DEF Seeking!AppendUnique, Seeking!AppendRow, Seeking!Alike, AppendUnique, AppendRow, Alike
<1>2. \A a, m : Seeking!ServiceTypes(a, m) = ServiceTypes(a, m)
  BY Zenon DEF Seeking!ServiceTypes, Seeking!AddType, Seeking!NamesType, Seeking!EnumType,
     ServiceTypes, AddType, NamesType, EnumType
<1>3. \A a : Seeking!Merge(a) = Merge(a)
  BY Zenon DEF Seeking!Merge, Seeking!MergeRow, Seeking!Mergeable, Seeking!Fill, Seeking!EnumType,
     Seeking!Min, Merge, MergeRow, Mergeable, Fill, EnumType, Min
<1> QED BY <1>1, <1>2, <1>3

\* So is the name in hand.
LEMMA SameWanted == Seeking!Wanted = Wanted
BY DEF Seeking!Wanted, Seeking!EnumType, Wanted, EnumType

\* The statements of each phase.
LEMMA PhaseOf ==
  /\ pc \in {"log", "handlers", "listen"} => Phase = "off"
  /\ pc = "query" => Phase = "ask"
  /\ pc \in {"receive", "poll", "received"} => Phase = "hear"
  /\ pc \in {"main", "endcycle", "report"} => Phase = "idle"
  /\ pc = "exited" => Phase = "over"
BY DEF Phase

LEMMA PhaseOfNext ==
  /\ pc' \in {"log", "handlers", "listen"} => Phase' = "off"
  /\ pc' = "query" => Phase' = "ask"
  /\ pc' \in {"receive", "poll", "received"} => Phase' = "hear"
  /\ pc' \in {"main", "endcycle", "report"} => Phase' = "idle"
  /\ pc' = "exited" => Phase' = "over"
BY DEF Phase

\* Every step is one of Seeker's, or none.
LEMMA SeekingStep ==
  ASSUME BrowserInv, [Next]_vars
  PROVE  [Seeking!Next]_(Seeking!seekerVars)
<1> USE DEF Seeking!seekerVars
<1> DEFINE Same == UNCHANGED <<results, types, idx, table>>
<1>1. CASE LogInit \/ InstallHandlers \/ Listen \/ SignalKills
  <2>1. Same /\ pc \in {"log", "handlers", "listen"}
           /\ pc' \in {"log", "handlers", "listen", "main", "exited"}
    BY <1>1 DEF LogInit, InstallHandlers, Listen, SignalKills, Quit, cycle
  <2>2. CASE pc' \in {"log", "handlers", "listen"}
    BY <2>1, <2>2, PhaseOf, PhaseOfNext
  <2>3. CASE pc' \in {"main", "exited"}
    <3>1. Seeking!Start
      BY <2>1, <2>3, PhaseOf, PhaseOfNext DEF Seeking!Start
    <3> QED BY <3>1 DEF Seeking!Next
  <2> QED BY <2>1, <2>2, <2>3
<1>2. CASE BeginCycle
  <2>1. /\ pc = "main" /\ pc' = "query" /\ idx' = 0 /\ types' = << >>
        /\ UNCHANGED <<results, table>>
    BY <1>2 DEF BeginCycle
  <2>2. Seeking!Begin
    BY <2>1, PhaseOf, PhaseOfNext DEF Seeking!Begin
  <2> QED BY <2>2 DEF Seeking!Next
<1>3. CASE SendQuery
  <2>1. pc = "query" /\ pc' = "receive" /\ Same /\ QueryFor[Wanted] # NoQuery
    BY <1>3 DEF SendQuery
  <2>2. Seeking!Wanted \notin {t \in TypeNames : QueryFor[t] = NoQuery}
    BY <2>1, SameWanted
  <2>3. Seeking!Ask
    BY <2>1, <2>2, PhaseOf, PhaseOfNext DEF Seeking!Ask
  <2> QED BY <2>3 DEF Seeking!Next
<1>31. CASE SkipType
  <2>1. /\ pc = "query" /\ UNCHANGED <<results, types, table>> /\ QueryFor[Wanted] = NoQuery
        /\ IF idx < Len(types) THEN idx' = idx + 1 /\ pc' = "query"
           ELSE pc' = "endcycle" /\ UNCHANGED idx
    BY <1>31 DEF SkipType, NextType
  <2>2. Wanted \in TypeNames
    <3>1. types \in Seq(Instances) /\ idx \in 0..Len(types)
      BY DEF BrowserInv, TypeOK, ArraysInv
    <3> QED BY <3>1 DEF Wanted, TypeNames, Instances
  <2>3. Seeking!Wanted \in {t \in TypeNames : QueryFor[t] = NoQuery}
    BY <2>1, <2>2, SameWanted
  <2>4. Phase = "ask"
    BY <2>1, PhaseOf
  <2>5. IF idx < Len(types) THEN idx' = idx + 1 /\ UNCHANGED Phase
        ELSE Phase' = "idle" /\ UNCHANGED idx
    BY <2>1, <2>4, PhaseOfNext
  <2>6. Seeking!Skip
    BY <2>1, <2>3, <2>4, <2>5 DEF Seeking!Skip
  <2> QED BY <2>6 DEF Seeking!Next
<1>4. CASE EndReceive
  <2>1. /\ pc \in {"receive", "received"} /\ UNCHANGED <<results, table>>
        /\ types' = IF idx = 0 THEN ServiceTypes(results, MaxTypes) ELSE types
        /\ IF idx < Len(types') THEN idx' = idx + 1 /\ pc' = "query"
           ELSE pc' = "endcycle" /\ UNCHANGED idx
    BY <1>4 DEF EndReceive, NextType
  <2>2. Phase = "hear"
    BY <2>1, PhaseOf
  <2>3. IF idx < Len(types') THEN Phase' = "ask" /\ idx' = idx + 1
        ELSE Phase' = "idle" /\ UNCHANGED idx
    BY <2>1, PhaseOfNext
  <2>4. Seeking!EndWait
    BY <2>1, <2>2, <2>3, SamePasses DEF Seeking!EndWait
  <2> QED BY <2>4 DEF Seeking!Next
<1>5. CASE EndCycle \/ Stop
  <2>1. Same /\ pc \in {"endcycle", "main"} /\ pc' \in {"report", "main"}
    BY <1>5 DEF EndCycle, Stop, cycle
  <2> QED BY <2>1, PhaseOf, PhaseOfNext
<1>6. CASE Report
  <2>1. /\ pc = "report" /\ pc' = "exited" /\ table' = Merge(results)
        /\ UNCHANGED <<results, types, idx>>
    BY <1>6 DEF Report, Quit
  <2>2. Seeking!Show
    BY <2>1, PhaseOf, PhaseOfNext, SamePasses DEF Seeking!Show
  <2> QED BY <2>2 DEF Seeking!Next
<1>7. CASE BeginPass \/ PollSleep \/ PollExpire \/ SignalInPoll
  <2>1. Same /\ pc \in {"receive", "poll"} /\ pc' \in {"receive", "poll", "received"}
    BY <1>7 DEF BeginPass, PollSleep, PollExpire, SignalInPoll, NextSocket, cycle
  <2> QED BY <2>1, PhaseOf, PhaseOfNext
<1>8. CASE HandleDatagram
  <2> DEFINE d == Head(queue[cur])
  <2>1. /\ pc = "poll" /\ pc' \in {"receive", "poll", "received"}
        /\ results' = AppendUnique(results, MaxResults, ParseAnswers(d))
        /\ UNCHANGED <<types, idx, table>>
    BY <1>8 DEF HandleDatagram, NextSocket
  <2>2. d \in Datagrams
    <3>1. queue[cur] \in Seq(Datagrams) /\ queue[cur] # << >>
      BY <1>8 DEF BrowserInv, TypeOK, SocketsTypeOK, HandleDatagram, Receive
    <3> QED BY <3>1
  <2>3. Phase = "hear" /\ Phase' = "hear"
    BY <2>1, PhaseOf, PhaseOfNext
  <2> HIDE DEF d
  <2>4. Seeking!Hear(ParseAnswers(d))
    BY <2>1, <2>3, SamePasses DEF Seeking!Hear
  <2>5. ParseAnswers(d) \in {ParseAnswers(e) : e \in Datagrams}
    BY <2>2
  <2> QED BY <2>4, <2>5 DEF Seeking!Next
<1>9. CASE DatagramArrives \/ SignalBetween \/ UNCHANGED vars
  <2>1. Same /\ pc' = pc
    BY <1>9 DEF DatagramArrives, SignalBetween, vars, procVars, cycle
  <2>2. Phase' = Phase
    BY <2>1 DEF Phase
  <2> QED BY <2>1, <2>2
<1> QED BY <1>1, <1>2, <1>3, <1>31, <1>4, <1>5, <1>6, <1>7, <1>8, <1>9 DEF Next, BrowserStep

\* However sockets, polls and signals interleave, and whatever fails at
\* start-up, the browser asks, hears and shows as Seeker does, and passes
\* over a type it cannot ask for as Seeker does.
THEOREM BrowserSeeks == Spec => ActsAsSeeker
<1>1. Init => Seeking!Init
  BY PhaseOf DEF Init, Seeking!Init
<1>2. BrowserInv /\ [Next]_vars => [Seeking!Next]_(Seeking!seekerVars)
  BY SeekingStep
<1> QED BY <1>1, <1>2, BrowserInvariant, PTL DEF Spec, ActsAsSeeker, Seeking!Spec
=============================================================================
