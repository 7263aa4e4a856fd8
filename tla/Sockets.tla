------------------------------ MODULE Sockets ------------------------------
(***************************************************************************)
(* The two UDP sockets every umdns program owns (src/src/common/socket.c): *)
(* a listener per address family, the kernel's receive queue behind it,    *)
(* and umdns_socket_recv_with_timeout, a poll(2) that may sleep followed   *)
(* by one recvfrom(2).                                                     *)
(*                                                                         *)
(* Time is a number of ticks and passes only inside poll.  A poll returns  *)
(* with a datagram as soon as the queue has one, after its whole timeout   *)
(* with none, or early with none when a signal handler ran (EINTR).        *)
(***************************************************************************)
EXTENDS Integers, Sequences

CONSTANTS
  Datagrams,  \* what may arrive
  QueueCap    \* receive queue length beyond which the kernel drops

ASSUME SocketsAssumption == QueueCap \in Nat

V4 == "v4"
V6 == "v6"
Family == {V4, V6}

VARIABLES
  fd,      \* per family: "none" (-1), "open" or "closed"
  queue,   \* per family: datagrams received by the kernel, not yet read
  waited   \* ticks the current poll has slept

sockVars == <<fd, queue, waited>>

Open(s) == fd[s] = "open"

SocketsInit ==
  /\ fd = [s \in Family |-> "none"]
  /\ queue = [s \in Family |-> << >>]
  /\ waited = 0

SocketsTypeOK ==
  /\ fd \in [Family -> {"none", "open", "closed"}]
  /\ queue \in [Family -> Seq(Datagrams)]
  /\ waited \in Nat

\* umdns_socket_create_ipv4_listener / _ipv6_listener: all steps succeed and
\* the descriptor is returned, or one fails and -1 is.
CreateListener(s) ==
  /\ \E r \in {"open", "none"} : fd' = [fd EXCEPT ![s] = r]
  /\ UNCHANGED <<queue, waited>>

\* Mutant: only the IPv4 descriptor is closed.
CloseV4Only ==
  /\ fd' = [fd EXCEPT ![V4] = IF Open(V4) THEN "closed" ELSE @]
  /\ queue' = [s \in Family |-> << >>]
  /\ waited' = 0

\* close(fd) for each descriptor that was opened; the queues go with them.
CloseAll ==
  /\ fd' = [s \in Family |-> IF Open(s) THEN "closed" ELSE fd[s]]
  /\ queue' = [s \in Family |-> << >>]
  /\ waited' = 0

\* The kernel queues a datagram (a full queue drops it: no step).
Arrive(s, d) ==
  /\ Open(s)
  /\ Len(queue[s]) < QueueCap
  /\ queue' = [queue EXCEPT ![s] = Append(@, d)]
  /\ UNCHANGED <<fd, waited>>

\* Mutant: the timeout is not passed on.
SleepOn(s, timeout) ==
  /\ queue[s] = << >>
  /\ waited' = waited + 1
  /\ UNCHANGED <<fd, queue>>

\* One tick asleep in poll(fd, timeout).
Sleep(s, timeout) ==
  /\ queue[s] = << >>
  /\ waited < timeout
  /\ waited' = waited + 1
  /\ UNCHANGED <<fd, queue>>

\* Mutant: the wait never gets to its end.
ExpireAfter(s, timeout) ==
  /\ queue[s] = << >>
  /\ waited > timeout
  /\ waited' = 0
  /\ UNCHANGED <<fd, queue>>

\* poll returns 0: nothing came within the timeout.
Expire(s, timeout) ==
  /\ queue[s] = << >>
  /\ waited >= timeout
  /\ waited' = 0
  /\ UNCHANGED <<fd, queue>>

\* poll returns 1 and recvfrom takes the oldest datagram.
Receive(s) ==
  /\ queue[s] # << >>
  /\ queue' = [queue EXCEPT ![s] = Tail(@)]
  /\ waited' = 0
  /\ UNCHANGED fd

\* poll returns -1 with EINTR, or recvfrom fails: no datagram is taken.
Interrupt ==
  /\ waited' = 0
  /\ UNCHANGED <<fd, queue>>
============================================================================
