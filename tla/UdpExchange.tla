----------------------------- MODULE UdpExchange -----------------------------
(* 00_tutorials/10_peer_to_peer_client_server.c: a UDP server that answers *)
(* every datagram, and clients that send a line and wait for a datagram.   *)
(* Datagrams may overtake each other; they may be lost, or arrive twice,   *)
(* where a run says so.  One action per system call.                       *)
EXTENDS Naturals

CONSTANTS
  Clients,
  Lines,         \* what a user may type
  MaxRounds,     \* bound: lines typed at one client
  MayLose,       \* TRUE: the network, or sendto() of the server, may lose a datagram
  MayStray       \* the clients whose recvfrom() may fail, and of each of which the
                 \* network may deliver one datagram (bound) twice

VARIABLES
  client,    \* where each client is
  round,     \* number of lines it has sent
  line,      \* its request_buffer; "" once it is cleared
  requests,  \* datagrams on their way to the server
  replies,   \* datagrams on their way to the clients
  pc,        \* the call the server is about to make
  current,   \* addr_client and request_buffer of the server, cleared for each datagram
  lost,      \* the clients that a datagram was lost of (history)
  astray     \* the clients of which one came twice, or whose recvfrom() failed (history)

vars == <<client, round, line, requests, replies, pc, current, lost, astray>>

Datagram == [client : Clients, round : 1..MaxRounds, line : Lines]
Cleared  == [line |-> ""]

TypeOK ==
  /\ client \in [Clients -> {"ready", "waiting", "done"}]
  /\ round \in [Clients -> 0..MaxRounds]
  /\ line \in [Clients -> Lines \cup {""}]
  /\ requests \subseteq Datagram
  /\ replies \subseteq Datagram
  /\ pc \in {"recvfrom", "sendto"}
  /\ IF pc = "sendto" THEN current \in Datagram ELSE current = Cleared
  /\ lost \subseteq Clients
  /\ astray \subseteq Clients

Init ==
  /\ client = [c \in Clients |-> "ready"]
  /\ round = [c \in Clients |-> 0]
  /\ line = [c \in Clients |-> ""]
  /\ requests = {} /\ replies = {}
  /\ pc = "recvfrom"
  /\ current = Cleared
  /\ lost = {} /\ astray = {}

---------------------------------------------------------------------------
\* Datagram d leaves the network for its receiver, but for a second copy.
Delivered(d, network) ==
  \/ network' = network \ {d} /\ UNCHANGED astray
  \/ /\ d.client \in MayStray \ astray
     /\ astray' = astray \cup {d.client}
     /\ UNCHANGED network

\* sendto(): an empty line is a datagram of its own.  When it fails the client
\* prompts again: a step that changes nothing, but a line that is typed over.
SendTo(c, l) ==
  /\ client[c] = "ready"
  /\ round[c] < MaxRounds
  /\ client' = [client EXCEPT ![c] = "waiting"]
  /\ round'  = [round EXCEPT ![c] = @ + 1]
  /\ line'   = [line EXCEPT ![c] = l]
  /\ requests' = requests \cup {[client |-> c, round |-> round[c] + 1, line |-> l]}
  /\ UNCHANGED <<replies, pc, current, lost, astray>>

\* The client prompts with a cleared buffer, or has ended.
Goes(c, where) ==
  /\ client' = [client EXCEPT ![c] = where]
  /\ line'   = [line EXCEPT ![c] = ""]

\* Variant: a client that does not stay in recvfrom(): it gives up and prompts.
RecvFromOrTimeout(c) ==
  /\ client[c] = "waiting"
  /\ \/ Goes(c, "ready") /\ UNCHANGED replies
     \/ \E d \in replies :
          /\ d.client = c
          /\ replies' = replies \ {d}
          /\ Goes(c, IF line[c] = "exit" THEN "done" ELSE "ready")
  /\ UNCHANGED <<round, requests, pc, current, lost, astray>>

\* recvfrom(): any datagram for this client is taken for the response.
RecvFrom(c) ==
  /\ client[c] = "waiting"
  /\ \E d \in replies :
       /\ d.client = c
       /\ Delivered(d, replies)
  /\ Goes(c, IF line[c] = "exit" THEN "done" ELSE "ready")
  /\ UNCHANGED <<round, requests, pc, current, lost>>

\* recvfrom() fails, for want of memory say: whatever the line was, the client
\* prompts again.
RecvFromFails(c) ==
  /\ c \in MayStray
  /\ client[c] = "waiting"
  /\ Goes(c, "ready")
  /\ astray' = astray \cup {c}
  /\ UNCHANGED <<round, requests, replies, pc, current, lost>>

\* Ctrl-C at any moment.
Kill(c) ==
  /\ client[c] /= "done"
  /\ Goes(c, "done")
  /\ UNCHANGED <<round, requests, replies, pc, current, lost, astray>>

\* The received bytes; with 0 of them nothing is answered, and all is cleared.
ServerTakes(d) ==
  IF d.line = "" THEN UNCHANGED <<pc, current>> ELSE pc' = "sendto" /\ current' = d

\* Variant: recvfrom() is not given an address to fill in.
ServerRecvFromNoAddress ==
  /\ pc = "recvfrom"
  /\ \E d \in requests, c \in Clients :
       /\ Delivered(d, requests)
       /\ ServerTakes([d EXCEPT !.client = c])
  /\ UNCHANGED <<client, round, line, replies, lost>>

\* recvfrom(): 0 bytes count as a failure, and "continue" skips the answer.
ServerRecvFrom ==
  /\ pc = "recvfrom"
  /\ \E d \in requests : Delivered(d, requests) /\ ServerTakes(d)
  /\ UNCHANGED <<client, round, line, replies, lost>>

\* sendto() to the address the request came from; a failure is reported only.
ServerSendTo ==
  /\ pc = "sendto"
  /\ \/ replies' = replies \cup {current} /\ UNCHANGED lost
     \/ MayLose /\ lost' = lost \cup {current.client} /\ UNCHANGED replies
  /\ pc' = "recvfrom"
  /\ current' = Cleared
  /\ UNCHANGED <<client, round, line, requests, astray>>

Lose ==
  /\ MayLose
  /\ \E d \in requests \cup replies :
       /\ lost' = lost \cup {d.client}
       /\ \/ d \in requests /\ requests' = requests \ {d} /\ UNCHANGED replies
          \/ d \in replies /\ replies' = replies \ {d} /\ UNCHANGED requests
  /\ UNCHANGED <<client, round, line, pc, current, astray>>

Next ==
  \/ \E c \in Clients :
       \/ \E l \in Lines : SendTo(c, l)
       \/ RecvFrom(c) \/ RecvFromFails(c)
       \/ Kill(c)
  \/ ServerRecvFrom \/ ServerSendTo
  \/ Lose

Spec == Init /\ [][Next]_vars

\* The server and the clients run while they are not blocked.
Fairness ==
  /\ WF_vars(ServerRecvFrom \/ ServerSendTo)
  /\ \A c \in Clients : WF_vars(RecvFrom(c))

FairSpec == Spec /\ Fairness

---------------------------------------------------------------------------
\* A client takes the answer to its last line for it, although nothing in a
\* datagram says which line it answers: because a client that lost its answer
\* waits for ever, no earlier answer can be under way - unless the network
\* repeats a datagram, or recvfrom() fails where it was to wait.
AnswersMatch ==
  \A d \in replies :
    client[d.client] = "waiting" /\ d.client \notin astray
      => d.round = round[d.client] /\ d.line = line[d.client]

\* "Client Loop - Send request and wait for response": a client that sent a
\* line is answered, unless it is the empty line or a datagram of its was lost.
AskersAnswered ==
  \A c \in Clients :
    client[c] = "waiting" /\ line[c] /= ""
      ~> client[c] /= "waiting" \/ c \in lost

\* The same, without exception.
WaitingEnds == \A c \in Clients : client[c] = "waiting" ~> client[c] /= "waiting"
=============================================================================
