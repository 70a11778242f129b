---------------------------- MODULE CoroutineSocket ----------------------------
(***************************************************************************)
(* Chapter 10/coroutine_socket.cpp: a thread whose generator sends to the  *)
(* program's own port, and a thread whose generator polls the same socket. *)
(* Neither call blocks.  Datagrams are numbered here, though all of them   *)
(* hold the same text; 0 is the buffer as it was initialized.              *)
(***************************************************************************)
EXTENDS Naturals, Sequences, Functions

CONSTANT Rounds  \* calls of each generator: 10 in the code
RoundsBound == Rounds \in Nat

VARIABLES server, client, \* where the two threads are
          main,           \* where main() is
          frames,         \* the threads whose generator's coroutine exists
          i,              \* calls made of each generator
          queue, sent,    \* datagrams at the socket, and handed to it so far
          tmp_buf,        \* what is in the receiver's buffer
          shown           \* what the client printed

calls == <<frames, i>>
socket == <<queue, sent>>
vars == <<server, client, main, calls, socket, tmp_buf, shown>>

Init == /\ server = "bind" /\ client = "create" /\ main = "join"
        /\ frames = {} /\ i = [t \in {"server", "client"} |-> 0]
        /\ queue = <<>> /\ sent = 0 /\ tmp_buf = 0 /\ shown = <<>>

Alive == main # "exit"
ServerGo(from, to) == Alive /\ server = from /\ server' = to
ClientGo(from, to) == Alive /\ client = from /\ client' = to
-------------------------------------------------------------------------------
\* The port may be taken: exit() ends both threads.
Bind == /\ \/ ServerGo("bind", "create") /\ UNCHANGED main
           \/ ServerGo("bind", "exit") /\ main' = "exit"
        /\ UNCHANGED <<client, calls, socket, tmp_buf, shown>>

\* Calling send_to() or recv_from() creates the coroutine, suspended.
CreateSender == /\ ServerGo("create", "loop")
                /\ frames' = frames \cup {"server"}
                /\ UNCHANGED <<client, main, i, socket, tmp_buf, shown>>

CreateReceiver == /\ ClientGo("create", "loop")
                  /\ frames' = frames \cup {"client"}
                  /\ UNCHANGED <<server, main, i, socket, tmp_buf, shown>>

\* One call of the generator resumes it up to its next co_yield.
Calls(t) == i[t] < Rounds /\ i' = [i EXCEPT ![t] = @ + 1]

\* sendto() fails, or a datagram arrives, or is dropped because there is no room.
Send == /\ ServerGo("loop", "loop") /\ Calls("server")
        /\ \/ sent' = sent + 1 /\ queue' = Append(queue, sent + 1)
           \/ UNCHANGED socket
        /\ UNCHANGED <<client, main, frames, tmp_buf, shown>>

Garbage == IF queue = <<>> THEN Rounds + 1 ELSE Head(queue) \* mutant: the buffer is not kept
\* recvfrom() leaves the buffer alone when there is no datagram, and before bind().
Received == IF queue = <<>> THEN tmp_buf ELSE Head(queue)
Receive == /\ ClientGo("loop", "loop") /\ Calls("client")
           /\ tmp_buf' = Received /\ shown' = Append(shown, tmp_buf')
           /\ queue' = IF queue = <<>> THEN queue ELSE Tail(queue)
           /\ UNCHANGED <<server, main, frames, sent>>

\* The end of the thread's function destroys its generator.
DestroySender == /\ ServerGo("loop", "returned") /\ i["server"] = Rounds
                 /\ frames' = frames \ {"server"}
                 /\ UNCHANGED <<client, main, i, socket, tmp_buf, shown>>

DestroyReceiver == /\ ClientGo("loop", "returned") /\ i["client"] = Rounds
                   /\ frames' = frames \ {"client"}
                   /\ UNCHANGED <<server, main, i, socket, tmp_buf, shown>>
-------------------------------------------------------------------------------
Joined == server = "returned" /\ client = "returned"
\* Both joins and close(): what was not received is gone.
Close == /\ main = "join" /\ Joined
         /\ main' = "closed" /\ queue' = <<>>
         /\ UNCHANGED <<server, client, calls, sent, tmp_buf, shown>>

Server == Bind \/ CreateSender \/ Send \/ DestroySender
Client == CreateReceiver \/ Receive \/ DestroyReceiver
Next == Server \/ Client \/ Close
Spec == Init /\ [][Next]_vars /\ WF_vars(Server) /\ WF_vars(Client) /\ WF_vars(Close)
-------------------------------------------------------------------------------
TypeOK == /\ server \in {"bind", "create", "loop", "returned", "exit"}
          /\ client \in {"create", "loop", "returned"}
          /\ main \in {"join", "closed", "exit"}
          /\ frames \subseteq {"server", "client"}
          /\ i \in [{"server", "client"} -> 0..Rounds]
          /\ sent \in 0..Rounds /\ queue \in Seq(1..sent)
          /\ tmp_buf \in 0..sent /\ shown \in Seq(0..sent)

\* What the client prints is first nothing, then each datagram in the order sent
\* and, between two of them, the older one again; none is skipped.  No coroutine
\* is left when the socket is closed (lines 109-118, 158-162, 165-167).
ShownInOrder ==
  /\ TypeOK
  /\ main = "closed" => frames = {}
  /\ \A n \in DOMAIN shown :
       shown[n] - (IF n = 1 THEN 0 ELSE shown[n - 1]) \in {0, 1}
  /\ main = "join" => Len(queue) + tmp_buf = sent

\* The program ends, whether or not anything was received.
Returns == <>(main \in {"closed", "exit"})
===============================================================================
