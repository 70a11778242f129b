------------------------------- MODULE TcpServer -------------------------------
(***************************************************************************)
(* Chapter 7/tcp_server.cpp and tcp_client.cpp: a server that takes one    *)
(* connection after the other, and any number of clients.  The kernel      *)
(* completes connections for the server, up to its backlog, and takes      *)
(* their requests before they are accepted.  The server only peeks at a    *)
(* request, so its close() resets the connection; Linux still hands the    *)
(* client an answer that arrived before the reset.                         *)
(***************************************************************************)
EXTENDS Naturals, Sequences, SequencesExt

CONSTANTS Clients, \* the client processes
          Backlog, \* BACKLOG: 5 in the code
          Nobody   \* not a client

ClientsBounds == Backlog \in Nat /\ Nobody \notin Clients

VARIABLES server,    \* where the server is
          serving,   \* the client of client_sock
          waiting,   \* the connections accept() has not returned yet
          client,    \* client[c]: where client c is
          requested, \* requested[c]: c's request is at the server's end
          answer,    \* answer[c]: "none", "pid" or "reset", at c's end
          got        \* got[c]: c has printed the server's response

vars == <<server, serving, waiting, client, requested, answer, got>>

Init == /\ server = "bind" /\ serving = Nobody /\ waiting = <<>>
        /\ client = [c \in Clients |-> "connect"]
        /\ requested = [c \in Clients |-> FALSE]
        /\ answer = [c \in Clients |-> "none"]
        /\ got = [c \in Clients |-> FALSE]

ServerGo(from, to) == server = from /\ server' = to
ClientGo(c, from, to) == client[c] = from /\ client' = [client EXCEPT ![c] = to]
-------------------------------------------------------------------------------
\* bind() and listen(); a bind() that fails throws.
Listen == /\ ServerGo("bind", "accept") \/ ServerGo("bind", "exited")
          /\ UNCHANGED <<serving, waiting, client, requested, answer, got>>

Skipped == "accept" \* mutant: < for > in client_sock > 0
Accepted == "receive"
Accept == /\ waiting # <<>>
          /\ ServerGo("accept", Accepted)
          /\ serving' = Head(waiting)
          /\ waiting' = Tail(waiting)
          /\ UNCHANGED <<client, requested, answer, got>>

\* recv() returns 0: the client has gone without a request.
Gone(c) == ~requested[c] /\ client[c] = "killed"
\* recv() blocks until there is a request or the client has gone.
Returns(c) == requested[c] \/ Gone(c)
Receive == /\ server = "receive" /\ Returns(serving)
           /\ server' = IF requested[serving] THEN "send" ELSE "close"
           /\ UNCHANGED <<serving, waiting, client, requested, answer, got>>

Send == /\ ServerGo("send", "close")
        /\ answer' = [answer EXCEPT ![serving] = "pid"]
        /\ UNCHANGED <<serving, waiting, client, requested, got>>

\* The client's end of a connection that goes away.
Reset(a) == IF a = "none" THEN "reset" ELSE a
Close == /\ ServerGo("close", "accept")
         /\ answer' = [answer EXCEPT ![serving] = Reset(@)]
         /\ serving' = Nobody
         /\ UNCHANGED <<waiting, client, requested, got>>

\* exitHandler(), after SIGINT: exit() closes every connection.
ExitHandler == /\ server # "exited"
               /\ server' = "exited"
               /\ answer' = [c \in Clients |->
                                IF c \in ToSet(waiting) \cup {serving}
                                  THEN Reset(answer[c]) ELSE answer[c]]
               /\ serving' = Nobody /\ waiting' = <<>>
               /\ UNCHANGED <<client, requested, got>>

Server == Listen \/ Accept \/ Receive \/ Send \/ Close
-------------------------------------------------------------------------------
Listening == server \notin {"bind", "exited"}

\* connect(): refused when nobody listens, which throws; retried by the kernel
\* while the backlog is full, and given up in the end.
Connect(c) ==
  /\ \/ /\ ~Listening \/ Len(waiting) > Backlog
        /\ ClientGo(c, "connect", "threw")
        /\ UNCHANGED waiting
     \/ /\ Listening /\ Len(waiting) <= Backlog
        /\ ClientGo(c, "connect", "send")
        /\ waiting' = Append(waiting, c)
  /\ UNCHANGED <<server, serving, requested, answer, got>>

\* send() fails on a connection that was reset.
Request(c) ==
  /\ IF answer[c] = "none"
       THEN /\ ClientGo(c, "send", "receive")
            /\ requested' = [requested EXCEPT ![c] = TRUE]
       ELSE /\ ClientGo(c, "send", "close")
            /\ UNCHANGED requested
  /\ UNCHANGED <<server, serving, waiting, answer, got>>

\* recv() blocks until there is an answer or the connection has gone.
Response(c) == /\ answer[c] # "none"
               /\ ClientGo(c, "receive", "close")
               /\ got' = [got EXCEPT ![c] = answer[c] = "pid"]
               /\ UNCHANGED <<server, serving, waiting, requested, answer>>

Disconnect(c) == /\ ClientGo(c, "close", "done")
                 /\ UNCHANGED <<server, serving, waiting, requested, answer, got>>

\* The client is killed; its connection stays where it is at the server's end.
Kill(c) == /\ client[c] \in {"send", "receive"}
           /\ client' = [client EXCEPT ![c] = "killed"]
           /\ UNCHANGED <<server, serving, waiting, requested, answer, got>>

Proceed(c) == Connect(c) \/ Response(c) \/ Disconnect(c)
Client(c) == Proceed(c) \/ Request(c)

Next == Server \/ ExitHandler \/ \E c \in Clients : Client(c) \/ Kill(c)

\* The server and the clients run; nobody has to kill or interrupt them, and a
\* client that is connected, which may be any program, need not send anything.
Spec == /\ Init /\ [][Next]_vars
        /\ WF_vars(Server) /\ \A c \in Clients : WF_vars(Proceed(c))
-------------------------------------------------------------------------------
TypeOK == /\ server \in {"bind", "accept", "receive", "send", "close", "exited"}
          /\ serving \in Clients \cup {Nobody}
          /\ serving # Nobody <=> server \in {"receive", "send", "close"}
          /\ waiting \in Seq(Clients) /\ Len(waiting) <= Backlog + 1
          /\ client \in [Clients -> {"connect", "send", "receive", "close",
                                     "done", "threw", "killed"}]
          /\ requested \in [Clients -> BOOLEAN]
          /\ answer \in [Clients -> {"none", "pid", "reset"}]
          /\ got \in [Clients -> BOOLEAN]

\* Nobody is forgotten: a client blocked in recv() is in the backlog, being served,
\* or has something to read, also when the server has been interrupted (server
\* lines 17-21, 67-106; client lines 51-56).
NobodyForgotten ==
  /\ TypeOK
  /\ \A c \in Clients : client[c] = "receive" /\ answer[c] = "none" =>
       c \in ToSet(waiting) \/ (serving = c /\ server \in {"receive", "send", "close"})

\* A client that got through to the server and was not answered was turned away
\* by SIGINT and nothing else: not by slow or dead clients before it (server
\* lines 78-98).
TurnedAwayByExit == \A c \in Clients :
  client[c] = "done" /\ ~got[c] => server = "exited"

\* Every client is answered, has somebody to wait for, or was turned away (server
\* lines 17-21, 67-106; client lines 51-56).
ClientsKept == NobodyForgotten /\ TurnedAwayByExit

\* recv() at the server waits for a client that lives and has sent nothing.
HeldUp == server = "receive" /\ client[serving] = "send"

\* Every client that has sent its request comes to its end, whoever else is killed
\* while it waits, unless one client connects and stays silent for ever: that one,
\* and nothing else, holds up all the others (server lines 78-98).
EveryoneReturns ==
  []<>~HeldUp => \A c \in Clients :
                   client[c] = "receive" ~> client[c] \in {"done", "killed"}
===============================================================================
