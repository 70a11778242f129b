------------------------------- MODULE MCChapter7 -------------------------------
(***************************************************************************)
(* Four programs of Chapter 7 whose processes talk through the kernel, in  *)
(* one state space: a behaviour is a run of one of them, and the variables *)
(* of the others keep their initial values.                                *)
(***************************************************************************)
EXTENDS Naturals

CONSTANTS Chunks, MaxMsg,        \* MessageQueue
          MaxRolls, Answers,     \* UdpDice
          Clients, Backlog, Nobody, \* TcpServer
          Runs                   \* how often a program is started

VARIABLES program,
          linked, msgs, reader, writer, k, mq_run, left, sent, mq_got,
          prod, cons, region, parent, child, seen, shm_run, found,
          udp_server, peer, bound, inbox, udp_client, rolls, i, back, udp_run,
          tcp_server, serving, waiting, tcp_client, requested, answer, tcp_got

Mq == INSTANCE MessageQueue WITH run <- mq_run, got <- mq_got
Shm == INSTANCE ShmSemaphores WITH run <- shm_run
Udp == INSTANCE UdpDice WITH server <- udp_server, client <- udp_client, run <- udp_run
Tcp == INSTANCE TcpServer WITH server <- tcp_server, client <- tcp_client, got <- tcp_got

ASSUME BoundsAssumption ==
  Mq!QueueBounds /\ Shm!RunsBound /\ Udp!RunsBounds /\ Tcp!ClientsBounds

mqVars == <<linked, msgs, reader, writer, k, mq_run, left, sent, mq_got>>
shmVars == <<prod, cons, region, parent, child, seen, shm_run, found>>
udpVars == <<udp_server, peer, bound, inbox, udp_client, rolls, i, back, udp_run>>
tcpVars == <<tcp_server, serving, waiting, tcp_client, requested, answer, tcp_got>>
vars == <<program, mqVars, shmVars, udpVars, tcpVars>>

Init == /\ program \in {"mq_example", "shm_example", "udp_example", "tcp_server"}
        /\ Mq!Init /\ Shm!Init /\ Udp!Init /\ Tcp!Init

MqStep(A) == program = "mq_example" /\ A
             /\ UNCHANGED <<program, shmVars, udpVars, tcpVars>>
ShmStep(A) == program = "shm_example" /\ A
              /\ UNCHANGED <<program, mqVars, udpVars, tcpVars>>
UdpStep(A) == program = "udp_example" /\ A
              /\ UNCHANGED <<program, mqVars, shmVars, tcpVars>>
TcpStep(A) == program = "tcp_server" /\ A
              /\ UNCHANGED <<program, mqVars, shmVars, udpVars>>

Next == MqStep(Mq!Next) \/ ShmStep(Shm!Next) \/ UdpStep(Udp!Next) \/ TcpStep(Tcp!Next)

\* The fairness of each module, for the program that runs.
Spec ==
  /\ Init /\ [][Next]_vars
  /\ WF_vars(MqStep(Mq!Reader)) /\ WF_vars(MqStep(Mq!Writer))
  /\ WF_vars(ShmStep(Shm!Fork)) /\ WF_vars(ShmStep(Shm!Parent)) /\ WF_vars(ShmStep(Shm!Child))
  /\ WF_vars(UdpStep(Udp!Client)) /\ \A r \in 1..Runs : WF_vars(UdpStep(Udp!Server(r)))
  /\ WF_vars(TcpStep(Tcp!Server)) /\ \A c \in Clients : WF_vars(TcpStep(Tcp!Proceed(c)))
-------------------------------------------------------------------------------
\* A run that found the queue empty delivers the file and no more, and leaves
\* nobody blocked (mq_example.cpp lines 32-102).
CleanRun == Mq!CleanRun

\* What a killed run left is received first (mq_example.cpp lines 30-31).
OldFirst == Mq!OldFirst

\* The child reads what this parent wrote, and what stays behind is one count of a
\* semaphore (shm_example.cpp lines 50-134).
HandedOver == Shm!HandedOver

\* One datagram of a client's conversation in one place (udp_example.cpp lines
\* 46-80, 119-146).
OneInFlight == Udp!OneInFlight

\* No client is forgotten, and only SIGINT turns one away (tcp_server.cpp lines
\* 17-106, tcp_client.cpp lines 51-56).
ClientsKept == Tcp!ClientsKept

\* A reader whose writer failed and a client whose first datagram was lost wait for
\* ever (mq_example.cpp lines 67-70, 107-110; udp_example.cpp lines 126-134).
LeftWaiting == /\ program = "mq_example" => Mq!ReaderLeftWaiting
               /\ program = "udp_example" => Udp!LostForGood

\* What was connected in time comes to its end: everything is delivered that can be
\* read, both processes return, every throw is answered, and every client with a
\* request returns unless a silent one is served.
Completes == /\ program = "mq_example" => Mq!Delivery
             /\ program = "shm_example" => Shm!Completes
             /\ program = "udp_example" => Udp!Completes
             /\ program = "tcp_server" => Tcp!EveryoneReturns
===============================================================================
