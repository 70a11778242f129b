-------------------------------- MODULE UdpDice --------------------------------
(***************************************************************************)
(* Chapter 7/udp_example.cpp: a client, the parent, asks a dice server,    *)
(* its child, over UDP.  A datagram to a port that nobody has bound is     *)
(* lost; nothing else on the loopback is.  The client does not wait for    *)
(* its server, so a server can outlive its run and serve the next one.     *)
(***************************************************************************)
EXTENDS Integers, Sequences, FiniteSets

CONSTANTS MaxRolls, \* the most throws the prompt allows: 256
          Answers,  \* what the user may type
          Runs      \* bound: how often the program is started

RunsBounds == MaxRolls \in Nat /\ Answers \subseteq Int /\ Runs \in Nat \ {0}

VARIABLES server, \* server[r]: where the server of run r is
          peer,   \* peer[r]: the run whose client it received from last
          bound,  \* the run whose server holds the port, 0 for none
          inbox,  \* the datagrams at the port: what, and the run that sent it
          client, \* where the client of this run is
          rolls,  \* dice_rolls
          i,      \* the loop counter of the client
          back,   \* replies at the client's socket
          run     \* how often the program was started

port == <<bound, inbox>>
loop == <<rolls, i>>
vars == <<server, peer, port, client, loop, back, run>>

Init == /\ server = [r \in 1..Runs |-> IF r = 1 THEN "bind" ELSE "unborn"]
        /\ peer = [r \in 1..Runs |-> 0]
        /\ bound = 0 /\ inbox = <<>>
        /\ client = "ask" /\ rolls = 0 /\ i = 1 /\ back = 0
        /\ run = 1

ServerGo(r, from, to) == server[r] = from /\ server' = [server EXCEPT ![r] = to]
ClientGo(from, to) == client = from /\ client' = to
-------------------------------------------------------------------------------
PortFree == bound = 0
\* bind() takes the port, or throws, which ends the server.
Bind(r) == /\ ServerGo(r, "bind", IF PortFree THEN "receive" ELSE "done")
           /\ bound' = IF PortFree THEN r ELSE bound
           /\ UNCHANGED <<peer, inbox, client, loop, back, run>>

\* recvfrom(), and the comparison with "Throw dice!": anything else ends the
\* server, and with its socket go the datagrams that wait there.
Receive(r) == /\ bound = r /\ inbox # <<>>
              /\ LET request == Head(inbox).what = "throw" IN
                   /\ ServerGo(r, "receive", IF request THEN "reply" ELSE "done")
                   /\ bound' = IF request THEN r ELSE 0
                   /\ inbox' = IF request THEN Tail(inbox) ELSE <<>>
              /\ peer' = [peer EXCEPT ![r] = Head(inbox).from]
              /\ UNCHANGED <<client, loop, back, run>>

ClientOpen == client \in {"send", "receive"}
\* sendto() to the client, whose socket may be gone
Reply(r) == /\ ServerGo(r, "reply", "receive")
            /\ back' = IF peer[r] = run /\ ClientOpen THEN back + 1 ELSE back
            /\ UNCHANGED <<peer, port, client, loop, run>>

Server(r) == Bind(r) \/ Receive(r) \/ Reply(r)
-------------------------------------------------------------------------------
\* No number is both <= 0 and > 256: the check lets everything pass.
Checked(n) == IF n <= 0 /\ n > MaxRolls THEN 0 ELSE n

Ask == /\ ClientGo("ask", "send")
       /\ \E n \in Answers : rolls' = Checked(n)
       /\ UNCHANGED <<server, peer, port, i, back, run>>

\* A datagram to a free port is lost, and sendto() succeeds.
Deliver(what) ==
  inbox' = IF bound = 0 THEN inbox ELSE Append(inbox, [what |-> what, from |-> run])

InLoop == i <= rolls
SendRequest == /\ InLoop
               /\ ClientGo("send", "receive")
               /\ Deliver("throw")
               /\ UNCHANGED <<server, peer, bound, loop, back, run>>

NoReply == TRUE \* mutant: recvfrom() with MSG_DONTWAIT
HasReply == back > 0
ReceiveReply == /\ HasReply
                /\ ClientGo("receive", "send")
                /\ back' = IF back > 0 THEN back - 1 ELSE 0
                /\ i' = i + 1
                /\ UNCHANGED <<server, peer, port, rolls, run>>

StopServer == Deliver("stop")
\* The stop message, close() and exit()
SendStop == /\ ~InLoop
            /\ ClientGo("send", "done")
            /\ StopServer
            /\ back' = 0
            /\ UNCHANGED <<server, peer, bound, loop, run>>

Client == Ask \/ SendRequest \/ ReceiveReply \/ SendStop
-------------------------------------------------------------------------------
\* The user interrupts both processes of this run, not the server of another.
Interrupt == /\ client # "done"
             /\ client' = "done" /\ back' = 0
             /\ server' = [server EXCEPT ![run] = "done"]
             /\ bound' = IF bound = run THEN 0 ELSE bound
             /\ inbox' = IF bound = run THEN <<>> ELSE inbox
             /\ UNCHANGED <<peer, loop, run>>

\* The shell is back once the client has ended.
NextRun == /\ client = "done" /\ run < Runs
           /\ run' = run + 1
           /\ client' = "ask" /\ i' = 1 /\ rolls' = 0
           /\ server' = [server EXCEPT ![run + 1] = "bind"]
           /\ UNCHANGED <<peer, port, back>>

Next == (\E r \in 1..Runs : Server(r)) \/ Client \/ Interrupt \/ NextRun

\* Both processes run and the user answers; nobody has to interrupt anything.
Spec == /\ Init /\ [][Next]_vars
        /\ WF_vars(Client) /\ \A r \in 1..Runs : WF_vars(Server(r))
-------------------------------------------------------------------------------
Datagrams == [what : {"throw", "stop"}, from : 1..Runs]
TypeOK == /\ server \in [1..Runs -> {"unborn", "bind", "receive", "reply", "done"}]
          /\ peer \in [1..Runs -> 0..Runs]
          /\ bound \in 0..Runs /\ inbox \in Seq(Datagrams)
          /\ client \in {"ask", "send", "receive", "done"}
          /\ rolls \in Answers \cup {0}
          /\ i \in 1..(1 + IF rolls > 0 THEN rolls ELSE 0)
          /\ back \in Nat /\ run \in 1..Runs

\* At most one server is at work, also when servers of earlier runs are left
\* over: requests are never shared out between two (lines 46-54).
OneServer == \A r \in 1..Runs : server[r] \in {"receive", "reply"} => bound = r

\* So a client's conversation is one datagram in one place: its request at the port,
\* in the hands of a server, or the reply at its socket, and none unless it is
\* waiting.  So the two ends never get out of step, also when an earlier run was
\* interrupted (lines 57-80, 119-146).
AtPort(n) == inbox[n].what = "throw" /\ inbox[n].from = run
AtServer(r) == server[r] = "reply" /\ peer[r] = run
InFlight == Cardinality({n \in DOMAIN inbox : AtPort(n)})
            + Cardinality({r \in 1..Runs : AtServer(r)})
            + back
OneInFlight == /\ TypeOK /\ OneServer
               /\ client \in {"ask", "send"} => InFlight = 0
               /\ client = "receive" => InFlight <= 1

\* A request or reply that is lost is not made up for: without a timeout or a
\* resend only an interruption moves the client (lines 134-139).
Lost == client = "receive" /\ InFlight = 0
LostForGood == \A r \in 1..Runs :
  [](Lost /\ run = r => [](run = r => Lost \/ client = "done"))

\* If the server of the last run has the port before the user answers, the client
\* gets all its replies and the server is stopped (lines 57-80, 119-152).
Completes == (run = Runs /\ client = "ask" /\ bound = run)
               ~> (client = "done" /\ server[run] = "done")

\* The prompt asks for a number "between 1 and 256" (lines 102-103) and line 105
\* is to make 0 of any other: no client asks for more throws than that.
AtMostMaxRolls == client = "receive" => i <= MaxRolls
===============================================================================
