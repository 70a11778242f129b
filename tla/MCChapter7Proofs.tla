---------------------------- MODULE MCChapter7Proofs ----------------------------
(***************************************************************************)
(* Proofs about the programs of MCChapter7, however often they are started *)
(* and interrupted.  A run of MCChapter7 is a run of one of its programs,  *)
(* so each part proves what holds of the steps of one program and ends     *)
(* with what holds of every run.                                           *)
(***************************************************************************)
EXTENDS MCChapter7, Integers, FiniteSetTheorems, SequenceTheorems, TLAPS

-------------------------------------------------------------------------------
(* The shared memory of shm_example.cpp *)

\* Where a run's counts are: what was found, and what the two processes have posted
\* and taken.  A child that failed may have taken one, or not.
Count(b) == IF b THEN 1 ELSE 0
ProdCount == prod = found.prod + Count(parent \in {"open", "truncate", "wait"})
                               + Count(child = "done")
ConsCount == cons = found.cons + Count(parent \in {"waitpid", "done"})
                               - Count(child \in {"read", "post", "done"})

\* The counts of all runs together are no more than their forks; the region has this
\* run's data from the write to the unlink, and is there while the child uses it.
ShmInv ==
  /\ parent \in {"start", "open", "truncate", "wait", "write", "post", "waitpid", "done"}
  /\ child \in {"unborn", "open", "wait", "read", "post", "done", "failed"}
  /\ prod \in Nat /\ cons \in Nat /\ shm_run \in 1..Runs
  /\ region \in Shm!NoRegion..shm_run /\ seen \in 0..shm_run
  /\ found \in [prod : Nat, cons : Nat] /\ found.prod + found.cons < shm_run
  /\ parent = "start" <=> child = "unborn"
  /\ parent = "done" => child \in {"failed", "done"} /\ region = Shm!NoRegion
  /\ parent \in {"post", "waitpid"} => region = shm_run
  /\ child \in {"wait", "read"} => region # Shm!NoRegion
  /\ ProdCount
  /\ child # "failed" => ConsCount
  /\ child = "failed" => cons <= found.cons + Count(parent \in {"waitpid", "done"})
  /\ found.cons = 0 /\ child \in {"post", "done"} => seen = shm_run

LEMMA ShmBounds == Runs \in Nat \ {0}
BY BoundsAssumption DEF Shm!RunsBound

LEMMA ShmInitHolds ==
  ASSUME Shm!Init
  PROVE  ShmInv
BY ShmBounds DEF Shm!Init, ShmInv, Shm!NoRegion, ProdCount, ConsCount, Count

LEMMA ShmForkStep ==
  ASSUME ShmInv, Shm!Fork
  PROVE  ShmInv'
BY DEF Shm!Fork, Shm!ParentGo, Shm!ChildGo, Shm!FirstPost, ShmInv, ProdCount,
       ConsCount, Count

LEMMA ShmParentStep ==
  ASSUME ShmInv, Shm!Parent
  PROVE  ShmInv'
<1> USE DEF ShmInv, ProdCount, ConsCount, Count, Shm!ParentGo, Shm!NoRegion, Shm!EmptyRegion,
            Shm!Zeros
<1>1. CASE Shm!Create
  BY <1>1 DEF Shm!Create
<1>2. CASE Shm!Truncate
  BY <1>2 DEF Shm!Truncate
<1>3. CASE Shm!WaitProd
  BY <1>3 DEF Shm!WaitProd
<1>4. CASE Shm!Write
  BY <1>4 DEF Shm!Write
<1>5. CASE Shm!PostConsumer
  BY <1>5 DEF Shm!PostConsumer
<1>6. CASE Shm!Unlink
  BY <1>6 DEF Shm!Unlink
<1>7. QED
  BY <1>1, <1>2, <1>3, <1>4, <1>5, <1>6 DEF Shm!Parent

LEMMA ShmChildStep ==
  ASSUME ShmInv, Shm!Child
  PROVE  ShmInv'
<1> USE DEF ShmInv, ProdCount, ConsCount, Count, Shm!ChildGo, Shm!NoRegion, Shm!EmptyRegion,
            Shm!Zeros
<1>1. CASE Shm!Open
  BY <1>1 DEF Shm!Open, Shm!kernel
<1>2. CASE Shm!WaitCons
  BY <1>2 DEF Shm!WaitCons, Shm!MayRead
<1>3. CASE Shm!Read
  BY <1>3 DEF Shm!Read, Shm!kernel
<1>4. CASE Shm!PostProducer
  BY <1>4 DEF Shm!PostProducer, Shm!PostedProd
<1>5. QED
  BY <1>1, <1>2, <1>3, <1>4 DEF Shm!Child

\* The next run finds what this one left, and the kills do not give back.
LEMMA ShmAgainStep ==
  ASSUME ShmInv, Shm!Again
  PROVE  ShmInv'
BY ShmBounds
   DEF Shm!Again, Shm!kernel, ShmInv, ProdCount, ConsCount, Count, Shm!NoRegion

LEMMA ShmHandsOver ==
  ASSUME ShmInv
  PROVE  HandedOver
<1>1. Shm!TypeOK
  BY ShmBounds
     DEF ShmInv, ProdCount, ConsCount, Count, Shm!TypeOK, Shm!NoRegion, Shm!Zeros
<1>2. Shm!CleanHandover
  BY <1>1 DEF ShmInv, ConsCount, Count, Shm!CleanHandover
<1>3. Shm!NotCleanedUp
  BY DEF ShmInv, ProdCount, ConsCount, Count, Shm!NotCleanedUp
<1>4. QED
  BY <1>2, <1>3 DEF HandedOver, Shm!HandedOver

\* The child reads what this run's parent wrote, unless an earlier run left the
\* semaphore up, and a run that ends well leaves sem_prod one higher, however often
\* the program was killed before (shm_example.cpp lines 50-134).
THEOREM DataIsHandedOver == Spec => []HandedOver
<1>1. Init => ShmInv
  BY ShmInitHolds DEF Init
<1>2. ShmInv /\ [Next]_vars => ShmInv'
  <2>1. ASSUME ShmInv, UNCHANGED shmVars PROVE ShmInv'
    BY <2>1 DEF shmVars, ShmInv, ProdCount, ConsCount
  <2>2. [Next]_vars => Shm!Next \/ UNCHANGED shmVars
    BY DEF Next, vars, MqStep, ShmStep, UdpStep, TcpStep
  <2>3. QED
    BY <2>1, <2>2, ShmForkStep, ShmParentStep, ShmChildStep, ShmAgainStep DEF Shm!Next
<1>3. ShmInv => HandedOver
  BY ShmHandsOver
<1>4. QED
  BY <1>1, <1>2, <1>3, PTL DEF Spec
-------------------------------------------------------------------------------
(* The connections of tcp_server.cpp *)

\* Who has connected and was not answered has the server's attention ahead of it;
\* the server answers who has asked, and only SIGINT or a kill leaves one without.
InHands(c) == c \in Tcp!ToSet(waiting) \/ serving = c
TcpInv ==
  /\ Tcp!TypeOK
  /\ \A c \in Clients :
       /\ tcp_client[c] \in {"send", "receive"} /\ answer[c] = "none" => InHands(c)
       /\ answer[c] = "reset" => tcp_server = "exited" \/ tcp_client[c] = "killed"
       /\ answer[c] = "pid" => requested[c]
       /\ requested[c] => tcp_client[c] \in {"receive", "close", "done", "killed"}
       /\ tcp_client[c] \in {"close", "done"} /\ ~tcp_got[c] => tcp_server = "exited"
  /\ tcp_server = "send" => requested[serving]
  /\ tcp_server = "close" => answer[serving] = "pid" \/ tcp_client[serving] = "killed"

LEMMA TcpBounds == Backlog \in Nat /\ Nobody \notin Clients
BY BoundsAssumption DEF Tcp!ClientsBounds

\* The first connection is taken from the queue and the others stay.
LEMMA HeadOrTail ==
  ASSUME NEW s \in Seq(Clients), s # <<>>
  PROVE  /\ Head(s) \in Clients /\ Tail(s) \in Seq(Clients) /\ Len(Tail(s)) = Len(s) - 1
         /\ \A c \in Tcp!ToSet(s) : c = Head(s) \/ c \in Tcp!ToSet(Tail(s))
<1>1. \A n \in 1..Len(s) : n = 1 \/ (n - 1 \in 1..Len(Tail(s)) /\ Tail(s)[n - 1] = s[n])
  OBVIOUS
<1>2. Head(s) = s[1] /\ DOMAIN s = 1..Len(s) /\ DOMAIN Tail(s) = 1..Len(Tail(s))
  OBVIOUS
<1>3. \A c \in Tcp!ToSet(s) : c = Head(s) \/ c \in Tcp!ToSet(Tail(s))
  BY <1>1, <1>2 DEF Tcp!ToSet
<1>4. QED
  BY <1>3

LEMMA AtTheEnd ==
  ASSUME NEW s \in Seq(Clients), NEW c \in Clients
  PROVE  /\ Append(s, c) \in Seq(Clients) /\ Len(Append(s, c)) = Len(s) + 1
         /\ Tcp!ToSet(Append(s, c)) = Tcp!ToSet(s) \cup {c}
<1>1. /\ Append(s, c)[Len(s) + 1] = c /\ DOMAIN Append(s, c) = 1..(Len(s) + 1)
      /\ DOMAIN s = 1..Len(s) /\ \A n \in 1..Len(s) : Append(s, c)[n] = s[n]
  OBVIOUS
<1>2. Tcp!ToSet(Append(s, c)) \subseteq Tcp!ToSet(s) \cup {c}
  BY <1>1 DEF Tcp!ToSet
<1>3. \A n \in 1..Len(s) : n \in 1..(Len(s) + 1)
  OBVIOUS
<1>4. Tcp!ToSet(s) \subseteq Tcp!ToSet(Append(s, c))
  BY <1>1, <1>3 DEF Tcp!ToSet
<1>5. Len(s) + 1 \in 1..(Len(s) + 1)
  OBVIOUS
<1>6. c \in Tcp!ToSet(Append(s, c))
  BY <1>1, <1>5 DEF Tcp!ToSet
<1>7. QED
  BY <1>2, <1>4, <1>6

LEMMA TcpInitHolds ==
  ASSUME Tcp!Init
  PROVE  TcpInv
BY TcpBounds DEF Tcp!Init, TcpInv, Tcp!TypeOK

\* What the server does to the client it serves
LEMMA TcpServerStep ==
  ASSUME TcpInv, Tcp!Server
  PROVE  TcpInv'
<1> USE TcpBounds DEF TcpInv, Tcp!TypeOK, InHands, Tcp!ServerGo
<1>1. CASE Tcp!Listen
  BY <1>1 DEF Tcp!Listen
<1>2. CASE Tcp!Accept
  <2>1. /\ tcp_server = "accept" /\ tcp_server' = "receive"
        /\ serving' = Head(waiting) /\ waiting' = Tail(waiting) /\ waiting # <<>>
        /\ UNCHANGED <<tcp_client, requested, answer, tcp_got>>
    BY <1>2 DEF Tcp!Accept, Tcp!Accepted
  <2>2. /\ serving' \in Clients /\ waiting' \in Seq(Clients) /\ Len(waiting') <= Backlog + 1
        /\ \A c \in Tcp!ToSet(waiting) : c = serving' \/ c \in Tcp!ToSet(waiting')
    BY <2>1, HeadOrTail
  <2>3. serving = Nobody
    BY <2>1
  <2>4. \A c \in Clients : InHands(c) => InHands(c)'
    BY <2>2, <2>3
  <2>5. QED
    BY <2>1, <2>2, <2>4
<1>3. CASE Tcp!Receive
  BY <1>3 DEF Tcp!Receive, Tcp!Returns, Tcp!Gone
<1>4. CASE Tcp!Send
  BY <1>4 DEF Tcp!Send
<1>5. CASE Tcp!Close
  BY <1>5 DEF Tcp!Close, Tcp!Reset
<1>6. QED
  BY <1>1, <1>2, <1>3, <1>4, <1>5 DEF Tcp!Server

\* exit() answers everybody who is connected, in its way.
LEMMA TcpExitStep ==
  ASSUME TcpInv, Tcp!ExitHandler
  PROVE  TcpInv'
<1>1. /\ tcp_server' = "exited" /\ serving' = Nobody /\ waiting' = <<>>
      /\ UNCHANGED <<tcp_client, requested, tcp_got>>
      /\ answer' = [c \in Clients |-> IF InHands(c) THEN Tcp!Reset(answer[c]) ELSE answer[c]]
  BY DEF Tcp!ExitHandler, InHands
<1>2. \A c \in Clients : /\ InHands(c) => answer'[c] # "none"
                         /\ answer'[c] = answer[c] \/ answer'[c] = "reset"
  BY <1>1 DEF TcpInv, Tcp!TypeOK, Tcp!Reset
<1>3. Tcp!TypeOK'
  BY <1>1, TcpBounds DEF TcpInv, Tcp!TypeOK, Tcp!Reset
<1>4. QED
  BY <1>1, <1>2, <1>3 DEF TcpInv, Tcp!TypeOK

LEMMA TcpClientStep ==
  ASSUME TcpInv, NEW c \in Clients, Tcp!Client(c) \/ Tcp!Kill(c)
  PROVE  TcpInv'
<1> USE TcpBounds DEF TcpInv, Tcp!TypeOK, InHands, Tcp!ClientGo
<1>1. CASE Tcp!Connect(c)
  <2>1. /\ UNCHANGED <<tcp_server, serving, requested, answer, tcp_got>>
        /\ tcp_client[c] = "connect"
    BY <1>1 DEF Tcp!Connect
  <2>2. CASE waiting' = waiting /\ tcp_client' = [tcp_client EXCEPT ![c] = "threw"]
    BY <2>1, <2>2
  <2>3. CASE /\ Len(waiting) <= Backlog /\ waiting' = Append(waiting, c)
             /\ tcp_client' = [tcp_client EXCEPT ![c] = "send"]
    <3>1. /\ waiting' \in Seq(Clients) /\ Len(waiting') <= Backlog + 1
          /\ Tcp!ToSet(waiting') = Tcp!ToSet(waiting) \cup {c}
      BY <2>3, AtTheEnd
    <3>2. \A d \in Clients : InHands(d)' <=> d = c \/ InHands(d)
      BY <2>1, <3>1
    <3>3. QED
      BY <2>1, <2>3, <3>1, <3>2
  <2>4. QED
    BY <1>1, <2>2, <2>3 DEF Tcp!Connect
<1>2. CASE Tcp!Request(c)
  BY <1>2 DEF Tcp!Request
<1>3. CASE Tcp!Response(c)
  BY <1>3 DEF Tcp!Response
<1>4. CASE Tcp!Disconnect(c)
  BY <1>4 DEF Tcp!Disconnect
<1>5. CASE Tcp!Kill(c)
  BY <1>5 DEF Tcp!Kill
<1>6. QED
  BY <1>1, <1>2, <1>3, <1>4, <1>5 DEF Tcp!Client, Tcp!Proceed

\* A client that waits for its answer is in the backlog or served, and one that got
\* none was turned away by SIGINT, for any number of clients and any backlog
\* (tcp_server.cpp lines 17-106, tcp_client.cpp lines 51-56).
THEOREM NoClientIsForgotten == Spec => []ClientsKept
<1>1. Init => TcpInv
  BY TcpInitHolds DEF Init
<1>2. TcpInv /\ [Next]_vars => TcpInv'
  <2>1. ASSUME TcpInv, UNCHANGED tcpVars PROVE TcpInv'
    BY <2>1 DEF tcpVars, TcpInv, Tcp!TypeOK, InHands
  <2>2. [Next]_vars => Tcp!Next \/ UNCHANGED tcpVars
    BY DEF Next, vars, MqStep, ShmStep, UdpStep, TcpStep
  <2>3. QED
    BY <2>1, <2>2, TcpServerStep, TcpExitStep, TcpClientStep DEF Tcp!Next
<1>3. TcpInv => ClientsKept
  BY TcpBounds DEF TcpInv, Tcp!TypeOK, InHands, ClientsKept, Tcp!ClientsKept,
                   Tcp!NobodyForgotten, Tcp!TurnedAwayByExit
<1>4. QED
  BY <1>1, <1>2, <1>3, PTL DEF Spec
-------------------------------------------------------------------------------
(* The messages of mq_example.cpp *)

Ended == reader \in {"unlink", "done"}

\* What this run has sent is a part of the file, and after it the empty message.
SentSoFar ==
  /\ \A j \in 1..Len(sent) :
       sent[j] = IF j <= Chunks THEN [run |-> mq_run, k |-> j] ELSE Mq!End
  /\ writer \in {"open", "file"} => k = 0 /\ sent = <<>>
  /\ writer \in {"read", "failing"} => Len(sent) = k
  /\ writer = "send" => k > 0 /\ Len(sent) = k - 1
  /\ writer = "end" => k = Chunks /\ Len(sent) = Chunks
  /\ writer = "done" => sent = <<>> \/ Len(sent) = Chunks + 1

\* The reader has received nothing beyond the empty message, and has ended with it.
ReadSoFar ==
  /\ \A j \in 1..Len(mq_got) : mq_got[j] = Mq!End <=> (j = Len(mq_got) /\ Ended)
  /\ Ended => mq_got # <<>>
  /\ reader = "open" => mq_got = <<>>
  /\ reader = "done" => ~linked

MqTypes == /\ Mq!TypeOK
           /\ left \in Seq(Mq!Messages) /\ sent \in Seq(Mq!Messages)
           /\ mq_got \in Seq(Mq!Messages)
MqInv == MqTypes /\ OldFirst /\ SentSoFar /\ ReadSoFar

LEMMA MqBounds == Runs \in Nat \ {0} /\ Chunks \in Nat /\ MaxMsg \in Nat \ {0}
BY BoundsAssumption DEF Shm!RunsBound, Mq!QueueBounds

LEMMA MqMessages ==
  /\ Mq!End \in Mq!Messages
  /\ \A r \in 1..Runs, c \in 1..Chunks :
       [run |-> r, k |-> c] \in Mq!Messages /\ [run |-> r, k |-> c] # Mq!End
BY MqBounds DEF Mq!End, Mq!Messages

\* A message that goes from the head of one sequence to the end of another keeps
\* its place in both together, and one at the end of the second is their last.
LEMMA Moved ==
  ASSUME NEW S, NEW a \in Seq(S), NEW b \in Seq(S), b # <<>>
  PROVE  Append(a, Head(b)) \o Tail(b) = a \o b
<1>1. b = <<Head(b)>> \o Tail(b) /\ <<Head(b)>> \in Seq(S) /\ Tail(b) \in Seq(S)
  BY HeadTailProperties, SeqEqual, ConcatProperties
<1>2. Append(a, Head(b)) = a \o <<Head(b)>>
  BY HeadTailProperties, AppendIsConcat
<1>3. QED
  BY <1>1, <1>2, ConcatAssociative

LEMMA Extended ==
  ASSUME NEW S, NEW a \in Seq(S), NEW b \in Seq(S), NEW m \in S
  PROVE  a \o Append(b, m) = Append(a \o b, m)
<1>1. a \o b \in Seq(S) /\ <<m>> \in Seq(S)
  BY ConcatProperties
<1>2. Append(b, m) = b \o <<m>> /\ Append(a \o b, m) = (a \o b) \o <<m>>
  BY <1>1, AppendIsConcat
<1>3. QED
  BY <1>1, <1>2, ConcatAssociative

LEMMA MqInitHolds ==
  ASSUME Mq!Init
  PROVE  MqInv
<1> USE MqBounds DEF Mq!Init
<1>1. MqTypes
  <2>1. <<>> \in Seq(Mq!Messages) /\ Len(<<>>) = 0
    BY EmptySeq
  <2>2. left = <<>> /\ sent = <<>> /\ mq_got = <<>> /\ msgs = <<>>
    OBVIOUS
  <2>3. msgs \in Seq(Mq!Messages) /\ Len(msgs) <= MaxMsg
    BY <2>1, <2>2
  <2>4. \A s \in {left, sent, mq_got} : s \in Seq(Mq!Messages)
    BY <2>1, <2>2
  <2>5. k \in 0..Chunks /\ mq_run \in 1..Runs
    OBVIOUS
  <2>6. QED
    BY <2>3, <2>4, <2>5, Zenon DEF MqTypes, Mq!TypeOK
<1>2. OldFirst
  BY DEF OldFirst, Mq!OldFirst
<1>3. SentSoFar /\ ReadSoFar
  BY DEF SentSoFar, ReadSoFar, Ended
<1>4. QED
  BY <1>1, <1>2, <1>3 DEF MqInv

LEMMA MqReceiveStep ==
  ASSUME MqInv, Mq!Receive
  PROVE  MqInv'
<1> USE MqBounds DEF MqInv, Mq!Receive, Mq!ReaderGo
<1> DEFINE S == Mq!Messages
<1>1. /\ mq_got \in Seq(S) /\ msgs \in Seq(S) /\ msgs # <<>>
      /\ Head(msgs) \in S /\ Tail(msgs) \in Seq(S) /\ Len(Tail(msgs)) = Len(msgs) - 1
      /\ Len(msgs) \in Nat /\ Len(msgs) <= MaxMsg
  BY HeadTailProperties, LenProperties DEF MqTypes, Mq!TypeOK
<1>2. /\ mq_got' \in Seq(S) /\ Len(mq_got') = Len(mq_got) + 1 /\ mq_got' # <<>>
      /\ mq_got'[Len(mq_got) + 1] = Head(msgs)
      /\ \A j \in 1..Len(mq_got) : mq_got'[j] = mq_got[j]
  BY <1>1, AppendProperties
<1>3. MqTypes'
  <2>1. msgs' \in Seq(S) /\ Len(msgs') <= MaxMsg
    BY <1>1
  <2>2. QED
    BY <1>2, <2>1 DEF MqTypes, Mq!TypeOK, Mq!Messages
<1>4. OldFirst'
  BY <1>1, Moved DEF OldFirst, Mq!OldFirst
<1>5. SentSoFar'
  BY DEF SentSoFar
<1>6. ReadSoFar'
  <2>1. Len(mq_got) \in Nat
    BY <1>1, LenProperties
  <2>2. Ended' <=> Head(msgs) = Mq!End
    BY DEF Ended, Mq!IsLast
  <2>3. \A j \in 1..Len(mq_got) : mq_got[j] # Mq!End
    BY DEF ReadSoFar, Ended
  <2>4. ASSUME NEW j \in 1..Len(mq_got')
        PROVE  mq_got'[j] = Mq!End <=> (j = Len(mq_got') /\ Ended')
    <3>1. CASE j = Len(mq_got) + 1
      BY <3>1, <1>2, <2>2
    <3>2. CASE j \in 1..Len(mq_got)
      BY <3>2, <1>2, <2>1, <2>3
    <3>3. QED
      BY <1>2, <2>1, <3>1, <3>2
  <2>5. reader' \in {"receive", "unlink"}
    OBVIOUS
  <2>6. QED
    BY <1>2, <2>4, <2>5 DEF ReadSoFar, Mq!End
<1>7. QED
  BY <1>3, <1>4, <1>5, <1>6

LEMMA MqReaderStep ==
  ASSUME MqInv, Mq!ReaderOpen \/ Mq!Unlink
  PROVE  MqInv'
<1> USE DEF MqInv, Mq!ReaderOpen, Mq!Unlink, Mq!ReaderGo, Mq!history, Mq!Opened
<1>1. MqTypes'
  BY DEF MqTypes, Mq!TypeOK, Mq!Messages, Mq!NameAfter
<1>2. OldFirst' /\ SentSoFar'
  BY DEF OldFirst, Mq!OldFirst, SentSoFar
<1>3. ReadSoFar'
  BY DEF ReadSoFar, Ended, Mq!NameAfter
<1>4. QED
  BY <1>1, <1>2, <1>3

LEMMA MqSendStep ==
  ASSUME MqInv, Mq!SendChunk \/ Mq!SendEnd
  PROVE  MqInv'
<1> USE MqBounds DEF MqInv
<1>1. PICK m \in Mq!Messages :
        /\ msgs' = Append(msgs, m) /\ sent' = Append(sent, m) /\ Len(msgs) < MaxMsg
        /\ UNCHANGED <<linked, reader, k, mq_run, left, mq_got>>
        /\ m = IF Len(sent) < Chunks THEN [run |-> mq_run, k |-> Len(sent) + 1] ELSE Mq!End
        /\ \/ writer' = "read" /\ k = Len(sent) + 1
           \/ writer' = "done" /\ Len(sent) = Chunks
  <2> USE DEF Mq!Send, Mq!WriterGo, Mq!HasRoom, Mq!Queued, SentSoFar
  <2>1. k \in 0..Chunks /\ mq_run \in 1..Runs
    BY DEF MqTypes, Mq!TypeOK
  <2>2. CASE Mq!SendChunk
    <3>1. k \in 1..Chunks /\ Len(sent) = k - 1
      BY <2>1, <2>2 DEF Mq!SendChunk
    <3>2. QED
      BY <2>1, <2>2, <3>1, MqMessages DEF Mq!SendChunk
  <2>3. CASE Mq!SendEnd
    BY <2>3, MqMessages DEF Mq!SendEnd
  <2>4. QED
    BY <2>2, <2>3
<1>2. /\ msgs \in Seq(Mq!Messages) /\ sent \in Seq(Mq!Messages)
      /\ mq_got \in Seq(Mq!Messages) /\ left \in Seq(Mq!Messages)
      /\ Len(sent) \in Nat /\ Len(msgs) \in Nat
  BY LenProperties DEF MqTypes, Mq!TypeOK
<1>3. /\ msgs' \in Seq(Mq!Messages) /\ Len(msgs') = Len(msgs) + 1
      /\ sent' \in Seq(Mq!Messages) /\ Len(sent') = Len(sent) + 1
      /\ \A j \in 1..Len(sent) : sent'[j] = sent[j]
      /\ sent'[Len(sent) + 1] = m
  BY <1>1, <1>2, AppendProperties
<1>4. MqTypes'
  <2>1. writer' \in {"read", "done"} /\ Len(msgs') <= MaxMsg
    BY <1>1, <1>2, <1>3
  <2>2. QED
    BY <1>1, <1>3, <2>1 DEF MqTypes, Mq!TypeOK, Mq!Messages
<1>5. OldFirst'
  <2>1. mq_got \o Append(msgs, m) = Append(mq_got \o msgs, m)
    BY <1>2, Extended
  <2>2. left \o Append(sent, m) = Append(left \o sent, m)
    BY <1>2, Extended
  <2>3. QED
    BY <1>1, <2>1, <2>2 DEF OldFirst, Mq!OldFirst
<1>6. SentSoFar'
  <2>1. ASSUME NEW j \in 1..Len(sent')
        PROVE  sent'[j] = IF j <= Chunks THEN [run |-> mq_run', k |-> j] ELSE Mq!End
    <3>1. CASE j = Len(sent) + 1
      BY <3>1, <1>1, <1>2, <1>3
    <3>2. CASE j \in 1..Len(sent)
      BY <3>2, <1>1, <1>3 DEF SentSoFar
    <3>3. QED
      BY <1>2, <1>3, <3>1, <3>2
  <2>2. \/ writer' = "read" /\ Len(sent') = k'
        \/ writer' = "done" /\ Len(sent') = Chunks + 1
    BY <1>1, <1>3
  <2>3. QED
    BY <2>1, <2>2 DEF SentSoFar, Mq!End
<1>7. ReadSoFar'
  BY <1>1 DEF ReadSoFar, Ended
<1>8. QED
  BY <1>4, <1>5, <1>6, <1>7

LEMMA MqWriterStep ==
  ASSUME MqInv, Mq!WriterOpen \/ Mq!OpenFile \/ Mq!ReadFile \/ Mq!ReadFails \/ Mq!Retry
  PROVE  MqInv'
<1> USE MqBounds DEF MqInv, Mq!WriterOpen, Mq!OpenFile, Mq!ReadFile, Mq!ReadFails, Mq!Retry,
                     Mq!WriterGo, Mq!queue, Mq!history, Mq!AtEof
<1>1. k \in 0..Chunks
  BY DEF MqTypes, Mq!TypeOK
<1>2. MqTypes'
  BY <1>1 DEF MqTypes, Mq!TypeOK, Mq!Messages
<1>3. OldFirst'
  BY DEF OldFirst, Mq!OldFirst
<1>4. SentSoFar'
  <2>1. CASE Mq!WriterOpen \/ Mq!OpenFile
    <3>1. sent = <<>> /\ k = 0 /\ Len(sent) = 0
      BY <2>1 DEF SentSoFar
    <3>2. QED
      BY <2>1, <3>1 DEF SentSoFar
  <2>2. CASE Mq!ReadFile
    BY <2>2, <1>1 DEF SentSoFar
  <2>3. CASE Mq!ReadFails \/ Mq!Retry
    BY <2>3, <1>1 DEF SentSoFar
  <2>4. QED
    BY <2>1, <2>2, <2>3
<1>5. ReadSoFar'
  BY DEF ReadSoFar, Ended
<1>6. QED
  BY <1>2, <1>3, <1>4, <1>5

\* The next run starts with what is in the queue, and takes it for its own.
LEMMA MqAgainStep ==
  ASSUME MqInv, Mq!Again
  PROVE  MqInv'
<1> USE MqBounds DEF MqInv, Mq!Again
<1>1. left' \in Seq(Mq!Messages) /\ Len(left') <= MaxMsg /\ mq_run' \in 1..Runs
  BY EmptySeq DEF MqTypes, Mq!TypeOK
<1>2. MqTypes'
  BY <1>1, EmptySeq DEF MqTypes, Mq!TypeOK, Mq!Messages
<1>3. OldFirst'
  BY <1>1, ConcatEmptySeq DEF OldFirst, Mq!OldFirst
<1>4. SentSoFar' /\ ReadSoFar'
  BY DEF SentSoFar, ReadSoFar, Ended
<1>5. QED
  BY <1>2, <1>3, <1>4

\* A reader that found nothing from before stops at the only end that was sent.
LEMMA MqRunIsClean ==
  ASSUME MqInv
  PROVE  CleanRun
<1> USE MqBounds DEF MqInv
<1>1. SUFFICES ASSUME left = <<>>, Ended
               PROVE  /\ mq_got = Append(Mq!File, Mq!End) /\ writer = "done"
                      /\ msgs = <<>>
  BY DEF CleanRun, Mq!CleanRun, Ended, MqTypes, ReadSoFar
<1> DEFINE n == Len(mq_got)
<1>2. /\ mq_got \in Seq(Mq!Messages) /\ msgs \in Seq(Mq!Messages)
      /\ sent \in Seq(Mq!Messages) /\ mq_run \in 1..Runs
      /\ n \in Nat \ {0} /\ Len(msgs) \in Nat /\ Len(sent) \in Nat
  BY <1>1, LenProperties, EmptySeq DEF MqTypes, Mq!TypeOK, ReadSoFar
<1>3. mq_got \o msgs = sent
  BY <1>1, <1>2, ConcatEmptySeq DEF OldFirst, Mq!OldFirst
<1>4. n + Len(msgs) = Len(sent) /\ \A j \in 1..n : sent[j] = mq_got[j]
  BY <1>2, <1>3, ConcatProperties
<1>5. sent[n] = Mq!End
  BY <1>1, <1>2, <1>4 DEF ReadSoFar
<1>6. n > Chunks
  <2>1. sent[n] = IF n <= Chunks THEN [run |-> mq_run, k |-> n] ELSE Mq!End
    BY <1>2, <1>4 DEF SentSoFar
  <2>2. QED
    BY <1>2, <1>5, <2>1, MqMessages
<1>7. writer = "done" /\ n = Chunks + 1 /\ Len(msgs) = 0
  <2>1. Len(sent) > Chunks
    BY <1>2, <1>4, <1>6
  <2>2. /\ k \in 0..Chunks
        /\ writer \in {"open", "file", "read", "failing", "send", "end", "done"}
    BY DEF MqTypes, Mq!TypeOK
  <2>3. writer = "done" /\ Len(sent) = Chunks + 1
    BY <2>1, <2>2 DEF SentSoFar
  <2>4. QED
    BY <1>2, <1>4, <1>6, <2>3
<1>8. mq_got = Append(Mq!File, Mq!End)
  <2>1. /\ Mq!File \in Seq(Mq!Messages) /\ Len(Mq!File) = Chunks
        /\ \A j \in 1..Chunks : Mq!File[j] = [run |-> mq_run, k |-> j]
    BY <1>2, MqMessages DEF Mq!File
  <2> DEFINE all == Append(Mq!File, Mq!End)
  <2>2. /\ all \in Seq(Mq!Messages) /\ Len(all) = Chunks + 1
        /\ \A j \in 1..Chunks : all[j] = Mq!File[j]
        /\ all[Chunks + 1] = Mq!End
    BY <2>1, MqMessages, AppendProperties
  <2>3. ASSUME NEW j \in 1..Len(mq_got) PROVE mq_got[j] = all[j]
    <3>1. mq_got[j] = IF j <= Chunks THEN [run |-> mq_run, k |-> j] ELSE Mq!End
      BY <1>2, <1>4 DEF SentSoFar
    <3>2. QED
      BY <1>7, <2>1, <2>2, <3>1
  <2>4. QED
    BY <1>2, <1>7, <2>2, <2>3, SeqEqual
<1>9. QED
  BY <1>2, <1>7, <1>8, EmptySeq

LEMMA MqInvariant == Spec => []MqInv
<1>1. Init => MqInv
  BY MqInitHolds DEF Init
<1>2. MqInv /\ [Next]_vars => MqInv'
  <2>1. ASSUME MqInv, UNCHANGED mqVars PROVE MqInv'
    BY <2>1 DEF mqVars, MqInv, MqTypes, Mq!TypeOK, Mq!Messages, OldFirst, Mq!OldFirst,
                SentSoFar, ReadSoFar, Ended
  <2>2. [Next]_vars => Mq!Next \/ UNCHANGED mqVars
    BY DEF Next, vars, MqStep, ShmStep, UdpStep, TcpStep
  <2>3. QED
    BY <2>1, <2>2, MqReceiveStep, MqReaderStep, MqSendStep, MqWriterStep, MqAgainStep
       DEF Mq!Next, Mq!Reader, Mq!Writer
<1>3. QED
  BY <1>1, <1>2, PTL DEF Spec

\* The queue neither loses nor reorders: what is received and what is still in it is
\* what was left and what was sent, for any number of runs, any file and any room in
\* the queue (mq_example.cpp lines 30-31, 80).
THEOREM OldMessagesFirst == Spec => []OldFirst
<1>1. MqInv => OldFirst
  BY DEF MqInv
<1>2. QED
  BY <1>1, MqInvariant, PTL

\* A run that found the queue empty stops with the file and nothing else, leaves no
\* writer behind, and at its end neither a name nor a message (mq_example.cpp lines
\* 32-59, 71-102).
THEOREM RunsAreClean == Spec => []CleanRun
<1>1. MqInv => CleanRun
  BY MqRunIsClean
<1>2. QED
  BY <1>1, MqInvariant, PTL

\* Nothing was sent and nothing was left, so there is nothing the reader could receive.
Deserted == /\ mq_run = Runs /\ left = <<>> /\ writer = "done" /\ sent = <<>>
            /\ reader \in {"open", "receive"}

LEMMA DesertedQueueIsEmpty ==
  ASSUME MqInv, left = <<>>, sent = <<>>
  PROVE  msgs = <<>> /\ mq_got = <<>>
<1>1. msgs \in Seq(Mq!Messages) /\ mq_got \in Seq(Mq!Messages) /\ mq_got \o msgs = <<>> \o <<>>
  BY DEF MqInv, MqTypes, Mq!TypeOK, OldFirst, Mq!OldFirst
<1>2. Len(mq_got) + Len(msgs) = 0
  BY <1>1, ConcatProperties, EmptySeq
<1>3. QED
  BY <1>1, <1>2, LenProperties, EmptySeq

LEMMA DesertedStep ==
  ASSUME MqInv, Deserted, [Next]_vars
  PROVE  Deserted'
<1>1. msgs = <<>> /\ mq_run = Runs /\ Runs \in Nat
  BY DesertedQueueIsEmpty, MqBounds DEF Deserted
<1>2. CASE UNCHANGED mqVars
  BY <1>2 DEF Deserted, mqVars
<1>3. CASE Mq!Next
  BY <1>1, <1>3
     DEF Deserted, Mq!Next, Mq!Reader, Mq!Writer, Mq!ReaderOpen, Mq!Receive, Mq!Unlink,
         Mq!WriterOpen, Mq!OpenFile, Mq!ReadFile, Mq!ReadFails, Mq!Retry, Mq!SendChunk,
         Mq!SendEnd, Mq!Send, Mq!Again, Mq!ReaderGo, Mq!WriterGo, Mq!Opened, Mq!history
<1>4. QED
  BY <1>2, <1>3 DEF Next, vars, MqStep, ShmStep, UdpStep, TcpStep

\* A writer that fails to open the queue or the file leaves the reader without any message,
\* now or later: it is in mq_open() or mq_receive() for good (mq_example.cpp lines 67, 107-110,
\* 124).  It is the safety half of what LeftWaiting says of this program.
THEOREM ReaderIsDeserted ==
  Spec => [](mq_run = Runs /\ left = <<>> /\ writer = "done" /\ sent = <<>>
               => [](reader \in {"open", "receive"}))
<1>1. MqInv /\ mq_run = Runs /\ left = <<>> /\ writer = "done" /\ sent = <<>> => Deserted
  <2>1. SUFFICES ASSUME MqInv, mq_run = Runs, left = <<>>, writer = "done", sent = <<>>
                 PROVE  Deserted
    OBVIOUS
  <2>2. mq_got = <<>> /\ reader \in {"open", "receive", "unlink", "done"}
    BY <2>1, DesertedQueueIsEmpty DEF MqInv, MqTypes, Mq!TypeOK
  <2>3. QED
    BY <2>1, <2>2 DEF MqInv, ReadSoFar, Ended, Deserted
<1>2. MqInv /\ Deserted /\ [Next]_vars => Deserted'
  BY DesertedStep
<1>3. Deserted => reader \in {"open", "receive"}
  BY DEF Deserted
<1>4. QED
  BY <1>1, <1>2, <1>3, MqInvariant, PTL DEF Spec
-------------------------------------------------------------------------------
(* The conversation of udp_example.cpp *)

Ports == 1..Len(inbox)
Silent == /\ \A n \in Ports : ~Udp!AtPort(n)
          /\ \A r \in 1..Runs : ~Udp!AtServer(r)
          /\ back = 0

\* A run that has not begun has sent nothing; a client that does not wait has nothing
\* on the way, and there is never more than one datagram of a conversation.
UdpInv ==
  /\ Udp!TypeOK /\ Udp!OneServer
  /\ \A n \in Ports : inbox[n].from <= udp_run
  /\ \A r \in 1..Runs : peer[r] <= udp_run
  /\ udp_client = "ask" => i = 1
  /\ udp_client = "receive" => i <= rolls
  /\ udp_client \in {"ask", "send"} => Silent
  /\ udp_client = "done" => back = 0
  /\ \A n, m \in Ports : Udp!AtPort(n) /\ Udp!AtPort(m) => n = m
  /\ \A n \in Ports, r \in 1..Runs : ~(Udp!AtPort(n) /\ Udp!AtServer(r))
  /\ back \in {0, 1}
  /\ back = 1 => /\ \A n \in Ports : ~Udp!AtPort(n)
                 /\ \A r \in 1..Runs : ~Udp!AtServer(r)

LEMMA UdpBounds == MaxRolls \in Nat /\ Answers \subseteq Int /\ Runs \in Nat \ {0}
BY BoundsAssumption DEF Udp!RunsBounds

LEMMA UdpInitHolds ==
  ASSUME Udp!Init
  PROVE  UdpInv
<1> USE UdpBounds DEF Udp!Init
<1>1. inbox \in Seq(Udp!Datagrams) /\ Ports = {}
  BY EmptySeq DEF Ports
<1>2. Udp!TypeOK
  BY <1>1 DEF Udp!TypeOK
<1>3. QED
  BY <1>1, <1>2 DEF UdpInv, Udp!OneServer, Silent, Udp!AtPort, Udp!AtServer

LEMMA UdpBindStep ==
  ASSUME UdpInv, NEW r \in 1..Runs, Udp!Bind(r)
  PROVE  UdpInv'
<1> USE UdpBounds DEF UdpInv, Udp!Bind, Udp!ServerGo, Udp!PortFree, Udp!loop
<1>1. /\ udp_server \in [1..Runs -> {"unborn", "bind", "receive", "reply", "done"}]
      /\ udp_server[r] = "bind" /\ bound \in 0..Runs
      /\ udp_server' \in {[udp_server EXCEPT ![r] = "receive"], [udp_server EXCEPT ![r] = "done"]}
      /\ UNCHANGED <<peer, inbox, udp_client, rolls, i, back, udp_run>>
  BY DEF Udp!TypeOK
<1>2. Udp!TypeOK'
  BY <1>1 DEF Udp!TypeOK, Udp!Datagrams
<1>3. Udp!OneServer'
  BY <1>1 DEF Udp!OneServer
<1>4. /\ \A n : Udp!AtPort(n)' <=> Udp!AtPort(n)
      /\ \A s \in 1..Runs : Udp!AtServer(s)' => Udp!AtServer(s)
      /\ Ports' = Ports
  BY <1>1 DEF Udp!AtPort, Udp!AtServer, Ports
<1>5. QED
  BY <1>1, <1>2, <1>3, <1>4 DEF Silent

\* The datagram received leaves the port, and the others move up.
LEMMA UdpReceiveStep ==
  ASSUME UdpInv, NEW r \in 1..Runs, Udp!Receive(r)
  PROVE  UdpInv'
<1> USE UdpBounds DEF UdpInv, Udp!loop
<1>1. /\ udp_server \in [1..Runs -> {"unborn", "bind", "receive", "reply", "done"}]
      /\ peer \in [1..Runs -> 0..Runs] /\ inbox \in Seq(Udp!Datagrams)
      /\ bound = r /\ inbox # <<>> /\ udp_server[r] = "receive"
      /\ peer' = [peer EXCEPT ![r] = Head(inbox).from]
      /\ UNCHANGED <<udp_client, rolls, i, back, udp_run>>
      /\ \/ /\ Head(inbox).what = "throw" /\ inbox' = Tail(inbox) /\ bound' = r
            /\ udp_server' = [udp_server EXCEPT ![r] = "reply"]
         \/ /\ Head(inbox).what # "throw" /\ inbox' = <<>> /\ bound' = 0
            /\ udp_server' = [udp_server EXCEPT ![r] = "done"]
  BY DEF Udp!TypeOK, Udp!Receive, Udp!ServerGo
<1>2. /\ Len(inbox) \in Nat \ {0} /\ Head(inbox) = inbox[1] /\ inbox[1] \in Udp!Datagrams
      /\ 1 \in Ports
  BY <1>1, EmptySeq, LenProperties, HeadTailProperties DEF Ports
<1>3. /\ inbox' \in Seq(Udp!Datagrams)
      /\ \A n \in Ports' : /\ n + 1 \in Ports /\ inbox'[n] = inbox[n + 1] /\ n \in Nat \ {0}
                           /\ Head(inbox).what = "throw"
  <2>1. CASE inbox' = <<>>
    BY <2>1, EmptySeq DEF Ports
  <2>2. CASE inbox' = Tail(inbox) /\ Head(inbox).what = "throw"
    <3>1. /\ Tail(inbox) \in Seq(Udp!Datagrams) /\ Len(Tail(inbox)) = Len(inbox) - 1
          /\ \A n \in 1..Len(Tail(inbox)) : Tail(inbox)[n] = inbox[n + 1]
      BY <1>1, HeadTailProperties
    <3>2. QED
      BY <2>2, <3>1, <1>2 DEF Ports
  <2>3. QED
    BY <1>1, <2>1, <2>2
<1>4. inbox[1].from \in 1..Runs /\ inbox[1].from <= udp_run
  BY <1>2 DEF Udp!Datagrams
<1>5. Udp!TypeOK'
  <2>1. peer' \in [1..Runs -> 0..Runs] /\ bound' \in 0..Runs
    BY <1>1, <1>2, <1>4
  <2>2. udp_server' \in [1..Runs -> {"unborn", "bind", "receive", "reply", "done"}]
    BY <1>1
  <2>3. inbox' \in Seq(Udp!Datagrams)
    BY <1>3
  <2>4. QED
    BY <1>1, <2>1, <2>2, <2>3 DEF Udp!TypeOK, Udp!Datagrams
<1>6. Udp!OneServer'
  BY <1>1 DEF Udp!OneServer
<1>7. /\ \A n \in Ports' : Udp!AtPort(n)' <=> Udp!AtPort(n + 1)
      /\ Udp!AtServer(r)' => Udp!AtPort(1)
      /\ \A s \in 1..Runs : s # r => ~Udp!AtServer(s)'
  <2>1. \A n \in Ports' : Udp!AtPort(n)' <=> Udp!AtPort(n + 1)
    BY <1>1, <1>3 DEF Udp!AtPort
  <2>2. Udp!AtServer(r)' => Udp!AtPort(1)
    BY <1>1, <1>2 DEF Udp!AtPort, Udp!AtServer
  <2>3. \A s \in 1..Runs : s # r => ~Udp!AtServer(s)'
    BY <1>1 DEF Udp!AtServer, Udp!OneServer
  <2>4. QED
    BY <2>1, <2>2, <2>3
<1>8. \A n \in Ports' : inbox'[n].from <= udp_run'
  BY <1>1, <1>3
<1>9. \A s \in 1..Runs : peer'[s] <= udp_run'
  BY <1>1, <1>2, <1>4
<1>10. /\ \A n, m \in Ports' : Udp!AtPort(n)' /\ Udp!AtPort(m)' => n = m
       /\ \A n \in Ports', s \in 1..Runs : ~(Udp!AtPort(n)' /\ Udp!AtServer(s)')
  <2>1. ASSUME NEW n \in Ports', NEW m \in Ports', Udp!AtPort(n)', Udp!AtPort(m)'
        PROVE  n = m
    BY <2>1, <1>3, <1>7
  <2>2. ASSUME NEW n \in Ports', NEW s \in 1..Runs, Udp!AtPort(n)', Udp!AtServer(s)'
        PROVE  FALSE
    <3>1. s = r /\ Udp!AtPort(1) /\ Udp!AtPort(n + 1)
      BY <2>2, <1>7
    <3>2. n + 1 = 1
      BY <3>1, <1>2, <1>3
    <3>3. QED
      BY <3>2, <1>3
  <2>3. QED
    BY <2>1, <2>2
<1>11. QED
  BY <1>1, <1>2, <1>3, <1>5, <1>6, <1>7, <1>8, <1>9, <1>10 DEF Silent

LEMMA UdpReplyStep ==
  ASSUME UdpInv, NEW r \in 1..Runs, Udp!Reply(r)
  PROVE  UdpInv'
<1> USE UdpBounds DEF UdpInv, Udp!port, Udp!loop
<1>1. /\ udp_server \in [1..Runs -> {"unborn", "bind", "receive", "reply", "done"}]
      /\ udp_server[r] = "reply" /\ udp_server' = [udp_server EXCEPT ![r] = "receive"]
      /\ back \in Nat /\ udp_client \in {"ask", "send", "receive", "done"}
      /\ back' = (IF peer[r] = udp_run /\ Udp!ClientOpen THEN back + 1 ELSE back)
      /\ UNCHANGED <<peer, inbox, bound, udp_client, rolls, i, udp_run>>
  BY DEF Udp!Reply, Udp!ServerGo, Udp!TypeOK
<1>2. Udp!TypeOK'
  BY <1>1 DEF Udp!TypeOK, Udp!Datagrams
<1>3. Udp!OneServer'
  BY <1>1 DEF Udp!OneServer
<1>4. /\ \A n : Udp!AtPort(n)' <=> Udp!AtPort(n)
      /\ \A s \in 1..Runs : ~Udp!AtServer(s)'
      /\ Ports' = Ports
  BY <1>1 DEF Udp!AtPort, Udp!AtServer, Ports, Udp!OneServer
<1>5. back' = back \/ (Udp!AtServer(r) /\ udp_client = "receive" /\ back' = 1)
  BY <1>1 DEF Udp!AtServer, Udp!ClientOpen, Silent
<1>6. QED
  BY <1>1, <1>2, <1>3, <1>4, <1>5 DEF Silent

\* What sendto() appends is the only datagram of this run at the port.
LEMMA UdpDeliver ==
  ASSUME UdpInv, NEW what \in {"throw", "stop"}, Udp!Deliver(what)
  PROVE  /\ inbox' \in Seq(Udp!Datagrams)
         /\ \/ inbox' = inbox
            \/ /\ Len(inbox') = Len(inbox) + 1
               /\ inbox'[Len(inbox) + 1] = [what |-> what, from |-> udp_run]
               /\ \A n \in Ports : inbox'[n] = inbox[n]
         /\ Len(inbox) \in Nat /\ udp_run \in 1..Runs
<1>1. inbox \in Seq(Udp!Datagrams) /\ udp_run \in 1..Runs
  BY DEF UdpInv, Udp!TypeOK
<1>2. [what |-> what, from |-> udp_run] \in Udp!Datagrams
  BY <1>1 DEF Udp!Datagrams
<1>3. QED
  BY <1>1, <1>2, AppendProperties, LenProperties DEF Udp!Deliver, Ports

LEMMA UdpSendStep ==
  ASSUME UdpInv, Udp!SendRequest \/ Udp!SendStop
  PROVE  UdpInv'
<1> USE UdpBounds DEF UdpInv, Udp!loop, Udp!ClientGo, Udp!InLoop, Udp!StopServer
<1>1. PICK what \in {"throw", "stop"} :
        /\ Udp!Deliver(what) /\ udp_client = "send" /\ Silent
        /\ UNCHANGED <<udp_server, peer, bound, rolls, i, udp_run>>
        /\ \/ what = "throw" /\ udp_client' = "receive" /\ back' = back /\ i <= rolls
           \/ what = "stop" /\ udp_client' = "done" /\ back' = 0
  BY DEF Udp!SendRequest, Udp!SendStop
<1>2. /\ inbox' \in Seq(Udp!Datagrams)
      /\ \/ inbox' = inbox
         \/ /\ Len(inbox') = Len(inbox) + 1
            /\ inbox'[Len(inbox) + 1] = [what |-> what, from |-> udp_run]
            /\ \A n \in Ports : inbox'[n] = inbox[n]
      /\ Len(inbox) \in Nat /\ udp_run \in 1..Runs
  BY <1>1, UdpDeliver
<1>3. Udp!TypeOK'
  BY <1>1, <1>2 DEF Udp!TypeOK, Udp!Datagrams, Silent
<1>4. Udp!OneServer'
  BY <1>1 DEF Udp!OneServer
<1>5. \A n \in Ports' : /\ inbox'[n].from <= udp_run'
                        /\ Udp!AtPort(n)' => n = Len(inbox) + 1
  <2>1. CASE inbox' = inbox
    BY <2>1, <1>1 DEF Ports, Silent, Udp!AtPort
  <2>2. CASE inbox' # inbox
    <3>1. SUFFICES ASSUME NEW n \in Ports'
                   PROVE  inbox'[n].from <= udp_run' /\ (Udp!AtPort(n)' => n = Len(inbox) + 1)
      OBVIOUS
    <3>2. CASE n \in Ports
      BY <3>2, <2>2, <1>1, <1>2 DEF Silent, Udp!AtPort
    <3>3. CASE n = Len(inbox) + 1
      BY <3>3, <2>2, <1>1, <1>2
    <3>4. QED
      BY <2>2, <1>2, <3>2, <3>3 DEF Ports
  <2>3. QED
    BY <2>1, <2>2
<1>6. \A r \in 1..Runs : ~Udp!AtServer(r)'
  BY <1>1 DEF Udp!AtServer, Silent
<1>7. back' = 0
  BY <1>1 DEF Silent
<1>8. QED
  BY <1>1, <1>3, <1>4, <1>5, <1>6, <1>7

LEMMA UdpAskOrReadStep ==
  ASSUME UdpInv, Udp!Ask \/ Udp!ReceiveReply
  PROVE  UdpInv'
<1> USE UdpBounds DEF UdpInv, Udp!port, Udp!ClientGo, Udp!Ask, Udp!ReceiveReply, Udp!HasReply,
                     Udp!Checked
<1>1. UNCHANGED <<udp_server, peer, bound, inbox, udp_run>>
  OBVIOUS
<1>2. back \in Nat /\ rolls \in Answers \cup {0} /\ i \in 1..(1 + IF rolls > 0 THEN rolls ELSE 0)
  BY DEF Udp!TypeOK
<1>3. Udp!TypeOK'
  <2>1. CASE Udp!Ask
    <3>1. PICK a \in Answers : rolls' = Udp!Checked(a) /\ i = 1 /\ i' = i /\ back' = back
                               /\ udp_client' = "send"
      BY <2>1
    <3>2. rolls' \in Answers \cup {0} /\ rolls' \in Int
      BY <3>1
    <3>3. i' \in 1..(1 + IF rolls' > 0 THEN rolls' ELSE 0)
      BY <3>1, <3>2
    <3>4. QED
      BY <1>1, <3>1, <3>2, <3>3 DEF Udp!TypeOK, Udp!Datagrams
  <2>2. CASE Udp!ReceiveReply
    <3> DEFINE most == 1 + IF rolls > 0 THEN rolls ELSE 0
    <3>1. rolls \in Int /\ i <= rolls /\ i \in 1..most
      <4>1. rolls \in Int
        BY <1>2
      <4>2. i <= rolls
        BY <2>2
      <4>3. QED
        BY <4>1, <4>2, <1>2
    <3>2. most = 1 + rolls /\ i \in Int
      BY <3>1
    <3>3. i' = i + 1 /\ rolls' = rolls /\ back' \in Nat
      BY <2>2, <1>2
    <3>4. i' \in 1..(1 + IF rolls' > 0 THEN rolls' ELSE 0)
      BY <3>1, <3>2, <3>3
    <3>5. QED
      BY <2>2, <1>1, <3>3, <3>4 DEF Udp!TypeOK, Udp!Datagrams
  <2>3. QED
    BY <2>1, <2>2
<1>4. Udp!OneServer'
  BY <1>1 DEF Udp!OneServer
<1>5. /\ Ports' = Ports /\ \A n : Udp!AtPort(n)' <=> Udp!AtPort(n)
      /\ \A r : Udp!AtServer(r)' <=> Udp!AtServer(r)
  BY <1>1 DEF Ports, Udp!AtPort, Udp!AtServer
<1>6. Silent'
  BY <1>1, <1>2, <1>5 DEF Silent
<1>7. QED
  BY <1>1, <1>3, <1>4, <1>5, <1>6 DEF Silent

LEMMA UdpInterruptStep ==
  ASSUME UdpInv, Udp!Interrupt
  PROVE  UdpInv'
<1> USE UdpBounds DEF UdpInv, Udp!Interrupt, Udp!loop
<1>1. /\ udp_server \in [1..Runs -> {"unborn", "bind", "receive", "reply", "done"}]
      /\ udp_run \in 1..Runs /\ udp_server' = [udp_server EXCEPT ![udp_run] = "done"]
      /\ bound \in 0..Runs /\ back' = 0 /\ udp_client' = "done"
      /\ UNCHANGED <<peer, rolls, i, udp_run>>
  BY DEF Udp!TypeOK
<1>2. inbox' \in Seq(Udp!Datagrams) /\ \/ inbox' = inbox
                                       \/ inbox' = <<>>
  BY EmptySeq DEF Udp!TypeOK
<1>3. Udp!TypeOK'
  BY <1>1, <1>2 DEF Udp!TypeOK, Udp!Datagrams
<1>4. Udp!OneServer'
  BY <1>1 DEF Udp!OneServer
<1>5. \A n \in Ports' : n \in Ports /\ inbox'[n] = inbox[n]
  BY <1>2 DEF Ports
<1>6. /\ \A n \in Ports' : Udp!AtPort(n)' => Udp!AtPort(n)
      /\ \A r \in 1..Runs : Udp!AtServer(r)' => Udp!AtServer(r)
  BY <1>1, <1>5 DEF Udp!AtPort, Udp!AtServer
<1>7. QED
  BY <1>1, <1>3, <1>4, <1>5, <1>6

\* No datagram at the port and no server has anything of a run that is only starting.
LEMMA UdpNextRunStep ==
  ASSUME UdpInv, Udp!NextRun
  PROVE  UdpInv'
<1> USE UdpBounds DEF UdpInv, Udp!NextRun, Udp!port
<1>1. /\ udp_server \in [1..Runs -> {"unborn", "bind", "receive", "reply", "done"}]
      /\ udp_run \in 1..Runs /\ udp_run + 1 \in 1..Runs /\ udp_run' = udp_run + 1
      /\ udp_server' = [udp_server EXCEPT ![udp_run + 1] = "bind"]
      /\ peer \in [1..Runs -> 0..Runs] /\ inbox \in Seq(Udp!Datagrams)
      /\ UNCHANGED <<peer, inbox, bound, back>> /\ i' = 1 /\ rolls' = 0
      /\ udp_client' = "ask" /\ back = 0
  BY DEF Udp!TypeOK
<1>2. Udp!TypeOK'
  BY <1>1 DEF Udp!TypeOK, Udp!Datagrams
<1>3. Udp!OneServer'
  BY <1>1 DEF Udp!OneServer
<1>4. Ports' = Ports /\ \A n \in Ports : inbox[n].from \in 1..Runs
  <2>1. Ports' = Ports
    BY <1>1 DEF Ports
  <2>2. \A n \in Ports : inbox[n] \in Udp!Datagrams
    BY <1>1, ElementOfSeq DEF Ports
  <2>3. QED
    BY <2>1, <2>2 DEF Udp!Datagrams
<1>5. /\ \A n \in Ports' : inbox'[n].from <= udp_run' /\ ~Udp!AtPort(n)'
      /\ \A r \in 1..Runs : peer'[r] <= udp_run' /\ ~Udp!AtServer(r)'
  BY <1>1, <1>4 DEF Udp!AtPort, Udp!AtServer
<1>6. QED
  BY <1>1, <1>2, <1>3, <1>5 DEF Silent

LEMMA UdpCounts == \A S : Udp!Cardinality(S) = Cardinality(S)
BY DEF Udp!Cardinality, Cardinality

\* Three sets of which one at most has an element, and no more than one.
LEMMA UdpInvCounts ==
  ASSUME UdpInv
  PROVE  OneInFlight
<1> DEFINE atPort == {n \in DOMAIN inbox : Udp!AtPort(n)}
           atServer == {r \in 1..Runs : Udp!AtServer(r)}
<1>1. DOMAIN inbox = Ports
  BY LenProperties DEF UdpInv, Udp!TypeOK, Ports
<1>2. Udp!InFlight = Cardinality(atPort) + Cardinality(atServer) + back
  BY UdpCounts DEF Udp!InFlight
<1>3. Cardinality({}) = 0 /\ \A x : Cardinality({x}) = 1
  BY FS_EmptySet, FS_Singleton
<1>4. \A n \in atPort : atPort = {n}
  BY <1>1 DEF UdpInv
<1>5. \A r \in atServer : atServer = {r}
  BY DEF UdpInv, Udp!OneServer, Udp!AtServer
<1>6. atPort = {} \/ atServer = {}
  BY <1>1 DEF UdpInv
<1>7. back = 0 \/ (back = 1 /\ atPort = {} /\ atServer = {})
  BY <1>1 DEF UdpInv
<1>8. Silent => atPort = {} /\ atServer = {} /\ back = 0
  BY <1>1 DEF Silent
<1>9. /\ atPort = {} \/ \E n : atPort = {n}
      /\ atServer = {} \/ \E r : atServer = {r}
  BY <1>4, <1>5
<1>10. Udp!InFlight \in 0..1 /\ (Silent => Udp!InFlight = 0)
  <2> HIDE DEF atPort, atServer
  <2>1. Cardinality(atPort) \in {0, 1} /\ Cardinality(atServer) \in {0, 1}
    BY <1>3, <1>9
  <2>2. /\ atPort = {} => Cardinality(atPort) = 0
        /\ atServer = {} => Cardinality(atServer) = 0
    BY <1>3
  <2>3. QED
    BY <1>2, <1>6, <1>7, <1>8, <2>1, <2>2
<1>11. QED
  BY <1>10 DEF UdpInv, OneInFlight, Udp!OneInFlight

LEMMA UdpInvariant == Spec => []UdpInv
<1>1. Init => UdpInv
  BY UdpInitHolds DEF Init
<1>2. UdpInv /\ [Next]_vars => UdpInv'
  <2>1. ASSUME UdpInv, UNCHANGED udpVars PROVE UdpInv'
    BY <2>1
       DEF udpVars, UdpInv, Udp!TypeOK, Udp!Datagrams, Udp!OneServer, Ports, Silent,
                Udp!AtPort, Udp!AtServer
  <2>2. [Next]_vars => Udp!Next \/ UNCHANGED udpVars
    BY DEF Next, vars, MqStep, ShmStep, UdpStep, TcpStep
  <2>3. UdpInv /\ Udp!Next => UdpInv'
    BY UdpBindStep, UdpReceiveStep, UdpReplyStep, UdpSendStep, UdpAskOrReadStep,
       UdpInterruptStep, UdpNextRunStep
       DEF Udp!Next, Udp!Server, Udp!Client
  <2>4. QED
    BY <2>1, <2>2, <2>3
<1>3. QED
  BY <1>1, <1>2, PTL DEF Spec

\* A client's conversation is one datagram in one place, at the port, with a server
\* or at its own socket, for any answers and however many runs were interrupted and
\* left their servers behind (udp_example.cpp lines 46-80, 119-146).
THEOREM OneDatagramInFlight == Spec => []OneInFlight
<1>1. UdpInv => OneInFlight
  BY UdpInvCounts
<1>2. QED
  BY <1>1, UdpInvariant, PTL

\* Nothing on the way and nothing to come: that is what Lost counts.
LEMMA UdpLostIsSilent == UdpInv => (Udp!InFlight = 0 <=> Silent)
<1> SUFFICES ASSUME UdpInv PROVE Udp!InFlight = 0 <=> Silent
  OBVIOUS
<1> DEFINE atPort == {n \in DOMAIN inbox : Udp!AtPort(n)}
           atServer == {r \in 1..Runs : Udp!AtServer(r)}
<1>1. DOMAIN inbox = Ports
  BY LenProperties DEF UdpInv, Udp!TypeOK, Ports
<1>2. Udp!InFlight = Cardinality(atPort) + Cardinality(atServer) + back
  BY UdpCounts DEF Udp!InFlight
<1>3. IsFiniteSet(atPort) /\ IsFiniteSet(atServer)
  <2>1. Len(inbox) \in Nat
    BY LenProperties DEF UdpInv, Udp!TypeOK
  <2>2. IsFiniteSet(Ports) /\ IsFiniteSet(1..Runs)
    BY <2>1, UdpBounds, FS_Interval DEF Ports
  <2>3. atPort \in SUBSET Ports /\ atServer \in SUBSET (1..Runs)
    BY <1>1
  <2> HIDE DEF atPort, atServer
  <2>4. QED
    BY <2>2, <2>3, FS_Subset
<1>4. Silent <=> atPort = {} /\ atServer = {} /\ back = 0
  BY <1>1 DEF Silent
<1> HIDE DEF atPort, atServer
<1>5. /\ Cardinality(atPort) \in Nat /\ (Cardinality(atPort) = 0 <=> atPort = {})
      /\ Cardinality(atServer) \in Nat /\ (Cardinality(atServer) = 0 <=> atServer = {})
  BY <1>3, FS_CardinalityType, FS_EmptySet
<1>6. back \in Nat
  BY DEF UdpInv, Udp!TypeOK
<1>7. QED
  BY <1>2, <1>4, <1>5, <1>6

\* A client that waits for a lost datagram waits on, or its run is over.
StillLost(r) == /\ udp_run >= r
                /\ udp_run = r => Udp!Lost \/ udp_client = "done"

LEMMA UdpStaysSilent ==
  ASSUME UdpInv, Silent, udp_client = "receive", Udp!Next, udp_client' # "done"
  PROVE  udp_client' = "receive" /\ Silent' /\ udp_run' = udp_run
<1> USE UdpBounds DEF UdpInv, Udp!port, Udp!loop, Udp!ServerGo, Udp!ClientGo
<1>1. ASSUME NEW s \in 1..Runs, Udp!Bind(s) PROVE Silent' /\ UNCHANGED <<udp_client, udp_run>>
  <2>1. /\ udp_server \in [1..Runs -> {"unborn", "bind", "receive", "reply", "done"}]
        /\ udp_server' \in {[udp_server EXCEPT ![s] = "receive"], [udp_server EXCEPT ![s] = "done"]}
        /\ UNCHANGED <<peer, inbox, back, udp_client, udp_run>>
    BY <1>1 DEF Udp!Bind, Udp!PortFree, Udp!TypeOK
  <2>2. QED
    BY <2>1 DEF Silent, Ports, Udp!AtPort, Udp!AtServer
<1>2. ASSUME NEW s \in 1..Runs, Udp!Reply(s) PROVE Silent' /\ UNCHANGED <<udp_client, udp_run>>
  <2>1. /\ udp_server \in [1..Runs -> {"unborn", "bind", "receive", "reply", "done"}]
        /\ udp_server[s] = "reply" /\ udp_server' = [udp_server EXCEPT ![s] = "receive"]
        /\ UNCHANGED <<peer, inbox, udp_client, udp_run>>
        /\ back' = IF peer[s] = udp_run /\ Udp!ClientOpen THEN back + 1 ELSE back
    BY <1>2 DEF Udp!Reply, Udp!TypeOK
  <2>2. back' = back
    BY <2>1 DEF Silent, Udp!AtServer
  <2>3. QED
    BY <2>1, <2>2 DEF Silent, Ports, Udp!AtPort, Udp!AtServer
<1>3. ASSUME NEW s \in 1..Runs, Udp!Receive(s) PROVE Silent' /\ UNCHANGED <<udp_client, udp_run>>
  <2>1. /\ udp_server \in [1..Runs -> {"unborn", "bind", "receive", "reply", "done"}]
        /\ peer \in [1..Runs -> 0..Runs] /\ inbox \in Seq(Udp!Datagrams) /\ inbox # <<>>
        /\ peer' = [peer EXCEPT ![s] = Head(inbox).from]
        /\ UNCHANGED <<udp_client, back, udp_run>>
        /\ \/ /\ Head(inbox).what = "throw" /\ inbox' = Tail(inbox)
              /\ udp_server' = [udp_server EXCEPT ![s] = "reply"]
           \/ /\ inbox' = <<>> /\ udp_server' = [udp_server EXCEPT ![s] = "done"]
    BY <1>3 DEF Udp!Receive, Udp!TypeOK
  <2>2. Len(inbox) \in Nat \ {0} /\ Head(inbox) = inbox[1] /\ 1 \in Ports
    BY <2>1, EmptySeq, LenProperties DEF Ports
  <2>3. \A n \in Ports' : n + 1 \in Ports /\ inbox'[n] = inbox[n + 1]
    <3>1. CASE inbox' = <<>>
      BY <3>1, EmptySeq DEF Ports
    <3>2. CASE inbox' = Tail(inbox)
      <4>1. /\ Len(Tail(inbox)) = Len(inbox) - 1
            /\ \A n \in 1..Len(Tail(inbox)) : Tail(inbox)[n] = inbox[n + 1]
        BY <2>1, HeadTailProperties
      <4>2. QED
        BY <3>2, <4>1, <2>2 DEF Ports
    <3>3. QED
      BY <2>1, <3>1, <3>2
  <2>4. \A n \in Ports' : ~Udp!AtPort(n)'
    BY <2>1, <2>3 DEF Silent, Udp!AtPort
  <2>5. ~Udp!AtServer(s)'
    BY <2>1, <2>2 DEF Silent, Udp!AtPort, Udp!AtServer
  <2>6. \A r \in 1..Runs : r # s => ~Udp!AtServer(r)'
    BY <2>1 DEF Silent, Udp!AtServer
  <2>7. QED
    BY <2>1, <2>4, <2>5, <2>6 DEF Silent
<1>4. ~Udp!Client /\ ~Udp!Interrupt /\ ~Udp!NextRun
  BY DEF Udp!Client, Udp!Ask, Udp!SendRequest, Udp!ReceiveReply, Udp!SendStop, Udp!HasReply,
         Udp!Interrupt, Udp!NextRun, Silent
<1>5. QED
  BY <1>1, <1>2, <1>3, <1>4 DEF Udp!Next, Udp!Server

LEMMA UdpStillLostStep ==
  ASSUME UdpInv, UdpInv', NEW r \in 1..Runs, StillLost(r), Udp!Next
  PROVE  StillLost(r)'
<1>1. udp_run \in 1..Runs /\ udp_run' \in {udp_run, udp_run + 1}
  BY DEF UdpInv, Udp!TypeOK, Udp!Next, Udp!Server, Udp!Bind, Udp!Receive, Udp!Reply,
         Udp!Client, Udp!Ask, Udp!SendRequest, Udp!ReceiveReply, Udp!SendStop,
         Udp!Interrupt, Udp!NextRun
<1>2. udp_run' >= r
  BY <1>1 DEF StillLost
<1>3. CASE udp_run' # r
  BY <1>2, <1>3 DEF StillLost
<1>4. CASE udp_run' = r /\ udp_client' # "done"
  <2>1. udp_run = r
    BY <1>1, <1>4 DEF StillLost
  <2>2. udp_client # "done"
    BY <1>4, <2>1 DEF Udp!Next, Udp!Server, Udp!Bind, Udp!Receive, Udp!Reply, Udp!Client, Udp!Ask,
         Udp!SendRequest, Udp!ReceiveReply, Udp!SendStop, Udp!Interrupt, Udp!NextRun,
         Udp!ClientGo, Udp!ServerGo, Udp!port, Udp!loop
  <2>3. udp_client = "receive" /\ Silent
    BY <2>1, <2>2, UdpLostIsSilent DEF StillLost, Udp!Lost
  <2>4. udp_client' = "receive" /\ Silent'
    BY <1>4, <2>3, UdpStaysSilent
  <2>5. (UdpInv => (Udp!InFlight = 0 <=> Silent))'
    BY UdpLostIsSilent, PTL
  <2>6. Udp!Lost'
    BY <2>4, <2>5 DEF Udp!Lost
  <2>7. QED
    BY <1>2, <2>6 DEF StillLost
<1>5. CASE udp_run' = r /\ udp_client' = "done"
  BY <1>2, <1>5 DEF StillLost
<1>6. QED
  BY <1>3, <1>4, <1>5

LEMMA LostInRun ==
  ASSUME NEW CONSTANT r \in 1..Runs
  PROVE  Spec => [](Udp!Lost /\ udp_run = r =>
                      [](udp_run = r => Udp!Lost \/ udp_client = "done"))
<1>1. UdpInv /\ UdpInv' /\ StillLost(r) /\ [Next]_vars => StillLost(r)'
  <2>1. ASSUME StillLost(r), UNCHANGED udpVars PROVE StillLost(r)'
    BY <2>1 DEF udpVars, StillLost, Udp!Lost, Udp!InFlight, Udp!AtPort, Udp!AtServer
  <2>2. [Next]_vars => Udp!Next \/ UNCHANGED udpVars
    BY DEF Next, vars, MqStep, ShmStep, UdpStep, TcpStep
  <2>3. QED
    BY <2>1, <2>2, UdpStillLostStep
<1>2. UdpInv /\ Udp!Lost /\ udp_run = r => StillLost(r)
  BY DEF UdpInv, Udp!TypeOK, StillLost
<1>3. StillLost(r) => (udp_run = r => Udp!Lost \/ udp_client = "done")
  BY DEF StillLost
<1>4. QED
  BY <1>1, <1>2, <1>3, UdpInvariant, PTL DEF Spec
\* What is lost stays lost: a client that waits while nothing of its conversation is on
\* the way waits until it is interrupted, whatever servers there are
\* (udp_example.cpp lines 126-139).  It is what LeftWaiting says of this program.
THEOREM LostDatagramStays == Spec => Udp!LostForGood
BY LostInRun DEF Udp!LostForGood
===============================================================================
