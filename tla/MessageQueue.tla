----------------------------- MODULE MessageQueue -----------------------------
(***************************************************************************)
(* Chapter 7/mq_example.cpp: a reader and a writer thread and the POSIX    *)
(* message queue between them.  The queue belongs to the kernel: when the  *)
(* program is killed and started again it finds what is left of it.  A     *)
(* message is a chunk of test.dat, with the run that sent it, or the empty *)
(* message that ends the transfer.                                         *)
(***************************************************************************)
EXTENDS Naturals, Sequences

CONSTANTS Chunks,  \* reads that test.dat takes
          MaxMsg,  \* attr.mq_maxmsg: 10 in the code
          Runs     \* bound: how often the program is started

QueueBounds == Chunks \in Nat /\ MaxMsg \in Nat \ {0} /\ Runs \in Nat

End == [run |-> 0, k |-> 0]

VARIABLES linked,   \* the name /test_queue exists
          msgs,     \* the messages in the queue
          reader,   \* where readFromQueue() is
          writer,   \* where writeToQueue() is
          k,        \* chunks the writer has read from the file
          run,      \* how often the program was started
          left,     \* history: the messages this run found in the queue
          sent, got \* history: what this run sent and received

queue == <<linked, msgs>>
history == <<left, sent, got>>
vars == <<queue, reader, writer, k, run, history>>

Init == /\ linked = FALSE /\ msgs = <<>>
        /\ reader = "open" /\ writer = "open" /\ k = 0
        /\ run = 1 /\ left = <<>> /\ sent = <<>> /\ got = <<>>

ReaderGo(from, to) == reader = from /\ reader' = to
WriterGo(from, to) == writer = from /\ writer' = to
-------------------------------------------------------------------------------
Opened == "receive"
\* mq_open(O_CREAT | O_RDONLY)
ReaderOpen == /\ ReaderGo("open", Opened)
              /\ linked' = TRUE
              /\ UNCHANGED <<msgs, writer, k, run, history>>

AnyIsLast(m) == TRUE   \* mutant: the loop ends with the first message
\* An empty message ends the reader's loop.
IsLast(m) == m = End
\* mq_receive() blocks while the queue is empty.
Receive == /\ msgs # <<>>
           /\ ReaderGo("receive", IF IsLast(Head(msgs)) THEN "unlink" ELSE "receive")
           /\ msgs' = Tail(msgs)
           /\ got' = Append(got, Head(msgs))
           /\ UNCHANGED <<linked, writer, k, run, left, sent>>

NameAfter == FALSE
\* mq_unlink() takes the name away; who has the queue open keeps it.
Unlink == /\ ReaderGo("unlink", "done")
          /\ linked' = NameAfter
          /\ UNCHANGED <<msgs, writer, k, run, history>>
-------------------------------------------------------------------------------
\* mq_open(O_WRONLY) fails when the reader has not created the queue yet.
WriterOpen == /\ WriterGo("open", IF linked THEN "file" ELSE "done")
              /\ UNCHANGED <<queue, reader, k, run, history>>

\* open("test.dat"): without the file, nothing is sent, not even the end.  A
\* directory of that name can be opened, too.
OpenFile == /\ \/ WriterGo("file", "read")
               \/ WriterGo("file", "done")
            /\ UNCHANGED <<queue, reader, k, run, history>>

EndForgotten == "done" \* mutant: nothing is sent at the end of the file
AtEof == "end"
ReadFile == /\ WriterGo("read", IF k < Chunks THEN "send" ELSE AtEof)
            /\ k' = IF k < Chunks THEN k + 1 ELSE k
            /\ UNCHANGED <<queue, reader, run, history>>

\* read() returns -1, and the loop tries again, which may fail for ever (EISDIR).
ReadFails == WriterGo("read", "failing") /\ UNCHANGED <<queue, reader, k, run, history>>
Retry == WriterGo("failing", "read") /\ UNCHANGED <<queue, reader, k, run, history>>

HasRoom == Len(msgs) < MaxMsg
Urgent(m) == <<m>> \o msgs \* mutant: with a higher priority than before
Queued(m) == Append(msgs, m)
\* mq_send() blocks while the queue is full.
Send(from, m, to) == /\ WriterGo(from, to)
                     /\ HasRoom
                     /\ msgs' = Queued(m)
                     /\ sent' = Append(sent, m)
                     /\ UNCHANGED <<linked, reader, k, run, left, got>>

SendChunk == Send("send", [run |-> run, k |-> k], "read")
SendEnd == Send("end", End, "done")
-------------------------------------------------------------------------------
\* The program ends or is killed, and is started once more.  Queues without a
\* name go with the last descriptor.
Again == /\ run < Runs
         /\ run' = run + 1
         /\ left' = IF linked THEN msgs ELSE <<>>
         /\ msgs' = left'
         /\ reader' = "open" /\ writer' = "open" /\ k' = 0
         /\ sent' = <<>> /\ got' = <<>>
         /\ UNCHANGED linked

Reader == ReaderOpen \/ Receive \/ Unlink
Writer == WriterOpen \/ OpenFile \/ ReadFile \/ SendChunk \/ SendEnd
Next == Reader \/ Writer \/ ReadFails \/ Retry \/ Again

\* Both threads run; nobody has to kill or restart the program, and a read that
\* fails need not work when it is tried again.
Spec == Init /\ [][Next]_vars /\ WF_vars(Reader) /\ WF_vars(Writer)
-------------------------------------------------------------------------------
Messages == [run : 1..Runs, k : 1..Chunks] \cup {End}
TypeOK == /\ linked \in BOOLEAN
          /\ msgs \in Seq(Messages) /\ Len(msgs) <= MaxMsg
          /\ reader \in {"open", "receive", "unlink", "done"}
          /\ writer \in {"open", "file", "read", "failing", "send", "end", "done"}
          /\ k \in 0..Chunks
          /\ run \in 1..Runs
          /\ \A s \in {left, sent, got} : s \in Seq(Messages)

File == [c \in 1..Chunks |-> [run |-> run, k |-> c]]
\* A run that found the queue empty stops reading with all of the file and
\* nothing else, and leaves no writer that waits for room in a queue nobody
\* reads; when it has reached its end there is no name and no message (lines
\* 32-59, 71-102).
CleanRun == /\ TypeOK
            /\ left = <<>> /\ reader \in {"unlink", "done"} =>
                 got = Append(File, End) /\ writer = "done"
            /\ left = <<>> /\ reader = "done" => ~linked /\ msgs = <<>>

\* What a killed run left is received first, as if it were this run's: the queue
\* has no memory of who sent a message (lines 30-31).
OldFirst == got \o msgs = left \o sent

\* When the writer finds the queue and the file, everything is delivered and both
\* threads return, unless the program is killed or reads fail again and again, for
\* which the loop has no end (lines 67-106).
Delivery == \/ []<>(writer = "failing")
            \/ (run = Runs /\ left = <<>> /\ writer = "read")
                 ~> (reader = "done" /\ got = Append(File, End))

\* A writer that came before the reader, or found no file, leaves the reader in
\* mq_receive() for ever: main() never returns (lines 67, 107-110, 124).
ReaderLeftWaiting ==
  [](run = Runs /\ left = <<>> /\ writer = "done" /\ sent = <<>>
       => []<>(reader = "receive"))
===============================================================================
