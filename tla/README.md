# Verification of C++ Programming for Linux Systems

The repository is a set of independent programs, one per file, that show how
threads and processes work together on Linux: locks, barriers, latches,
semaphores, queues, pipes, sockets and shared memory. Each has a `main()` of its
own. The modules here model those programs whose correctness depends on the order
of steps of several threads or processes, or on what a run leaves for the next.
TLC checks them on small instances. Every safety invariant, action property and
refinement that a passing run checks is also a theorem, which TLAPS proves for every
value of the constants; the liveness properties are model-checked.

    tlc -config TicketQueue.cfg TicketQueue     # one run
    tlapm TicketLockProofs.tla                  # one module's proofs

## The system: inventory

For each component: its state, its operations, how its parts interact, what is
hard about it, and what makes it correct. All paths are below `src/`.

| component | state | operations and interaction | hard | correct when |
|---|---|---|---|---|
| `Chapter 9/ticket_lock.cpp` | `serving`, `next`, a vector | lock, unlock by a producer and a consumer thread | spinning, with others between the draw of a ticket and each load; an unlocked read | exclusion, first come first served, nothing lost |
| `Chapter 6/barrier-temperature.cpp` | lists and means of the rooms, stop source, timer | four sensors, a barrier, its completion function | data without a lock, stop at the right phase | the completion function is alone, the report is fresh, everybody stops |
| `Chapter 7/cpp_sem_example.cpp` | two binary semaphores, a plain counter | two threads release each other | loops of different length | one turn, a one-place slot |
| `Chapter 7/cpp_atomic_flags.cpp` | atomic flag and counter | wait, set, notify by two threads | futex sleep, spurious wakeup, flag before change | no lost wakeup, bounded swing |
| `Chapter 7/posix_semaphore_example.c` | semaphore, flag, racy counter | two threads | too many posts, race on the counter | one thread works on the resource |
| `Chapter 7/mq_example.cpp` | a named queue, a file | reader and writer thread | who opens first, full queue, a file that cannot be read, remains of a killed run | delivered once and in order |
| `Chapter 7/shm_example.cpp` | named semaphores and region | parent and child | remains of earlier runs, who opens first | the child reads what this parent wrote |
| `Chapter 7/udp_example.cpp` | a UDP port | client and server process | lost datagrams, no timeout, servers left over | the two ends stay in step |
| `Chapter 7/tcp_server.cpp`, `tcp_client.cpp` | backlog, connection | an iterative server, its clients | SIGINT, killed and silent clients, blocking recv | no client is forgotten |
| `Chapter 9/read_write_lock.cpp` | shared mutex, vector of books | five readers, two writers, main() | a vector that moves under iterators | iterators stay valid, no book lost |
| `Chapter 3/named_pipe_example.c`, `cpp_and_named_pipe.cpp` | a FIFO | parent and child | one FIFO for both directions, remains, a failing fork | the parent always gets a message |
| `Chapter 6/latch.cpp` | latch | two threads and main() | lifetime of the latch; main() waits for arrivals, not for the end of the threads | nobody passes early, nobody uses the latch when it is gone |
| `Chapter 9/shared_mem_sp.cpp` | mutex, condition variable, region | producer and consumer | a region that outlives the program, spurious wakeups | the pointer printed is this run's, both threads end |
| `Chapter 9/condition_var.cpp` | condition variable | waiting, done | no predicate: notification lost | a thread asleep in time is woken |
| `Chapter 10/shmem_coroutines.cpp` | an event with two atomics, a named region | a coroutine suspends, another thread notifies and resumes it | notification before suspension, failing `mmap()`, remains of a killed run to crash on | resumed once, and only while it is suspended and its region is open |
| `Chapter 10/coroutine_socket.cpp` | two generators, a socket, a buffer | a thread sends, a thread polls | the buffer keeps an old datagram; moved generators | datagrams are shown in order, a frame has one owner |
| `Chapter 6/data-race.cpp` | two accounts | transfers, a thread for each | lost updates | nothing is lost unless two overlap |
| `Chapter 7/cpp_increment_atomic.cpp`, `cpp_mutex.cpp` | a counter | increments, atomic or under a mutex | lost updates | the mutex makes a load and a store one increment |
| `Chapter 6/stop-source.cpp`, `stop-token.cpp` | stop states | request, poll, destroy and join | one source or one for each thread | main() joins nobody who has not been asked |
| `Chapter 9/coop_cancellation.cpp` | stop state, callbacks | wait, register, request | the request against registration and sleep | the callback runs once, no wakeup is lost |
| `Chapter 2/waitpid_example.cpp` | two children, one status | fork, exit, reap | a failed fork is waited for | each child is reported as it ended |
| `Chapter 3/anonymous_pipe_example.cpp`, `anonymous_pipe_sigpipe_example.c` | a pipe | write, read, SIGPIPE | which end closes first, a killed process | the message is lost only with a process |
| `Chapter 5/raii.cpp` | descriptors and their guards | open, move, assign, destroy | an assignment that closes nothing | closed once, lost only by assignment |
| `Chapter 8/posix-alarm.cpp` | a flag | loop, timer, handler | handler against loop | the timer ends the loop and not the program |
| `Chapter 2`: fork, exec, `waitid_example.cpp` | processes | create, replace, reap | - | not modelled: the first do one thing each, the last does not compile with glibc, whose `WIFSIGNALED` takes an `int` and not a `siginfo_t` |
| `Chapter 5/leak.cpp`, `Chapter 9/smart_pointers.cpp`, `cycle_break.cpp` | reference counts | copy, reset | - | not modelled: a few lines of one thread each, with one order of steps |
| `Chapter 10/generator_example.cpp`, `coroutines.cpp` | a coroutine | resume | - | not modelled: one thread and one coroutine |
| `Chapter 3` file tools, `Chapter 4`, the rest of `Chapter 5` and `Chapter 8` | none | sequences of library calls with printed results | - | not modelled: nothing interleaves, and what they show is the library's |
| `Chapter 2/thread_creation_example.cpp`, `Chapter 6/hello-jthreads.cpp`, `future-promise.cpp`, `Chapter 9/lazy_init.cpp`, `hardware_interference_example.cpp` | none shared, or one call | start and join threads | - | not modelled: no two orders of their steps can be told apart |

The places where something can go wrong that a test would hardly reach are the
`hazards` of `PROJECT.json`, each at its line, with the properties that cover it.

## The modules

Comments in a module name the file it models and the lines each property is
about; the `map` of `PROJECT.json` names the lines of every definition. A
definition with the comment `mutant` is not part of any model: it is a plausible
mistake in the definition that follows it, and shows that a property can fail.

Every module keeps a `pc`-like variable (`at`, `pc`, or one per process) with the
place of each thread, one action per statement that others can see, and the
shared objects of the program as variables with the program's names. Printing is
left out. Sleeps are left out too: they make an order likely, never certain.

| module | models | notes |
|---|---|---|
| `TicketLock` | `struct TicketLock` | for any set of threads; `fetch_add` wraps at `SizeMax` |
| `FifoLock` | what the ticket lock promises | abstract: a line, whose head has the lock |
| `TicketQueue` | producer and consumer of `ticket_lock.cpp` | extends `TicketLock`, whose actions are its lock steps; main() starts one thread of each kind, the module any number |
| `TicketLockProofs` | proofs about `TicketLock` and `TicketQueue` | |
| `Barrier`, `BarrierProofs` | `barrier-temperature.cpp` | the completion function has three kinds of steps, so that a sensor could be seen to interfere |
| `OneSlot` | a resource that is filled and emptied in turn | abstract, implemented by `SemaphoreHandoff` and `PosixSemaphore` |
| `SemaphoreHandoff` | `cpp_sem_example.cpp` | load and store of the plain counter are two steps |
| `AtomicFlag` | `cpp_atomic_flags.cpp` | wait compares and falls asleep in one step, as a futex does |
| `PosixSemaphore` | `posix_semaphore_example.c` | `counter++` is a load and a store |
| `MessageQueue` | `mq_example.cpp` | `Again` ends, or kills, the program and starts it again; a read of the file may fail, once or for ever |
| `ShmSemaphores` | `shm_example.cpp` | `Again` as in `MessageQueue` |
| `UdpDice` | `udp_example.cpp` | a server of an earlier run may still be there |
| `TcpServer` | `tcp_server.cpp` and `tcp_client.cpp` | one server, ended by SIGINT at any step, and any clients, which may be killed or send nothing |
| `ReadWriteLock` | `read_write_lock.cpp` | `moving` is true while `emplace_back` runs |
| `SharedMemory` | `shared_mem_sp.cpp` | the region starts absent, empty or with an earlier run's pointer; a failed call ends both threads |
| `ConditionVariable` | `condition_var.cpp` | no predicate, so `wait` always falls asleep |
| `NamedPipe` | both named pipe programs | they use one FIFO name, so each run is of either; `mkfifo`, `fork` and `open` may fail |
| `AnonymousPipe` | both anonymous pipe programs | which ends each process has open; either may be killed at any step |
| `ProcessReaping` | `waitpid_example.cpp` | each `fork()` may fail, which the program does not look at |
| `Alarm` | `posix-alarm.cpp` | the signal between any two steps |
| `Latch` | `latch.cpp` | for any threads that count down and any that wait |
| `DataRace` | `data-race.cpp` | for any transfers; the history `exact` tells the overlaps |
| `AtomicCounter` | `cpp_increment_atomic.cpp` | also what `MutexCounter` implements |
| `MutexCounter` | `cpp_mutex.cpp` | load and store of the plain counter are two steps |
| `StopRequest` | `stop-source.cpp` and `stop-token.cpp` | with the destructors of the array of jthreads |
| `CoopCancellation` | `coop_cancellation.cpp` | the interruptible wait is its registration, its test and its sleep |
| `CoroutineEvent` | `shmem_coroutines.cpp` | the coroutine is resumed in the other thread; the region starts absent, empty or with an earlier run's pointer, and to print through that one may crash |
| `CoroutineSocket` | `coroutine_socket.cpp` | datagrams are numbered, and may be dropped or fail |
| `Generator` | the class `Generator` of that program | any sequence of legal calls on any objects, also those the program does not make |
| `FileGuard` | the class `file_guard` of `raii.cpp` | as `Generator` |
| `UniqueOwner` | what a movable owner promises | abstract: `Spec` for `Generator`; `LossySpec`, in which an owner can lose what it has, for `FileGuard` |
| `MCHandoffs` | a run of `SemaphoreHandoff`, `AtomicFlag` or `PosixSemaphore` | |
| `MCChapter7` | a run of `MessageQueue`, `ShmSemaphores`, `UdpDice` or `TcpServer` | |
| `MCChapter9` | a run of `ReadWriteLock`, `SharedMemory` or `ConditionVariable` | |
| `MCChapter10` | a run of `CoroutineEvent` or `CoroutineSocket`, or a use of `Generator` or `FileGuard` | |
| `MCProcesses` | a run of `NamedPipe`, `AnonymousPipe`, `ProcessReaping` or `Alarm` | |
| `MCThreads` | a run of `Latch`, `DataRace`, `MutexCounter`, `StopRequest` or `CoopCancellation` | |
| `MCHandoffsProofs`, `MCChapter7Proofs`, `MCChapter9Proofs`, `MCChapter10Proofs`, `MCProcessesProofs`, `MCThreadsProofs` | proofs about the programs of each `MC` module | a part for each program |

The programs do not interact, so a behaviour of one of the six `MC` modules picks
one of them at the start and is a run of that one; the variables of the others do
not change. The properties of such a module say for each program what its own
module says of it. What a program's module assumes of its constants is in these
cases a definition (`Bounds`, `QueueBounds`, `ClientsBounds`, `Covered`, `NoWrap`,
`Distinct`, ...), and the `MC` module assumes them all.

## The runs

Each configuration has the name of its run, and those of the `MC` modules the name
of the module: `MCChapter9.cfg` is the run Chapter9. All of them finish in seconds.

| run | instance | why it is enough |
|---|---|---|
| TicketQueue | 2 producers, 2 consumers, 2 turns each, tickets 0..3 | the program draws 200 tickets from a `size_t` and never wraps; the class has no such bound, and as many tickets as threads is the tightest case `WidthAssumption` allows. 8 are drawn, so states lie on both sides of a wrap; the loops interact through the vector alone, which a consumer empties every turn |
| Barrier | the 4 rooms of the program | the real instance but for the width of `timer` |
| Handoffs | binary semaphores: 16 turns, a word of 2 bits | the counter stays at 0 and 1; the limit only repeats the turn |
| | atomic flag: 6 turns, a word of 3 bits | a thread is at most one turn ahead |
| | POSIX semaphore: limit 6 | both threads lose and reset counts in all combinations of their two loads |
| Chapter7 | queue: 3 chunks, room for 2 | the file is larger than the queue, so the writer blocks |
| | dice: at most 2 throws, answers 0, 1 and 3 | below, at and above the prompt's range |
| | TCP: 3 clients, backlog 1 | one is served, one waits, one is beyond the backlog |
| | 3 runs of each but TCP | what the first leaves is used by the second, and makes up for a loss in the third |
| UdpDicePrompt | as in Chapter7, 1 run | |
| Chapter9 | 5 readers and 2 writers; the two threads of the other programs | the real instances, and all that an earlier run can leave in the region |
| Processes | 3 runs, each of either named pipe program; the real instances of the others | two children left behind can meet a third run |
| Threads | latch: 2 threads that count down, 2 that wait | the program has one of each |
| | transfers of 10, 20 and 40 from an account of 100 | the program has two; each sum tells which of them it is of |
| | mutex: 3 turns for each thread, a word of 8 values | as in the program, both together do not reach the end of the word |
| | 3 workers to stop; a worker and a stopper | the real instances |
| LatchComment | the two threads of `latch.cpp` | |
| Chapter10 | 4 rounds of each generator | enough for several polls without a datagram, and for several datagrams at once |
| | 3 objects and 2 frames; 3 guards and 2 descriptors | a move between two, with a third that holds what neither may touch |

Two runs expect a violation, and are findings in `PROJECT.json`. UdpDicePrompt: the
check of line 105 of `udp_example.cpp` has `and` where it needs `or`, so no number
is refused, whatever the prompt says. LatchComment: a comment of `latch.cpp` says
that main() waits for all threads to finish, but the latch tells it only that they
have arrived.

What some of the passing runs show is not what the program's author would expect,
but contradicts nothing that is written in the repository:

* the consumer of `cpp_sem_example.cpp` waits for a value that never comes, so
  that program never ends (`ConsumerNeverReturns`);
* the semaphore of `posix_semaphore_example.c` never blocks anybody
  (`NeverBlocks`, a conjunct of `Permits`); it is `full_flag` that keeps the threads apart (`OneWorks`);
* in `cpp_atomic_flags.cpp` a decrement can come before the increment of its turn
  and wrap the counter (`Swing` allows it, and no more than that);
* a writer of `mq_example.cpp` that is first leaves the reader waiting for ever, and
  a UDP request that is sent before the server has its port is lost for good
  (`ReaderLeftWaiting` and `LostForGood`, which make up `LeftWaiting`);
* `shm_example.cpp` never removes its semaphores, and each run leaves one of them
  higher (`NotCleanedUp`, a part of `HandedOver`);
* when `test.dat` can be opened and not read, as a directory can, `mq_example.cpp`
  tries again for ever (`Delivery`, a part of Chapter7's `Completes`, promises nothing
  if reads fail again and again);
* a client of `tcp_server.cpp` that connects and sends nothing holds up all the others
  for as long as it lives (`EveryoneReturns`, a part of `Completes`, promises that
  nothing else does);
* `cpp_and_named_pipe.cpp` removes its FIFO, also one that an earlier run left, unless
  its own `fork()` fails (`NothingLeft`, a conjunct of `PipesBalanced`);
* `condition_var.cpp` ends when its first thread is asleep before the notification
  comes (`WokenInTime`, a part of Chapter9's `Completes`), and otherwise may not;
* a notification of `shmem_coroutines.cpp` that comes before the coroutine is
  suspended is lost, and the coroutine is never resumed (`WaiterResumed`, a part of
  `Returns`); one whose `mmap()` fails resumes it all the same (`ResumedSafely`
  allows it to print what it finds then, and only then: a pointer that a killed run
  left, which may end the program);
* an assignment to a `file_guard` that has a file leaves that file open for good,
  and so does one to itself; nothing else does (`LostByAssignment`). `Generator`,
  which is written in the same way, releases what it had (`ImplementsUniqueOwner`);
* in `data-race.cpp` money is lost exactly when two transfers overlap: no two
  overlaps make up for each other (`OverlapLoses`);
* `waitpid_example.cpp` may say something of a child that it never had, but what
  it says of one that it had is right (`ReportsRight`).

A type invariant (`TypeOK`) is checked as a conjunct of an invariant of the run, or
proved as a conjunct of the inductive invariant. Modules whose variables only range
over a few names go without. An inductive invariant has no run of its own: proved for
every value of the constants, it leaves TLC nothing to add.

Deadlock is checked in Barrier, which takes a stuttering step once main() has
returned. The other programs end, or can be left waiting as described above, and
main() of `cpp_sem_example.cpp` always is; there the liveness properties say what
must come to an end.

### Fairness

Weak fairness for each thread or process, as one disjunction of its actions: the
scheduler runs whatever can run. Weak is enough everywhere, because nothing that
a thread waits for is taken away again by somebody who does not let go of it: in
`TicketLock` nobody can overtake, a thread of `MutexCounter` can be kept from the
mutex only for the other's last turns, and the other programs have one thread or
process at each end of an object. Signals of a timer that was set do come. Kills,
interruptions, restarts, lost datagrams and spurious wakeups have no fairness:
nothing may depend on them. Nobody has to use a class: `Generator` and `FileGuard`
have none either. In the `MC` modules each condition is that of the program's
module, for the steps of the program that runs. In `SharedMemory` spurious wakeups
must also come to an end: each of them takes the mutex, which could keep the producer
from it for ever. A client of `TcpServer` may
be any program, so that it sends its request has no fairness, only that it goes on
when it has the answer. `EveryoneReturns` is therefore about those that have sent one,
and on the condition that the server does not wait for a silent one for ever
(`HeldUp`). The `Completes` of UdpDice is on the condition that
the server had its port before the user answered. A `read()`
of `MessageQueue` that fails need not work when it is tried again: the steps into and
out of `failing` have no fairness, and `Delivery` excepts a writer that comes there
again and again.

## The proofs

A theorem is about the `Spec` that the run checks: that of `Barrier` and of
`TicketQueue`, and for the others that of their `MC` module. It follows from the
named assumptions on the constants alone, which TLC evaluates in each run. The
proofs have one shape. An inductive invariant of a program holds at the start and
is kept by each of its steps, a lemma for each; a step of another program leaves
all of its variables alone; the property follows. What makes each invariant
inductive is what follows here.

**The ticket lock** (`TicketLockProofs`) for a finite set of threads and at least as
many tickets as threads. Mutual exclusion is not inductive: two threads could hold
the same ticket. `IInv` adds that the waiting threads have distinct tickets, all
within `Cardinality(Waiting)` places of `serving`, and that `next` is that many
places from it; drawing keeps this since there is room for one more ticket
(`RoomForOne`), and unlocking since it moves everybody one place. For the
refinement `TicketLockIsFifo`, each of the tickets in use is held by a thread
(`EveryTicketHeld`, by the pigeonhole principle), so `Line` is a sequence of
threads, and drawing appends to it and unlocking takes its head.

The module goes on to the program, for any producers, consumers and turns.
`ProgramUsesLock` says that every step of `TicketQueue` is a step of the lock or
leaves it alone, so that exclusion and the order of service hold of the program.
`QueueInv` says where a thread that has the lock can be, and that a consumer about to
clear the vector has printed what is in it (`QueueClearsPrinted`). `NoElementIsLost`
is about a sum over the producers. It is counted as the cardinality of a set,
`AllEmplaced`, with an element for each `emplace_back`, so that a step adds one
element (`OneEmplaced`) and no induction over the producers is needed.

**Barrier** (`BarrierProofs`) for any rooms and any timer that can count to four. The
barrier misses as many arrivals as there are sensors that have not arrived in
this phase (`Arrived`), the rooms of those that have are used, and the stop
request comes with the fourth turn, when nobody is between the test of the token
and the barrier. The last arrival finds one missing, so everybody else has
arrived: a set as large as `Rooms` is `Rooms` (`Counting`). So the completion
function is alone (`AllArrived`). The stop comes with a new phase in which nobody has
arrived or will, so a sensor that is still at the barrier is free to leave it
(`FourReports`).

**Hand-offs** (`MCHandoffsProofs`) for any limits and words. In `cpp_sem_example.cpp`
exactly one of the two semaphores and two threads has the turn, and the loop
counters and the resource depend on whose it is. In `cpp_atomic_flags.cpp` the flag
tells how often each thread has set it, and the resource is the difference of what
has been added and subtracted, modulo the word; `FlagSwing` follows by arithmetic.
In `posix_semaphore_example.c` the permits are counted (`PermitCount`), and the slot is
described by `full_flag` and by whether its owner has just stored. The racy counter
passes the limit by one for each loop that has ended, however it is set back, which
bounds it. Both resources implement `OneSlot`.

**Chapter 7** (`MCChapter7Proofs`) for any number of runs and any remains of earlier ones.

* Queue (`MqInv`): what was received and what is queued is what was left and what was
  sent. A message that moves from the head of one sequence to the end of another keeps
  its place in both together (`Moved`, `Extended`). What was sent is an initial part of
  the file (`SentSoFar`), and the reader has not received past an empty message
  (`ReadSoFar`); in a clean run the two leave one possibility (`MqRunIsClean`).
* Shared memory (`ShmInv`): the counts of the semaphores are those found at the start
  and one for each place where a post is not yet taken (`ProdCount`, `ConsCount`). With
  none found, the child passes `cons` only after this run's parent has written.
* Dice (`UdpInv`): no datagram is from a run that has not begun, and the port, the
  servers and the client's socket do not both have one of the present run. The sets
  that `InFlight` counts are therefore empty or singletons. `LostDatagramStays` is
  the property inside `LeftWaiting`, and `ReaderIsDeserted` the safety half of the other.
* TCP (`TcpInv`): a client that waits without an answer is in the backlog or served.

**Chapter 9** (`MCChapter9Proofs`). For any readers and writers, `BooksInv` keeps apart who
has the shared mutex and in which way (`LockInv`) from what is in the vector
(`VectorInv`): the first three books and, once each, those of the writers that have
added theirs, by counting (`CountingAdded`). A writer in `emplace_back` excludes every
reader, so a reader's view is the vector. `MessageInv` says where the threads of
`shared_mem_sp.cpp` can be only when the region is this run's.

**Chapter 10** (`MCChapter10Proofs`). For any objects and frames, guards and descriptors,
what an object holds nobody else holds, and the frames in use are those held, or
the descriptors held are open. The refinements map each resource to the object that
holds it: `FrameOwners` and `GuardFacts` take the `CHOOSE` out of the mapping, and each
call is one step of `UniqueOwner`. `OnlyAssignmentLoses` is the action property of
`FileGuard`. `EventInv` ties the places of the two threads to the coroutine and the
region. `SocketInv` numbers the datagrams: those at the socket follow the one in the
buffer without a gap, for any number of rounds. `MissedNotificationIsLost` is the
safety half of `WaiterResumed`.

**Processes** (`MCProcessesProofs`). `PipeInv` says which ends each process has open at each
place, and `ReapInv` that `status` is that of the child just reaped. `NamedInv` is about
any number of runs over one FIFO. Only the parent of the present run can be reading;
`Served` says, for each FIFO there has been, that a parent that reads has one message or
one child about to reply, never both, and a pipe without a reader has neither. A parent
has ended or failed before the next run starts (`RunsInv`). A child whose parent's
`fork()` failed was never there, so nobody is left to write to that FIFO.

**Threads** (`MCThreadsProofs`), for any threads, turns, workers and transfers.

* Mutex: a thread about to store has loaded the present value, so that the store is the
  increment of `AtomicCounter` (`StoreEffect`).
* Latch (`ArrivalInv`): the count is the number of threads that have not arrived.
* Stop tokens (`StopInv`): all workers after the one that is joined have returned.
  `StopAskedBeforeJoin` is a conjunct of the run's `Completes`.
* Cancellation (`CoopInv`): who is asleep, or about to be with the request not made, has
  its callback registered.
* Accounts (`RaceInv`): for each account there is a set of transfers that it shows, and
  for each thread between load and store the set that it saw. `Ledger` relates these to
  who has stored: while no two overlapped the sets are all that was stored, and from the
  first overlap on one transfer is, or will be, missing for good. A sum of amounts is
  the number of their units (`Sum`), for the same reason as in `NoElementIsLost`.

Only model-checked are the liveness properties (`Termination`, `Completes`, `Returns`,
`AllConsumed`, `FlagLoopsEnd`, `SemaphoreLoopsEnd`, and `LeftWaiting` as a whole): what
follows from fairness needs `ENABLED`, which is beyond the prover. The two runs that
expect a violation show a counterexample and have no theorem.

The proofs have changed the form of a few definitions, and not what TLC checks. TLC and
the prover read `SUBSET Transfers \ {{}}` in `OverlapLoses` in different ways, so it has
parentheses; the sums of `NothingLost` and `OverlapLoses` and the count `InFlight` became
cardinalities of sets.

## Not modelled

The contents of messages, the values of dice and temperatures, and everything
printed. Memory order weaker than sequential consistency: the acquire and release
of the ticket lock suffice for the lock itself, and no other program uses any.
Failures of calls that only fail for lack of resources (`fork`, `socket`, `mmap`)
and end the program at once; those of `shared_mem_sp.cpp`, `shmem_coroutines.cpp` and
the programs of `MCProcesses`, which go on or leave something behind, are modelled.
In `mq_example.cpp` the reader's `mq_open`, and then `mq_receive` and `mq_send`, fail
only for lack of resources or permission, or when another program has made a queue of
that name with other attributes; that is left out. Writes one past the end of a buffer
(`mq_example.cpp:38`, `udp_example.cpp:65`) and views of strings that are gone (`udp_example.cpp:73`,
`tcp_server.cpp:86`): what they do is up to the compiler, and they are kept in the
list of hazards. The components marked not modelled in the inventory: what is left
of the repository has one thread and one order of steps, or one call of a library,
and a model of it could only repeat its lines.

## Plan

The core came first: the programs in which several threads or processes share
state. Then the smaller ones, several to a run, and the two classes that own a
resource; then the theorems about all of them. Every program in which two orders of
steps can be told apart has a module, and every safety property a theorem. What is
left:

1. The safety halves of further liveness properties, as `MissedNotificationIsLost` is one
   of `Returns`: that in every state somebody can take a step until the program has
   ended, with the guards written out, so that neither fairness nor `ENABLED` is needed.
2. `Mean` (`Chapter 4/mean_value.cpp`), a pure algorithm, as an operator against its
   definition. It has no state, so it could at most fill a gap.
