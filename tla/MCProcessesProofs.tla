--------------------------- MODULE MCProcessesProofs ---------------------------
(***************************************************************************)
(* Proofs about the programs of MCProcesses.  A run of MCProcesses is a    *)
(* run of one of its programs, so each part proves what holds of the steps *)
(* of one program and ends with what holds of every run.                   *)
(***************************************************************************)
EXTENDS MCProcesses, Sequences, FiniteSetTheorems, TLAPS

-------------------------------------------------------------------------------
(* The anonymous pipes of Chapter 3 *)

\* What the two processes have open and have done, where they are: in the first
\* program the message is written before its parent returns, and not read before.
PipeInv ==
  /\ kind \in {"reader", "sigpipe"} /\ got \in {"nothing", "message", "eof"}
  /\ full \in BOOLEAN
  /\ ends \in [{"parent", "child"} -> SUBSET Anonymous!Both]
  /\ pipe_parent \in {"fork", "sigaction", "close", "write"} \cup Anonymous!Ended
  /\ pipe_child \in {"none", "close_write", "read", "close_read", "returned", "killed"}
  /\ pipe_parent \in {"fork", "sigaction", "close", "write"} => "write_end" \in ends["parent"]
  /\ pipe_child \in {"close_write", "read"} => "read_end" \in ends["child"]
  /\ pipe_parent = "fork" => pipe_child = "none"
  /\ kind = "reader" =>
       /\ pipe_parent # "sigaction" /\ pipe_child # "close_read"
       /\ pipe_child = "none" <=> pipe_parent \in {"fork", "failed"}
       /\ pipe_parent \in {"fork", "close", "write"} => pipe_child # "returned" /\ ~full
       /\ pipe_parent = "returned" /\ pipe_child \in {"close_write", "read"} => full
  /\ kind = "sigpipe" => pipe_child # "read" /\ pipe_parent # "SIGPIPE"
  /\ Anonymous!LostWithProcess

LEMMA PipeStepHolds ==
  ASSUME PipeInv, Anonymous!Next
  PROVE  PipeInv'
<1> USE DEF PipeInv, Anonymous!LostWithProcess, Anonymous!ParentGo, Anonymous!ChildGo,
            Anonymous!Left, Anonymous!Both, Anonymous!Ended
<1>1. CASE Anonymous!Fork
  BY <1>1 DEF Anonymous!Fork, Anonymous!AfterFork
<1>2. CASE Anonymous!ForkFails
  BY <1>2 DEF Anonymous!ForkFails
<1>3. CASE Anonymous!Sigaction
  BY <1>3 DEF Anonymous!Sigaction
<1>4. CASE Anonymous!CloseRead
  BY <1>4 DEF Anonymous!CloseRead
<1>5. CASE Anonymous!Write
  <2>1. CASE "read_end" \in ends["child"]
    BY <1>5, <2>1 DEF Anonymous!Write, Anonymous!NoReader
  <2>2. CASE "read_end" \notin ends["child"]
    BY <1>5, <2>2 DEF Anonymous!Write, Anonymous!NoReader
  <2>3. QED
    BY <2>1, <2>2
<1>6. CASE Anonymous!CloseWrite
  BY <1>6 DEF Anonymous!CloseWrite, Anonymous!Closed
<1>7. CASE Anonymous!CloseReadToo
  BY <1>7 DEF Anonymous!CloseReadToo
<1>8. CASE Anonymous!Read
  <2>1. CASE full
    BY <1>8, <2>1 DEF Anonymous!Read
  <2>2. CASE ~full
    <3>1. "write_end" \notin ends["parent"]
      BY <1>8, <2>2 DEF Anonymous!Read
    <3>2. pipe_parent = "killed"
      BY <1>8, <2>2, <3>1 DEF Anonymous!Read
    <3>3. QED
      BY <1>8, <2>2, <3>2 DEF Anonymous!Read
  <2>3. QED
    BY <2>1, <2>2
<1>9. CASE Anonymous!Kill
  <2>1. CASE pipe_parent \notin Anonymous!Ended \cup {"fork"} /\ Anonymous!ParentGo(pipe_parent, "killed", {})
    BY <1>9, <2>1 DEF Anonymous!Kill
  <2>2. CASE pipe_child \notin Anonymous!Ended \cup {"none"} /\ Anonymous!ChildGo(pipe_child, "killed", {})
    BY <1>9, <2>2 DEF Anonymous!Kill
  <2>3. QED
    BY <1>9, <2>1, <2>2 DEF Anonymous!Kill
<1>10. QED
  BY <1>1, <1>2, <1>3, <1>4, <1>5, <1>6, <1>7, <1>8, <1>9
     DEF Anonymous!Next, Anonymous!Parent, Anonymous!Child

\* SIGPIPE ends a parent, and an end of file a child, only when the other was killed,
\* and without that the message arrives (anonymous_pipe_example.cpp lines 24-36,
\* anonymous_pipe_sigpipe_example.c lines 26-37), whenever that happens.
THEOREM MessageLostWithProcess == Spec => []LostWithProcess
<1>1. Init => PipeInv
  BY DEF Init, Anonymous!Init, PipeInv, Anonymous!LostWithProcess, Anonymous!Both,
         Anonymous!Ended
<1>2. PipeInv /\ [Next]_vars => PipeInv'
  <2>1. ASSUME PipeInv, UNCHANGED anonymousVars PROVE PipeInv'
    BY <2>1 DEF anonymousVars, PipeInv, Anonymous!LostWithProcess
  <2>2. [Next]_vars => Anonymous!Next \/ UNCHANGED anonymousVars
    BY DEF Next, vars, NamedStep, AnonymousStep, ReapingStep, TimerStep
  <2>3. QED
    BY <2>1, <2>2, PipeStepHolds
<1>3. PipeInv => LostWithProcess
  BY DEF PipeInv, LostWithProcess
<1>4. QED
  BY <1>1, <1>2, <1>3, PTL DEF Spec
-------------------------------------------------------------------------------
(* The children of waitpid_example.cpp *)

\* What has been forked and reaped when the parent is where it is; what was said of
\* a child that there was is about one that has been reaped.
ReapInv ==
  /\ parent \in ({"fork", "wait"} \X {1, 2}) \cup {<<"done", 0>>}
  /\ child \in [Reaping!Children -> {"none", "running", "zombie", "reaped"}]
  /\ parent \in {<<"fork", 1>>, <<"fork", 2>>} => child[2] = "none" /\ said = {}
  /\ parent = <<"fork", 1>> => child[1] = "none"
  /\ parent \in {<<"fork", 1>>, <<"fork", 2>>, <<"wait", 1>>} =>
       said = {} /\ \A n \in Reaping!Children : child[n] # "reaped"
  /\ parent = <<"wait", 2>> =>
       /\ child[1] \in {"none", "reaped"}
       /\ child[1] = "none" => child[2] \in {"none", "reaped"}
       /\ child[2] = "reaped" => status = ended[2]
  /\ parent = <<"done", 0>> => \A n \in Reaping!Children : child[n] \in {"none", "reaped"}
  /\ DOMAIN ended = Reaping!Children
  /\ \A line \in said : /\ line[1] \in Reaping!Children
                        /\ child[line[1]] # "none" =>
                             child[line[1]] = "reaped" /\ line[2] = ended[line[1]]

LEMMA ReapStepHolds ==
  ASSUME ReapInv, NEW n \in Reaping!Children,
         Reaping!Fork(n) \/ Reaping!Reap(n) \/ Reaping!NoChild(n) \/ Reaping!End(n)
  PROVE  ReapInv'
<1> USE DEF ReapInv, Reaping!Children, Reaping!Then
<1>1. CASE Reaping!Fork(n)
  BY <1>1 DEF Reaping!Fork
<1>2. CASE Reaping!End(n)
  BY <1>2 DEF Reaping!End
<1>3. CASE Reaping!Reap(n)
  <2>1. PICK c \in Reaping!Awaited(n) :
          /\ child[c] = "zombie" /\ child' = [child EXCEPT ![c] = "reaped"]
          /\ status' = ended[c]
    BY <1>3 DEF Reaping!Reap
  <2>2. c \in Reaping!Children /\ (child[n] # "none" => c = n)
    BY <2>1 DEF Reaping!Awaited
  <2>3. /\ parent = <<"wait", n>> /\ parent' = Reaping!Then("wait", n)
        /\ said' \in {said, said \cup {<<n, status'>>}} /\ ended' = ended
    BY <1>3 DEF Reaping!Reap, Reaping!Says
  <2>4. QED
    BY <2>1, <2>2, <2>3
<1>4. CASE Reaping!NoChild(n)
  <2>1. /\ parent = <<"wait", n>> /\ parent' = Reaping!Then("wait", n)
        /\ said' \in {said, said \cup {<<n, status>>}}
        /\ UNCHANGED <<child, ended, status>>
        /\ \A c \in Reaping!Awaited(n) : child[c] \in {"none", "reaped"}
    BY <1>4 DEF Reaping!NoChild, Reaping!Says
  <2>2. QED
    BY <2>1 DEF Reaping!Awaited
<1>5. QED
  BY <1>1, <1>2, <1>3, <1>4

\* What the parent says of a child that there was is how that child ended, also after
\* a fork() that failed, and it leaves no child behind (waitpid_example.cpp lines 8-29).
THEOREM ParentReportsRight == Spec => []ReportsRight
<1>1. Init => ReapInv
  BY DEF Init, Reaping!Init, ReapInv, Reaping!Children
<1>2. ReapInv /\ [Next]_vars => ReapInv'
  <2>1. ASSUME ReapInv, UNCHANGED reapingVars PROVE ReapInv'
    BY <2>1 DEF reapingVars, ReapInv
  <2>2. [Next]_vars => Reaping!Next \/ UNCHANGED reapingVars
    BY DEF Next, vars, NamedStep, AnonymousStep, ReapingStep, TimerStep
  <2>3. QED
    BY <2>1, <2>2, ReapStepHolds DEF Reaping!Next, Reaping!Parent
<1>3. ReapInv => ReportsRight
  BY DEF ReapInv, ReportsRight, Reaping!ReportsRight
<1>4. QED
  BY <1>1, <1>2, <1>3, PTL DEF Spec
-------------------------------------------------------------------------------
(* The named pipes of Chapter 3 *)

\* The children that are about to write to FIFO f, and whether the parent of the
\* last run waits for a message there
Pending(f) == {p \in Named!Processes : at[p] = "reply" /\ fd[p] = f}
Waits(f) == at[Named!Parent(run)] = "read" /\ fd[Named!Parent(run)] = f

\* Who waits has a message or somebody who writes one; otherwise there is neither.
Served(f) == \/ ~Waits(f) /\ pipe[f] = <<>> /\ Pending(f) = {}
             \/ Waits(f) /\ Len(pipe[f]) = 1 /\ Pending(f) = {}
             \/ Waits(f) /\ pipe[f] = <<>> /\ \E p \in Named!Processes : Pending(f) = {p}

\* The runs come one after the other, but children can be left behind.
RunsInv ==
  /\ Named!TypeOK
  /\ \A r \in 1..Runs : /\ r < run => at[Named!Parent(r)] \in {"done", "failed"}
                        /\ r > run => at[Named!Parent(r)] = "unborn"
                        /\ at[Named!Parent(r)] \in {"unborn", "exists", "mkfifo", "fork", "failed"}
                             => at[Named!Child(r)] = "unborn"
                        /\ at[Named!Parent(r)] # "reply" /\ at[Named!Child(r)] # "write"

NamedInv == RunsInv /\ (\A f \in 1..Runs : Served(f)) /\ Named!NothingLeft

\* A step that leaves the messages alone, and no process where it counts.
LEMMA ServedStays ==
  ASSUME NEW f, Served(f), pipe'[f] = pipe[f], Pending(f)' = Pending(f), Waits(f)' = Waits(f)
  PROVE  Served(f)'
BY DEF Served

\* The next run is the first of whose processes there is one.
LEMMA AgainStep ==
  ASSUME RunsInv, Named!Again
  PROVE  RunsInv'
<1> DEFINE last == Named!Parent(run)
           new == Named!Parent(run + 1)
<1>1. run \in 1..Runs /\ run + 1 \in 1..Runs /\ Runs \in Nat
  BY BoundsAssumption DEF RunsInv, Named!TypeOK, Named!Again, Named!RunsBound
<1>2. /\ at[last] \in {"done", "failed"} /\ run' = run + 1
      /\ UNCHANGED <<pipe_program, fifo, pipe, fd>>
      /\ at' = [at EXCEPT ![new] = Named!First(run + 1)]
  BY DEF Named!Again, Named!Ended, Named!kernel
<1>3. new \in Named!Processes /\ at \in [Named!Processes -> Named!Places]
  BY <1>1 DEF RunsInv, Named!TypeOK, Named!Parent, Named!Processes
<1>4. at[new] = "unborn" /\ at[Named!Child(run + 1)] = "unborn"
  BY <1>1 DEF RunsInv
<1>5. Named!First(run + 1) \in {"exists", "mkfifo"}
  BY DEF Named!First
<1>6. \A p \in Named!Processes : at'[p] = IF p = new THEN Named!First(run + 1) ELSE at[p]
  BY <1>2, <1>3
<1>7. Named!TypeOK'
  <2>1. at' \in [Named!Processes -> Named!Places]
    BY <1>2, <1>3, <1>5 DEF Named!Places
  <2>2. \A p \in Named!Processes :
          fd'[p] # 0 <=> at'[p] \in {"write", "read", "reply", "close"}
    BY <1>2, <1>3, <1>4, <1>5, <1>6 DEF RunsInv, Named!TypeOK
  <2>3. QED
    BY <1>1, <1>2, <2>1, <2>2 DEF RunsInv, Named!TypeOK
<1>8. ASSUME NEW r \in 1..Runs
      PROVE  /\ at'[Named!Parent(r)] = IF r = run + 1 THEN Named!First(run + 1)
                                       ELSE at[Named!Parent(r)]
             /\ at'[Named!Child(r)] = at[Named!Child(r)]
  BY <1>6 DEF Named!Parent, Named!Child, Named!Processes
<1>9. ASSUME NEW r \in 1..Runs
      PROVE  /\ r < run' => at'[Named!Parent(r)] \in {"done", "failed"}
             /\ r > run' => at'[Named!Parent(r)] = "unborn"
             /\ at'[Named!Parent(r)] \in {"unborn", "exists", "mkfifo", "fork", "failed"}
                  => at'[Named!Child(r)] = "unborn"
             /\ at'[Named!Parent(r)] # "reply" /\ at'[Named!Child(r)] # "write"
  <2>1. CASE r = run + 1
    BY <1>1, <1>2, <1>4, <1>5, <1>8, <2>1
  <2>2. CASE r # run + 1
    BY <1>1, <1>2, <1>8, <2>2 DEF RunsInv
  <2>3. QED
    BY <2>1, <2>2
<1>10. QED
  BY <1>7, <1>9 DEF RunsInv, Named!Parent, Named!Child

\* A process goes on, and its descriptor with it.
LEMMA PlaceStep ==
  ASSUME RunsInv, NEW p \in Named!Processes, at[p] \notin {"unborn", "done", "failed"},
         NEW to \in Named!Places \ {"unborn", "exists"}, at' = [at EXCEPT ![p] = to],
         to \in {"mkfifo", "fork", "failed"} => at[p] \in {"exists", "mkfifo", "fork"},
         to = "failed" => p[1] = "parent",
         to = "reply" => p[1] # "parent", to = "write" => p[1] # "child",
         NEW d \in 0..Runs, d # 0 <=> to \in {"write", "read", "reply", "close"},
         fd' = [fd EXCEPT ![p] = d], fifo' \in 0..Runs,
         pipe' \in [1..Runs -> Seq(Named!Processes)], UNCHANGED <<pipe_program, run>>
  PROVE  RunsInv'
<1>1. at \in [Named!Processes -> Named!Places] /\ fd \in [Named!Processes -> 0..Runs]
  BY DEF RunsInv, Named!TypeOK
<1>2. \A q \in Named!Processes : /\ at'[q] = IF q = p THEN to ELSE at[q]
                                 /\ fd'[q] = IF q = p THEN d ELSE fd[q]
  BY <1>1
<1>3. Named!TypeOK'
  <2>1. at' \in [Named!Processes -> Named!Places] /\ fd' \in [Named!Processes -> 0..Runs]
    BY <1>1
  <2>2. \A q \in Named!Processes :
          fd'[q] # 0 <=> at'[q] \in {"write", "read", "reply", "close"}
    BY <1>2 DEF RunsInv, Named!TypeOK
  <2>3. QED
    BY <2>1, <2>2 DEF RunsInv, Named!TypeOK
<1>4. ASSUME NEW r \in 1..Runs
      PROVE  /\ Named!Parent(r) \in Named!Processes /\ Named!Parent(r)[1] = "parent"
             /\ Named!Child(r) \in Named!Processes /\ Named!Child(r)[1] = "child"
             /\ Named!Parent(r) # Named!Child(r)
  BY DEF Named!Parent, Named!Child, Named!Processes
<1>5. ASSUME NEW r \in 1..Runs
      PROVE  /\ r < run => at'[Named!Parent(r)] \in {"done", "failed"}
             /\ r > run => at'[Named!Parent(r)] = "unborn"
             /\ at'[Named!Parent(r)] \in {"unborn", "exists", "mkfifo", "fork", "failed"}
                  => at'[Named!Child(r)] = "unborn"
             /\ at'[Named!Parent(r)] # "reply" /\ at'[Named!Child(r)] # "write"
  BY <1>2, <1>4 DEF RunsInv
<1>6. QED
  BY <1>3, <1>5 DEF RunsInv, Named!Parent, Named!Child

\* What is typed, by name
LEMMA Typed ==
  ASSUME RunsInv
  PROVE  /\ Runs \in Nat /\ fifo \in 0..Runs
         /\ pipe \in [1..Runs -> Seq(Named!Processes)] /\ <<>> \in Seq(Named!Processes)
         /\ at \in [Named!Processes -> Named!Places] /\ fd \in [Named!Processes -> 0..Runs]
         /\ \A p \in Named!Processes :
              fd[p] \in 1..Runs <=> at[p] \in {"write", "read", "reply", "close"}
         /\ run \in 1..Runs
BY BoundsAssumption DEF RunsInv, Named!TypeOK, Named!RunsBound

\* The parent and the child of a run are there at once.
LEMMA ForkStep ==
  ASSUME RunsInv, NEW r \in 1..Runs, Named!Fork(r)
  PROVE  RunsInv'
<1>1. PICK to \in {"is_fifo", "open"} :
        at' = [p \in Named!Processes |->
                 IF p \in {Named!Parent(r), Named!Child(r)} THEN to ELSE at[p]]
  BY DEF Named!Fork
<1>2. /\ at[Named!Parent(r)] = "fork" /\ at[Named!Child(r)] = "unborn"
      /\ UNCHANGED <<pipe_program, run, fifo, pipe, fd>>
  BY DEF Named!Fork, Named!kernel, RunsInv
<1>3. Named!TypeOK'
  <2>1. at' \in [Named!Processes -> Named!Places]
    BY <1>1, Typed DEF Named!Places
  <2>2. \A q \in Named!Processes :
          fd'[q] # 0 <=> at'[q] \in {"write", "read", "reply", "close"}
    BY <1>1, <1>2 DEF RunsInv, Named!TypeOK
  <2>3. QED
    BY <1>2, <2>1, <2>2 DEF RunsInv, Named!TypeOK
<1>4. ASSUME NEW s \in 1..Runs
      PROVE  /\ at'[Named!Parent(s)] = IF s = r THEN to ELSE at[Named!Parent(s)]
             /\ at'[Named!Child(s)] = IF s = r THEN to ELSE at[Named!Child(s)]
  BY <1>1 DEF Named!Parent, Named!Child, Named!Processes
<1>5. ASSUME NEW s \in 1..Runs
      PROVE  /\ s < run' => at'[Named!Parent(s)] \in {"done", "failed"}
             /\ s > run' => at'[Named!Parent(s)] = "unborn"
             /\ at'[Named!Parent(s)] \in {"unborn", "exists", "mkfifo", "fork", "failed"}
                  => at'[Named!Child(s)] = "unborn"
             /\ at'[Named!Parent(s)] # "reply" /\ at'[Named!Child(s)] # "write"
  BY <1>2, <1>4 DEF RunsInv
<1>6. QED
  BY <1>3, <1>5 DEF RunsInv, Named!Parent, Named!Child

LEMMA RunsStep ==
  ASSUME RunsInv, Named!Next
  PROVE  RunsInv'
<1> USE DEF Named!Go, Named!kernel
<1>1. ASSUME NEW r \in 1..Runs, Named!Exists(r) \/ Named!Mkfifo(r) \/ Named!ForkFails(r)
      PROVE  RunsInv'
  <2>1. /\ Named!Parent(r) \in Named!Processes /\ fd[Named!Parent(r)] = 0
        /\ Named!Parent(r)[1] = "parent"
    <3>1. Named!Parent(r) \in Named!Processes
      BY DEF Named!Parent, Named!Processes
    <3>2. at[Named!Parent(r)] \in {"exists", "mkfifo", "fork"}
      BY <1>1 DEF Named!Exists, Named!Mkfifo, Named!ForkFails
    <3>3. QED
      BY <3>1, <3>2 DEF RunsInv, Named!TypeOK, Named!Parent
  <2>2. PICK to \in {"mkfifo", "fork", "failed"} : at' = [at EXCEPT ![Named!Parent(r)] = to]
    BY <1>1 DEF Named!Exists, Named!Mkfifo, Named!ForkFails
  <2>3. /\ at[Named!Parent(r)] \in {"exists", "mkfifo", "fork"} /\ fd' = fd /\ pipe' = pipe
        /\ fifo' \in {fifo, 0, r} /\ UNCHANGED <<pipe_program, run>>
    BY <1>1 DEF Named!Exists, Named!Mkfifo, Named!ForkFails
  <2>4. fd' = [fd EXCEPT ![Named!Parent(r)] = 0] /\ fifo' \in 0..Runs
    BY <2>1, <2>3, Typed
  <2>5. to \in Named!Places \ {"unborn", "exists"}
    BY DEF Named!Places
  <2>6. pipe' \in [1..Runs -> Seq(Named!Processes)] /\ 0 \in 0..Runs
    BY <2>3, Typed
  <2>7. QED
    BY <2>1, <2>2, <2>3, <2>4, <2>5, <2>6, PlaceStep
<1>2. ASSUME NEW r \in 1..Runs, Named!Fork(r) PROVE RunsInv'
  BY <1>2, ForkStep
<1>3. ASSUME NEW p \in Named!Processes, Named!IsFifo(p) \/ Named!Remove(p) PROVE RunsInv'
  <2>1. PICK to \in {"open", "done"} : at' = [at EXCEPT ![p] = to]
    BY <1>3 DEF Named!IsFifo, Named!Remove
  <2>2. /\ at[p] \in {"is_fifo", "remove"} /\ fd' = fd /\ pipe' = pipe
        /\ fifo' \in {fifo, 0} /\ UNCHANGED <<pipe_program, run>>
    BY <1>3 DEF Named!IsFifo, Named!Remove, Named!NameAfter
  <2>3. fd' = [fd EXCEPT ![p] = 0] /\ fifo' \in 0..Runs
    BY <2>2, Typed
  <2>4. to \in Named!Places \ {"unborn", "exists"}
    BY DEF Named!Places
  <2>5. pipe' \in [1..Runs -> Seq(Named!Processes)] /\ 0 \in 0..Runs
    BY <2>2, Typed
  <2>6. QED
    BY <2>1, <2>2, <2>3, <2>4, <2>5, PlaceStep
<1>4. ASSUME NEW p \in Named!Processes, Named!Open(p) PROVE RunsInv'
  <2>1. PICK d \in {0, fifo} :
          /\ at' = [at EXCEPT ![p] = IF d = 0 THEN "remove"
                                     ELSE IF p[1] = "parent" THEN "write" ELSE "read"]
          /\ at[p] = "open" /\ fd' = [fd EXCEPT ![p] = d] /\ pipe' = pipe
          /\ UNCHANGED <<pipe_program, run, fifo>>
    BY <1>4 DEF Named!Open
  <2>2. PICK to \in {"remove", "write", "read"} :
          /\ at' = [at EXCEPT ![p] = to] /\ (d # 0 <=> to \in {"write", "read"})
          /\ to = "write" => p[1] = "parent"
    BY <2>1
  <2>3. to \in Named!Places \ {"unborn", "exists"}
    BY DEF Named!Places
  <2>4. pipe' \in [1..Runs -> Seq(Named!Processes)] /\ fifo' \in 0..Runs /\ d \in 0..Runs
    BY <2>1, Typed
  <2>5. d # 0 <=> to \in {"write", "read", "reply", "close"}
    BY <2>2
  <2>6. QED
    BY <2>1, <2>2, <2>3, <2>4, <2>5, PlaceStep
<1>5. ASSUME NEW p \in Named!Processes, Named!Write(p, "write", "read") \/ Named!Write(p, "reply", "close")
      PROVE  RunsInv'
  <2>1. PICK to \in {"read", "close"} : at' = [at EXCEPT ![p] = to]
    BY <1>5 DEF Named!Write
  <2>2. /\ at[p] \in {"write", "reply"} /\ fd' = fd /\ UNCHANGED <<pipe_program, run, fifo>>
        /\ pipe' = [pipe EXCEPT ![fd[p]] = Append(pipe[fd[p]], p)]
    BY <1>5 DEF Named!Write
  <2>3. fd[p] \in 1..Runs
    BY <2>2, Typed
  <2>4. Append(pipe[fd[p]], p) \in Seq(Named!Processes)
    BY <2>3, Typed
  <2>5. pipe' \in [1..Runs -> Seq(Named!Processes)] /\ fd' = [fd EXCEPT ![p] = fd[p]]
    BY <2>2, <2>3, <2>4, Typed
  <2>6. to \in Named!Places \ {"unborn", "exists"}
    BY DEF Named!Places
  <2>7. fifo' \in 0..Runs /\ fd[p] \in 0..Runs /\ fd[p] # 0
    BY <2>2, <2>3, Typed
  <2>8. QED
    BY <2>1, <2>2, <2>5, <2>6, <2>7, PlaceStep
<1>6. ASSUME NEW p \in Named!Processes, Named!Read(p) PROVE RunsInv'
  <2>1. PICK to \in {"close", "reply"} :
          at' = [at EXCEPT ![p] = to] /\ (to = "reply" => p[1] # "parent")
    BY <1>6 DEF Named!Read, Named!AfterRead
  <2>2. /\ at[p] = "read" /\ fd' = fd /\ UNCHANGED <<pipe_program, run, fifo>>
        /\ pipe' = [pipe EXCEPT ![fd[p]] = <<>>]
    BY <1>6 DEF Named!Read
  <2>3. fd[p] \in 1..Runs
    BY <2>2, Typed
  <2>4. pipe' \in [1..Runs -> Seq(Named!Processes)] /\ fd' = [fd EXCEPT ![p] = fd[p]]
    BY <2>2, Typed
  <2>5. to \in Named!Places \ {"unborn", "exists"}
    BY DEF Named!Places
  <2>6. fifo' \in 0..Runs /\ fd[p] \in 0..Runs /\ fd[p] # 0
    BY <2>2, <2>3, Typed
  <2>7. QED
    BY <2>1, <2>2, <2>4, <2>5, <2>6, PlaceStep
<1>7. ASSUME NEW p \in Named!Processes, Named!Close(p) PROVE RunsInv'
  <2>1. /\ at[p] = "close" /\ at' = [at EXCEPT ![p] = "remove"]
        /\ fd' = [fd EXCEPT ![p] = 0] /\ UNCHANGED <<pipe_program, run, fifo>>
        /\ pipe' = pipe \/ pipe' = [pipe EXCEPT ![fd[p]] = <<>>]
    BY <1>7 DEF Named!Close
  <2>2. pipe' \in [1..Runs -> Seq(Named!Processes)]
    BY <2>1, Typed
  <2>3. "remove" \in Named!Places \ {"unborn", "exists"}
    BY DEF Named!Places
  <2>4. fifo' \in 0..Runs /\ 0 \in 0..Runs
    BY <2>1, Typed
  <2>5. QED
    BY <2>1, <2>2, <2>3, <2>4, PlaceStep
<1>8. CASE Named!Again
  BY <1>8, AgainStep
<1>9. QED
  BY <1>1, <1>2, <1>3, <1>4, <1>5, <1>6, <1>7, <1>8
     DEF Named!Next, Named!Start, Named!Step

\* A process is the parent or the child of a run.
LEMMA ParentOrChild ==
  ASSUME NEW p \in Named!Processes
  PROVE  /\ p[2] \in 1..Runs
         /\ p[1] = "parent" => p = Named!Parent(p[2])
         /\ p[1] # "parent" => p = Named!Child(p[2]) /\ p[1] = "child"
BY DEF Named!Processes, Named!Parent, Named!Child

\* Of the parents only the last run's is between two calls.
LEMMA LastParent ==
  ASSUME RunsInv
  PROVE  /\ Named!Parent(run) \in Named!Processes
         /\ \A r \in 1..Runs : at[Named!Parent(r)] \notin {"unborn", "done", "failed"} => r = run
         /\ \A p \in Named!Processes :
              at[p] = "write" \/ (p[1] = "parent" /\ at[p] = "read") => p = Named!Parent(run)
         /\ at[Named!Parent(run)] # "reply"
<1>1. run \in 1..Runs /\ Runs \in Nat
  BY Typed
<1>2. Named!Parent(run) \in Named!Processes
  BY <1>1 DEF Named!Parent, Named!Processes
<1>3. \A r \in 1..Runs : at[Named!Parent(r)] \notin {"unborn", "done", "failed"} => r = run
  BY <1>1 DEF RunsInv
<1>4. ASSUME NEW p \in Named!Processes, at[p] = "write" \/ (p[1] = "parent" /\ at[p] = "read")
      PROVE  p = Named!Parent(run)
  <2>1. p[2] \in 1..Runs /\ (at[p] = "write" => at[Named!Child(p[2])] # "write")
    BY ParentOrChild DEF RunsInv
  <2>2. p = Named!Parent(p[2])
    BY <1>4, <2>1, ParentOrChild
  <2>3. QED
    BY <1>3, <1>4, <2>1, <2>2
<1>5. QED
  BY <1>1, <1>2, <1>3, <1>4 DEF RunsInv

LEMMA Writer ==
  ASSUME RunsInv, NEW p \in Named!Processes
  PROVE  /\ at[p] = "write" => p = Named!Parent(run)
         /\ at[p] = "reply" => p # Named!Parent(run)
BY LastParent

\* What one process does to those who wait and those who are about to write
LEMMA Moved ==
  ASSUME RunsInv, NEW p \in Named!Processes, NEW to, NEW d,
         at' = [at EXCEPT ![p] = to], fd' = [fd EXCEPT ![p] = d], run' = run, NEW f
  PROVE  /\ \A q : q \in Pending(f)' <=> IF q = p THEN to = "reply" /\ d = f ELSE q \in Pending(f)
         /\ Waits(f)' <=> IF p = Named!Parent(run) THEN to = "read" /\ d = f ELSE Waits(f)
<1>1. \A q \in Named!Processes : /\ at'[q] = IF q = p THEN to ELSE at[q]
                                 /\ fd'[q] = IF q = p THEN d ELSE fd[q]
  BY Typed
<1>2. Named!Parent(run)' = Named!Parent(run) /\ Named!Parent(run) \in Named!Processes
  BY LastParent DEF Named!Parent
<1>3. \A q : q \in Pending(f)' <=> IF q = p THEN to = "reply" /\ d = f ELSE q \in Pending(f)
  BY <1>1 DEF Pending
<1>4. QED
  BY <1>1, <1>2, <1>3 DEF Waits

\* A process that is neither at read() nor about to answer goes on to neither.
LEMMA Aside ==
  ASSUME RunsInv, NEW p \in Named!Processes, NEW to, NEW d, NEW f, Served(f),
         at[p] # "reply", p = Named!Parent(run) => at[p] # "read" /\ to # "read",
         to # "reply", at' = [at EXCEPT ![p] = to], fd' = [fd EXCEPT ![p] = d],
         run' = run, pipe'[f] = pipe[f]
  PROVE  Served(f)'
<1>1. Pending(f)' = Pending(f)
  BY Moved DEF Pending
<1>2. Waits(f)' <=> Waits(f)
  BY Moved DEF Waits
<1>3. QED
  BY <1>1, <1>2 DEF Served

\* The parent's message is there for whoever reads first; the child's comes
\* when it has taken the parent's.
LEMMA WriteStep ==
  ASSUME RunsInv, NEW f \in 1..Runs, Served(f), NEW p \in Named!Processes,
         Named!Write(p, "write", "read") \/ Named!Write(p, "reply", "close")
  PROVE  Served(f)'
<1>1. PICK to \in {"read", "close"} :
        /\ at[p] = IF to = "read" THEN "write" ELSE "reply"
        /\ at' = [at EXCEPT ![p] = to]
  BY DEF Named!Write, Named!Go
<1>2. fd' = fd /\ run' = run
  BY DEF Named!Write, Named!Go
<1>3. pipe' = [pipe EXCEPT ![fd[p]] = Append(pipe[fd[p]], p)]
  BY DEF Named!Write
<1>4. fd' = [fd EXCEPT ![p] = fd[p]]
  BY <1>2, Typed
<1>5. /\ Pending(f)' = Pending(f) \ {p}
      /\ Waits(f)' <=> IF p = Named!Parent(run) THEN to = "read" /\ fd[p] = f ELSE Waits(f)
  <2>1. \A q : q \in Pending(f)' <=> IF q = p THEN to = "reply" /\ fd[p] = f
                                    ELSE q \in Pending(f)
    BY <1>1, <1>2, <1>4, Moved
  <2>2. Pending(f)' = Pending(f) \ {p}
    BY <1>1, <2>1
  <2>3. Waits(f)' <=> IF p = Named!Parent(run) THEN to = "read" /\ fd[p] = f ELSE Waits(f)
    BY <1>1, <1>2, <1>4, Moved
  <2>4. QED
    BY <2>2, <2>3
<1>6. IF to = "read" THEN p = Named!Parent(run) ELSE p # Named!Parent(run)
  <2>1. to = "read" => at[p] = "write"
    BY <1>1
  <2>2. to # "read" => at[p] = "reply"
    BY <1>1
  <2>3. QED
    BY <2>1, <2>2, Writer
<1>7. CASE f # fd[p]
  <2>1. pipe'[f] = pipe[f]
    BY <1>3, <1>7, Typed
  <2>2. p \notin Pending(f) /\ (p = Named!Parent(run) => ~Waits(f))
    BY <1>7 DEF Pending, Waits
  <2>3. QED
    BY <1>5, <1>7, <2>1, <2>2 DEF Served
<1>8. CASE f = fd[p]
  <2>1. pipe'[f] = Append(pipe[f], p)
    BY <1>3, <1>8, Typed
  <2>2. pipe[f] = <<>> /\ Pending(f) \ {p} = {}
    <3>1. CASE to = "read"
      BY <1>1, <1>6, <3>1 DEF Served, Waits
    <3>2. CASE to = "close"
      BY <1>1, <1>8, <3>2 DEF Served, Pending
    <3>3. QED
      BY <3>1, <3>2
  <2>3. Len(pipe'[f]) = 1
    BY <2>1, <2>2
  <2>4. Waits(f)'
    <3>1. CASE to = "read"
      BY <1>5, <1>6, <1>8, <3>1
    <3>2. CASE to = "close"
      <4>1. p \in Pending(f)
        BY <1>1, <1>8, <3>2 DEF Pending
      <4>2. QED
        BY <1>5, <1>6, <3>2, <4>1 DEF Served
    <3>3. QED
      BY <3>1, <3>2
  <2>5. QED
    BY <1>5, <2>2, <2>3, <2>4 DEF Served
<1>9. QED
  BY <1>7, <1>8

\* Who reads the message is the parent that waited, or a child that answers.
LEMMA ReadStep ==
  ASSUME RunsInv, NEW f \in 1..Runs, Served(f), NEW p \in Named!Processes, Named!Read(p)
  PROVE  Served(f)'
<1>1. PICK to \in {"close", "reply"} :
        at' = [at EXCEPT ![p] = to] /\ (to = "reply" <=> p[1] # "parent")
  BY DEF Named!Read, Named!Go, Named!AfterRead
<1>2. at[p] = "read" /\ fd' = fd /\ run' = run
  BY DEF Named!Read, Named!Go
<1>3. pipe[fd[p]] # <<>> /\ pipe' = [pipe EXCEPT ![fd[p]] = <<>>]
  BY DEF Named!Read
<1>4. fd' = [fd EXCEPT ![p] = fd[p]]
  BY <1>2, Typed
<1>5. /\ \A q : q \in Pending(f)' <=> IF q = p THEN to = "reply" /\ fd[p] = f
                                    ELSE q \in Pending(f)
      /\ Waits(f)' <=> (p # Named!Parent(run) /\ Waits(f))
  <2>1. \A q : q \in Pending(f)' <=> IF q = p THEN to = "reply" /\ fd[p] = f
                                    ELSE q \in Pending(f)
    BY <1>1, <1>2, <1>4, Moved
  <2>2. Waits(f)' <=> IF p = Named!Parent(run) THEN to = "read" /\ fd[p] = f ELSE Waits(f)
    BY <1>1, <1>2, <1>4, Moved
  <2>3. QED
    BY <1>1, <2>1, <2>2
<1>6. p \notin Pending(f) /\ (p[1] = "parent" <=> p = Named!Parent(run))
  BY <1>2, LastParent DEF Pending, Named!Parent
<1>7. CASE f # fd[p]
  <2>1. pipe'[f] = pipe[f]
    BY <1>3, <1>7, Typed
  <2>2. p = Named!Parent(run) => ~Waits(f)
    BY <1>7 DEF Waits
  <2>3. QED
    BY <1>5, <1>6, <1>7, <2>1, <2>2 DEF Served
<1>8. CASE f = fd[p]
  <2>1. pipe'[f] = <<>>
    BY <1>3, <1>8, Typed
  <2>2. Waits(f) /\ Pending(f) = {}
    BY <1>3, <1>8 DEF Served
  <2>3. IF p = Named!Parent(run) THEN Pending(f)' = {} ELSE Pending(f)' = {p}
    BY <1>1, <1>5, <1>6, <1>8, <2>2
  <2>4. QED
    BY <1>5, <2>1, <2>2, <2>3 DEF Served
<1>9. QED
  BY <1>7, <1>8

\* With the last descriptor no message goes: nobody waits for one.
LEMMA CloseStep ==
  ASSUME RunsInv, NEW f \in 1..Runs, Served(f), NEW p \in Named!Processes, Named!Close(p)
  PROVE  Served(f)'
<1>1. /\ at[p] = "close" /\ at' = [at EXCEPT ![p] = "remove"]
      /\ fd' = [fd EXCEPT ![p] = 0] /\ run' = run
  BY DEF Named!Close, Named!Go
<1>2. pipe'[f] = pipe[f]
  <2>1. CASE \E q \in Named!Processes \ {p} : fd[q] = fd[p]
    BY <2>1 DEF Named!Close
  <2>2. CASE ~\E q \in Named!Processes \ {p} : fd[q] = fd[p]
    <3>1. pipe' = [pipe EXCEPT ![fd[p]] = <<>>]
      BY <2>2 DEF Named!Close
    <3>2. f = fd[p] => ~Waits(f)
      BY <1>1, <2>2, LastParent DEF Waits
    <3>3. f = fd[p] => pipe[f] = <<>>
      BY <3>2 DEF Served
    <3>4. QED
      BY <3>1, <3>3, Typed
  <2>3. QED
    BY <2>1, <2>2
<1>3. QED
  BY <1>1, <1>2, Aside

LEMMA ServedStep ==
  ASSUME RunsInv, NEW f \in 1..Runs, Served(f), Named!Next
  PROVE  Served(f)'
<1>1. ASSUME NEW r \in 1..Runs, Named!Exists(r) \/ Named!Mkfifo(r) \/ Named!ForkFails(r)
      PROVE  Served(f)'
  <2>1. PICK to \in {"mkfifo", "fork", "failed"} : at' = [at EXCEPT ![Named!Parent(r)] = to]
    BY <1>1 DEF Named!Exists, Named!Mkfifo, Named!ForkFails, Named!Go
  <2>2. /\ at[Named!Parent(r)] \in {"exists", "mkfifo", "fork"} /\ fd' = fd
        /\ pipe' = pipe /\ run' = run
    BY <1>1 DEF Named!Exists, Named!Mkfifo, Named!ForkFails, Named!Go, Named!kernel
  <2>3. Named!Parent(r) \in Named!Processes
    BY DEF Named!Parent, Named!Processes
  <2>4. fd' = [fd EXCEPT ![Named!Parent(r)] = fd[Named!Parent(r)]]
    BY <2>2, <2>3, Typed
  <2>5. QED
    BY <2>1, <2>2, <2>3, <2>4, Aside
<1>2. ASSUME NEW r \in 1..Runs, Named!Fork(r) PROVE Served(f)'
  <2>1. PICK to \in {"is_fifo", "open"} :
          at' = [p \in Named!Processes |->
                   IF p \in {Named!Parent(r), Named!Child(r)} THEN to ELSE at[p]]
    BY <1>2 DEF Named!Fork
  <2>2. /\ at[Named!Parent(r)] = "fork" /\ at[Named!Child(r)] = "unborn"
        /\ UNCHANGED <<run, pipe, fd>>
    BY <1>2 DEF Named!Fork, Named!kernel, RunsInv
  <2>3. Pending(f)' = Pending(f)
    BY <2>1, <2>2 DEF Pending
  <2>4. r = run /\ Named!Parent(run)' = Named!Parent(run) /\ Named!Parent(run) \in Named!Processes
    BY <2>2, LastParent DEF Named!Parent
  <2>5. ~Waits(f) /\ ~Waits(f)'
    BY <2>1, <2>2, <2>4 DEF Waits
  <2>6. QED
    BY <2>2, <2>3, <2>5 DEF Served
<1>3. ASSUME NEW p \in Named!Processes, Named!IsFifo(p) \/ Named!Remove(p) PROVE Served(f)'
  <2>1. PICK to \in {"open", "done"} : at' = [at EXCEPT ![p] = to]
    BY <1>3 DEF Named!IsFifo, Named!Remove, Named!Go
  <2>2. /\ at[p] \in {"is_fifo", "remove"} /\ fd' = fd /\ pipe' = pipe /\ run' = run
    BY <1>3 DEF Named!IsFifo, Named!Remove, Named!Go, Named!kernel
  <2>3. fd' = [fd EXCEPT ![p] = fd[p]]
    BY <2>2, Typed
  <2>4. QED
    BY <2>1, <2>2, <2>3, Aside
<1>4. ASSUME NEW p \in Named!Processes, Named!Open(p) PROVE Served(f)'
  <2>1. PICK d \in {0, fifo} :
          /\ at' = [at EXCEPT ![p] = IF d = 0 THEN "remove"
                                     ELSE IF p[1] = "parent" THEN "write" ELSE "read"]
          /\ at[p] = "open" /\ fd' = [fd EXCEPT ![p] = d] /\ pipe' = pipe /\ run' = run
    BY <1>4 DEF Named!Open, Named!Go
  <2>2. PICK to \in {"remove", "write", "read"} :
          at' = [at EXCEPT ![p] = to] /\ (to = "read" => p[1] # "parent")
    BY <2>1
  <2>3. p = Named!Parent(run) => to # "read"
    BY <2>2 DEF Named!Parent
  <2>4. QED
    BY <2>1, <2>2, <2>3, Aside
<1>5. ASSUME NEW p \in Named!Processes,
             Named!Write(p, "write", "read") \/ Named!Write(p, "reply", "close")
      PROVE  Served(f)'
  BY <1>5, WriteStep
<1>6. ASSUME NEW p \in Named!Processes, Named!Read(p) PROVE Served(f)'
  BY <1>6, ReadStep
<1>7. ASSUME NEW p \in Named!Processes, Named!Close(p) PROVE Served(f)'
  BY <1>7, CloseStep
<1>8. CASE Named!Again
  <2>1. /\ at[Named!Parent(run)] \in {"done", "failed"} /\ run' = run + 1
        /\ pipe' = pipe /\ fd' = fd
        /\ at' = [at EXCEPT ![Named!Parent(run + 1)] = Named!First(run + 1)]
    BY <1>8 DEF Named!Again, Named!Ended, Named!kernel
  <2>2. run + 1 \in 1..Runs
    BY <1>8, Typed DEF Named!Again
  <2>3. Named!Parent(run + 1) \in Named!Processes /\ at[Named!Parent(run + 1)] = "unborn"
    BY <2>2, Typed DEF RunsInv, Named!Parent, Named!Processes
  <2>4. Named!First(run + 1) \in {"exists", "mkfifo"}
    BY DEF Named!First
  <2>5. \A q \in Named!Processes :
          at'[q] = IF q = Named!Parent(run + 1) THEN Named!First(run + 1) ELSE at[q]
    BY <2>1, <2>3, Typed
  <2>6. Pending(f)' = Pending(f)
    BY <2>1, <2>3, <2>4, <2>5 DEF Pending
  <2>7. Named!Parent(run)' = Named!Parent(run + 1)
    BY <2>1 DEF Named!Parent
  <2>8. ~Waits(f) /\ ~Waits(f)'
    BY <2>1, <2>3, <2>4, <2>5, <2>7 DEF Waits
  <2>9. QED
    BY <2>1, <2>6, <2>8 DEF Served
<1>9. QED
  BY <1>1, <1>2, <1>3, <1>4, <1>5, <1>6, <1>7, <1>8
     DEF Named!Next, Named!Start, Named!Step

\* Who ends after its fork() takes the name away or finds it gone.
LEMMA NothingStep ==
  ASSUME RunsInv, Named!NothingLeft, Named!Next
  PROVE  Named!NothingLeft'
<1> DEFINE last == Named!Parent(run)
<1>1. SUFFICES ASSUME at'[last'] = "done", pipe_program'[run'] = "C++" PROVE fifo' = 0
  BY DEF Named!NothingLeft
<1>2. last \in Named!Processes /\ run \in 1..Runs
  BY LastParent, Typed
<1>3. CASE Named!Again
  <2>1. run' = run + 1 /\ at' = [at EXCEPT ![Named!Parent(run + 1)] = Named!First(run + 1)]
    BY <1>3 DEF Named!Again
  <2>2. run + 1 \in 1..Runs
    BY <1>3, Typed DEF Named!Again
  <2>3. Named!Parent(run + 1) \in Named!Processes
    BY <2>2 DEF Named!Parent, Named!Processes
  <2>4. last' = Named!Parent(run + 1)
    BY <2>1 DEF Named!Parent
  <2>5. at'[last'] = Named!First(run + 1)
    BY <2>1, <2>3, <2>4, Typed
  <2>6. QED
    BY <1>1, <2>5 DEF Named!First
<1>4. ASSUME NEW p \in Named!Processes, NEW to, at' = [at EXCEPT ![p] = to],
             to = "done" => fifo' = 0 \/ (p # last /\ fifo' \in {0, fifo}),
             to # "done" => p = last \/ fifo' = fifo, UNCHANGED <<pipe_program, run>>
      PROVE  fifo' = 0
  <2>1. last' = last
    BY <1>4 DEF Named!Parent
  <2>2. CASE p = last
    <3>1. to = "done"
      BY <1>1, <1>2, <1>4, <2>1, <2>2, Typed
    <3>2. QED
      BY <1>4, <2>2, <3>1
  <2>3. CASE p # last
    <3>1. at[last] = "done" /\ pipe_program[run] = "C++"
      BY <1>1, <1>2, <1>4, <2>1, <2>3, Typed
    <3>2. fifo = 0
      BY <3>1 DEF Named!NothingLeft
    <3>3. QED
      BY <1>4, <2>3, <3>2
  <2>4. QED
    BY <2>2, <2>3
<1>5. ASSUME NEW r \in 1..Runs, Named!Exists(r) \/ Named!Mkfifo(r) \/ Named!ForkFails(r)
      PROVE  fifo' = 0
  <2>1. PICK to \in {"mkfifo", "fork", "failed"} : at' = [at EXCEPT ![Named!Parent(r)] = to]
    BY <1>5 DEF Named!Exists, Named!Mkfifo, Named!ForkFails, Named!Go
  <2>2. /\ at[Named!Parent(r)] \in {"exists", "mkfifo", "fork"}
        /\ UNCHANGED <<pipe_program, run>>
    BY <1>5 DEF Named!Exists, Named!Mkfifo, Named!ForkFails, Named!Go
  <2>3. Named!Parent(r) \in Named!Processes /\ Named!Parent(r) = last
    BY <2>2, LastParent DEF Named!Parent, Named!Processes
  <2>4. QED
    BY <1>4, <2>1, <2>2, <2>3
<1>6. ASSUME NEW r \in 1..Runs, Named!Fork(r) PROVE fifo' = 0
  <2>1. PICK to \in {"is_fifo", "open"} :
          at' = [p \in Named!Processes |->
                   IF p \in {Named!Parent(r), Named!Child(r)} THEN to ELSE at[p]]
    BY <1>6 DEF Named!Fork
  <2>2. last' = last /\ r = run
    BY <1>6, LastParent DEF Named!Fork, Named!Parent
  <2>3. QED
    BY <1>1, <1>2, <2>1, <2>2
<1>7. ASSUME NEW p \in Named!Processes, Named!Step(p) PROVE fifo' = 0
  <2>1. CASE Named!IsFifo(p)
    <3>1. PICK to \in {"open", "done"} :
            at' = [at EXCEPT ![p] = to] /\ (to = "done" => fifo = 0)
      BY <2>1 DEF Named!IsFifo, Named!Go
    <3>2. fifo' = fifo /\ UNCHANGED <<pipe_program, run>>
      BY <2>1 DEF Named!IsFifo, Named!Go, Named!kernel
    <3>3. QED
      BY <1>4, <3>1, <3>2
  <2>2. CASE Named!Remove(p)
    <3>1. /\ at' = [at EXCEPT ![p] = "done"] /\ UNCHANGED <<pipe_program, run>>
          /\ fifo' \in {0, fifo} /\ (pipe_program[p[2]] = "C++" => fifo' = 0)
      BY <2>2 DEF Named!Remove, Named!Go, Named!NameAfter
    <3>2. p = last => p[2] = run
      BY DEF Named!Parent
    <3>3. QED
      BY <1>1, <1>4, <3>1, <3>2
  <2>3. CASE Named!Open(p) \/ Named!Read(p) \/ Named!Close(p)
             \/ Named!Write(p, "write", "read") \/ Named!Write(p, "reply", "close")
    <3>1. PICK to \in {"write", "read", "close", "reply", "remove"} :
            at' = [at EXCEPT ![p] = to]
      BY <2>3
         DEF Named!Open, Named!Read, Named!Close, Named!Write, Named!Go, Named!AfterRead
    <3>2. fifo' = fifo /\ UNCHANGED <<pipe_program, run>>
      BY <2>3 DEF Named!Open, Named!Read, Named!Close, Named!Write, Named!Go
    <3>3. QED
      BY <1>4, <3>1, <3>2
  <2>4. QED
    BY <1>7, <2>1, <2>2, <2>3 DEF Named!Step
<1>8. QED
  BY <1>3, <1>5, <1>6, <1>7 DEF Named!Next, Named!Start

LEMMA NamedInit ==
  ASSUME Named!Init
  PROVE  NamedInv
<1>1. Runs \in Nat /\ 1 \in 1..Runs /\ run = 1
  BY BoundsAssumption DEF Named!RunsBound, Named!Init
<1>2. Named!Parent(1) \in Named!Processes
  BY <1>1 DEF Named!Parent, Named!Processes
<1>3. Named!First(1) \in {"exists", "mkfifo"}
  BY DEF Named!First
<1>4. \A p \in Named!Processes :
        /\ at[p] = (IF p = Named!Parent(1) THEN Named!First(1) ELSE "unborn")
        /\ fd[p] = 0
  BY DEF Named!Init
<1>5. Named!TypeOK
  <2>1. at \in [Named!Processes -> Named!Places] /\ fd \in [Named!Processes -> 0..Runs]
    BY <1>1, <1>3 DEF Named!Init, Named!Places
  <2>2. \A p \in Named!Processes :
          fd[p] # 0 <=> at[p] \in {"write", "read", "reply", "close"}
    BY <1>3, <1>4
  <2>3. pipe \in [1..Runs -> Seq(Named!Processes)]
    BY DEF Named!Init
  <2>4. QED
    BY <1>1, <2>1, <2>2, <2>3 DEF Named!TypeOK, Named!Init
<1>6. ASSUME NEW r \in 1..Runs
      PROVE  /\ at[Named!Parent(r)] = (IF r = 1 THEN Named!First(1) ELSE "unborn")
             /\ at[Named!Child(r)] = "unborn"
  BY <1>4 DEF Named!Parent, Named!Child, Named!Processes
<1>7. RunsInv
  BY <1>1, <1>3, <1>5, <1>6 DEF RunsInv, Named!Parent, Named!Child
<1>8. ASSUME NEW f \in 1..Runs PROVE Served(f)
  BY <1>1, <1>3, <1>4, <1>6 DEF Served, Pending, Waits, Named!Init
<1>9. QED
  BY <1>7, <1>8 DEF NamedInv, Named!NothingLeft, Named!Init

LEMMA NamedCounts == \A S : Named!Cardinality(S) = Cardinality(S)
BY DEF Named!Cardinality, Cardinality

\* Pending and Waits are what Balance counts.
LEMMA ServedCounts ==
  ASSUME NamedInv, NEW f \in 1..Runs
  PROVE  Len(pipe[f]) + Named!Cardinality(Named!At(f, {Named!Child(r) : r \in 1..Runs}, "reply"))
           = Named!Cardinality(Named!At(f, {Named!Parent(r) : r \in 1..Runs}, "read"))
<1> DEFINE writers == Named!At(f, {Named!Child(r) : r \in 1..Runs}, "reply")
           readers == Named!At(f, {Named!Parent(r) : r \in 1..Runs}, "read")
<1>1. RunsInv /\ Served(f) /\ run \in 1..Runs
  BY Typed DEF NamedInv
<1>2. writers = Pending(f)
  <2>1. ASSUME NEW p \in Pending(f) PROVE p \in writers
    <3>1. p \in Named!Processes /\ at[p] = "reply" /\ fd[p] = f
      BY DEF Pending
    <3>2. p[2] \in 1..Runs /\ at[Named!Parent(p[2])] # "reply"
      BY <1>1, <3>1, ParentOrChild DEF RunsInv
    <3>3. p = Named!Child(p[2])
      BY <3>1, <3>2, ParentOrChild
    <3>4. QED
      BY <3>1, <3>2, <3>3 DEF Named!At
  <2>2. \A r \in 1..Runs : Named!Child(r) \in Named!Processes
    BY DEF Named!Child, Named!Processes
  <2>3. QED
    BY <2>1, <2>2 DEF Named!At, Pending
<1>3. readers = IF Waits(f) THEN {Named!Parent(run)} ELSE {}
  BY <1>1, LastParent DEF Named!At, Waits
<1>4. Cardinality({}) = 0 /\ \A x : Cardinality({x}) = 1
  BY FS_EmptySet, FS_Singleton
<1>5. Cardinality(readers) = IF Waits(f) THEN 1 ELSE 0
  BY <1>3, <1>4
<1>6. Len(pipe[f]) + Cardinality(Pending(f)) = IF Waits(f) THEN 1 ELSE 0
  <2>1. ASSUME Pending(f) = {} PROVE Cardinality(Pending(f)) = 0
    BY <1>4, <2>1
  <2>2. ASSUME NEW p, Pending(f) = {p} PROVE Cardinality(Pending(f)) = 1
    BY <1>4, <2>2
  <2>3. pipe[f] = <<>> => Len(pipe[f]) = 0
    OBVIOUS
  <2>4. CASE ~Waits(f) /\ pipe[f] = <<>> /\ Pending(f) = {}
    BY <2>1, <2>3, <2>4
  <2>5. CASE Waits(f) /\ Len(pipe[f]) = 1 /\ Pending(f) = {}
    BY <2>1, <2>5
  <2>6. CASE Waits(f) /\ pipe[f] = <<>> /\ \E p \in Named!Processes : Pending(f) = {p}
    <3>1. PICK p \in Named!Processes : Pending(f) = {p}
      BY <2>6
    <3>2. Len(pipe[f]) = 0 /\ Cardinality(Pending(f)) = 1
      BY <2>2, <2>3, <2>6, <3>1
    <3>3. QED
      BY <2>6, <3>2
  <2>7. QED
    BY <1>1, <2>4, <2>5, <2>6 DEF Served
<1>7. QED
  BY <1>2, <1>5, <1>6, NamedCounts

\* For every parent that waits in read() there is a message, or a child that writes
\* one, and no message is left over, however many children earlier runs left behind;
\* when fork() worked the C++ program leaves no FIFO, also none of an earlier run
\* whose fork() failed (named_pipe_example.c lines 24-56, cpp_and_named_pipe.cpp
\* lines 34-81).
THEOREM EveryReaderIsServed == Spec => []PipesBalanced
<1>1. Init => NamedInv
  BY NamedInit DEF Init
<1>2. NamedInv /\ [Next]_vars => NamedInv'
  <2>1. ASSUME NamedInv, Named!Next PROVE NamedInv'
    <3>1. RunsInv' /\ Named!NothingLeft'
      BY <2>1, RunsStep, NothingStep DEF NamedInv
    <3>2. \A f \in 1..Runs : Served(f)'
      BY <2>1, ServedStep DEF NamedInv
    <3>3. QED
      BY <3>1, <3>2 DEF NamedInv
  <2>2. ASSUME NamedInv, UNCHANGED namedVars PROVE NamedInv'
    <3>1. UNCHANGED <<pipe_program, fifo, pipe, at, fd, run>>
      BY <2>2 DEF namedVars
    <3>2. RunsInv' /\ Named!NothingLeft'
      BY <2>2, <3>1
         DEF NamedInv, RunsInv, Named!NothingLeft, Named!TypeOK, Named!Parent, Named!Child
    <3>3. \A f \in 1..Runs : Served(f)'
      BY <2>2, <3>1 DEF NamedInv, Served, Pending, Waits, Named!Parent
    <3>4. QED
      BY <3>2, <3>3 DEF NamedInv
  <2>3. [Next]_vars => Named!Next \/ UNCHANGED namedVars
    BY DEF Next, vars, NamedStep, AnonymousStep, ReapingStep, TimerStep
  <2>4. QED
    BY <2>1, <2>2, <2>3
<1>3. NamedInv => PipesBalanced
  BY ServedCounts
     DEF NamedInv, RunsInv, PipesBalanced, Named!PipesBalanced, Named!Balance
<1>4. QED
  BY <1>1, <1>2, <1>3, PTL DEF Spec
===============================================================================
