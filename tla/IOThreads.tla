------------------------------ MODULE IOThreads ------------------------------
(***************************************************************************)
(* Clients, their buffers and the I/O threads (networking.c).  The main    *)
(* thread runs the event loop and executes all commands.  Before it sleeps *)
(* it hands the clients with something to read, and then those with        *)
(* replies to write, to the I/O threads, takes a share itself and waits    *)
(* until all threads are done.  The threads spin on their count of pending *)
(* clients; the main thread parks them by holding their mutexes when there *)
(* is little to write.  Clients are freed at once by a command of another  *)
(* client, or later, from a queue, by whoever finds their connection       *)
(* broken.                                                                 *)
(*                                                                         *)
(* A query buffer is the number of commands in it and an output buffer the *)
(* number of replies.  What a command does is chosen when it is executed.  *)
(***************************************************************************)
EXTENDS Integers, Sequences, FiniteSets, SequencesExt

CONSTANTS
  Clients,
  NoClient,      \* no client
  Threads,       \* io_threads_num: the main thread is 0
  PerThread,     \* pending writes per thread that make threads worthwhile
  MaxRequests,   \* commands the clients send
  MaxFull,       \* times a socket takes only a part of the replies
  MaxKills       \* CLIENT KILLs

ASSUME IOAssumption ==
  /\ NoClient \notin Clients
  /\ Threads \in Nat \ {0, 1} /\ PerThread \in Nat \ {0}
  /\ MaxRequests \in Nat /\ MaxFull \in Nat /\ MaxKills \in Nat

Workers == 1..(Threads - 1)

VARIABLES
  cli,       \* [client]: its flags and buffers
  pread,     \* server.clients_pending_read
  pwrite,    \* server.clients_pending_write
  toclose,   \* server.clients_to_close
  list,      \* [thread]: io_threads_list
  pending,   \* [worker]: io_threads_pending
  op,        \* io_threads_op
  mutex,     \* [worker]: who holds io_threads_mutex
  active,    \* server.io_threads_active
  main,      \* what the main thread does: pc, the client it executes commands
             \* of, whether its next command is parsed, and where to return to
  worker,    \* [worker]: what the thread does
  ready,     \* fired events of this turn of the event loop not handled yet
  left       \* how often the environment may still act

vars == <<cli, pread, pwrite, toclose, list, pending, op, mutex, active, main,
          worker, ready, left>>
queues == <<pread, pwrite, toclose>>
threads == <<list, pending, op, mutex, active, worker>>

\* A client as createClient makes it; a freed one has no fields that matter.
NewClient ==
  [open |-> TRUE, eof |-> FALSE, wire |-> 0, buf |-> 0, out |-> 0,
   handler |-> FALSE, pr |-> FALSE, pw |-> FALSE, pcmd |-> FALSE,
   asap |-> FALSE, after |-> FALSE]
FreedClient == [NewClient EXCEPT !.open = FALSE]

Init ==
  /\ cli = [c \in Clients |-> NewClient]
  /\ pread = <<>> /\ pwrite = <<>> /\ toclose = <<>>
  /\ list = [j \in 0..(Threads - 1) |-> <<>>]
  /\ pending = [j \in Workers |-> 0]
  /\ op = "read"
  /\ mutex = [j \in Workers |-> "main"]
  /\ active = FALSE
  /\ main = [pc |-> "poll", cur |-> NoClient, parsed |-> FALSE, ret |-> <<>>]
  /\ worker = [j \in Workers |-> "spin"]
  /\ ready = {}
  /\ left = [requests |-> MaxRequests, full |-> MaxFull, kills |-> MaxKills]

-----------------------------------------------------------------------------
(* The main thread's control: subroutines return to the head of main.ret.   *)

At(pc) == main.pc = pc

Goto(pc) == main' = [main EXCEPT !.pc = pc]

Call(pc, rets) == main' = [main EXCEPT !.pc = pc, !.ret = rets \o @]

Return == main' = [main EXCEPT !.pc = Head(main.ret), !.ret = Tail(@), !.cur = NoClient]

\* Execute the commands of c, the first of which may be parsed already.
RunCommandsOf(c, parsed) ==
  main' = [pc |-> "exec", cur |-> c, parsed |-> parsed, ret |-> <<main.pc>> \o main.ret]

\* The subsequence of q at the indices I, in their order.  (SelectSeq is defined by
\* recursion, which the proofs could not look into.)
Nth(I, n) == CHOOSE i \in I : Cardinality({x \in I : x < i}) = n - 1
Pick(q, I) == [n \in 1..Cardinality(I) |-> q[Nth(I, n)]]

Without(s, c) == Pick(s, {i \in DOMAIN s : s[i] # c})

-----------------------------------------------------------------------------
(* Operations on clients, as functions of the state s of the clients and    *)
(* the queues they are in.                                                  *)

Now == [cli |-> cli, pread |-> pread, pwrite |-> pwrite, toclose |-> toclose]

Is(s) ==
  /\ cli' = s.cli /\ pread' = s.pread /\ pwrite' = s.pwrite
  /\ toclose' = s.toclose

freeClientAsync(s, c) ==
  IF s.cli[c].asap THEN s
  ELSE [s EXCEPT !.cli[c].asap = TRUE, !.toclose = Append(@, c)]

\* Mutant of freeClient: the client stays in the queue of pending reads.
StaysInPendingRead(s, c) ==
  [s EXCEPT !.cli[c] = FreedClient,
            !.toclose = IF s.cli[c].asap THEN Without(@, c) ELSE @,
            !.pwrite = IF s.cli[c].pw THEN Without(@, c) ELSE @]

\* freeClient and unlinkClient: no queue refers to the client any more.
freeClient(s, c) ==
  [s EXCEPT !.cli[c] = FreedClient,
            !.toclose = IF s.cli[c].asap THEN Without(@, c) ELSE @,
            !.pwrite = IF s.cli[c].pw THEN Without(@, c) ELSE @,
            !.pread = IF s.cli[c].pr THEN Without(@, c) ELSE @]

\* addReply: prepareClientToWrite schedules the client unless it has replies.
addReply(s, c) ==
  IF s.cli[c].asap THEN s
  ELSE LET new == s.cli[c].out = 0 /\ ~s.cli[c].pw IN
       [s EXCEPT !.cli[c].out = @ + 1, !.cli[c].pw = @ \/ new,
                 !.pwrite = IF new THEN <<c>> \o @ ELSE @]

\* How a write to the socket may end.
Outcomes(c) ==
  {"all"} \cup (IF left.full > 0 /\ cli[c].out > 0 THEN {"part"} ELSE {})
          \cup (IF cli[c].eof /\ cli[c].out > 0 THEN {"error"} ELSE {})

Full(how) == IF how = "part" THEN [left EXCEPT !.full = @ - 1] ELSE left

\* The handler is removed only when it is the caller.
writeToClient(s, c, how, handler_installed) ==
  CASE how = "error" -> freeClientAsync(s, c)
    [] how = "part" -> s
    [] how = "all" ->
         LET t == [s EXCEPT !.cli[c].out = 0,
                            !.cli[c].handler = @ /\ ~handler_installed]
         IN  IF s.cli[c].after THEN freeClientAsync(t, c) ELSE t

\* The part of readQueryFromClient after postponeClientRead: what is on the
\* wire is read, or the end of the stream.
ReadSocket(s, c) ==
  IF s.cli[c].wire > 0
  THEN [s EXCEPT !.cli[c].buf = @ + s.cli[c].wire, !.cli[c].wire = 0]
  ELSE IF s.cli[c].eof THEN freeClientAsync(s, c) ELSE s

\* May processInputBuffer go on with the commands of the client?
MayParse(k) == k.buf > 0 /\ ~k.pcmd /\ ~k.after /\ ~k.asap

\* processInputBuffer when the client has a pending read: its first command is
\* parsed and left to the main thread.
LeaveCommand(s, c) == [s EXCEPT !.cli[c].pcmd = @ \/ MayParse(s.cli[c])]

-----------------------------------------------------------------------------
(* The peers.                                                               *)

ClientSends(c) ==
  /\ cli[c].open /\ ~cli[c].eof /\ left.requests > 0
  /\ cli' = [cli EXCEPT ![c].wire = @ + 1]
  /\ left' = [left EXCEPT !.requests = @ - 1]
  /\ UNCHANGED <<queues, threads, main, ready>>

ClientDisconnects(c) ==
  /\ cli[c].open /\ ~cli[c].eof
  /\ cli' = [cli EXCEPT ![c].eof = TRUE]
  /\ UNCHANGED <<queues, threads, main, ready, left>>

-----------------------------------------------------------------------------
(* The event loop: file events, then time events, then beforeSleep.         *)

\* Sockets with something to read, and writable ones with a handler.
Fired ==
  {<<c, "r">> : c \in {d \in Clients : cli[d].open /\ (cli[d].wire > 0 \/ cli[d].eof)}}
  \cup {<<c, "w">> : c \in {d \in Clients : cli[d].open /\ cli[d].handler}}

\* aeProcessEvents asks which events fired.
aeApiPoll ==
  /\ At("poll")
  /\ ready' = Fired
  /\ Goto("events")
  /\ UNCHANGED <<cli, queues, threads, left>>

\* A fired event whose client was freed, or whose handler was removed, since.
SkipEvent ==
  /\ At("events")
  /\ \E e \in ready :
       /\ ~cli[e[1]].open \/ (e[2] = "w" /\ ~cli[e[1]].handler)
       /\ ready' = ready \ {e}
  /\ UNCHANGED <<cli, queues, threads, main, left>>

\* Does the readable handler leave the client to the threads?
postponeClientRead(c) == active /\ ~cli[c].pr

\* readQueryFromClient as the readable handler: the client waits for the
\* threads, or is read and its commands are executed.
readQueryFromClient(c) ==
  /\ At("events") /\ <<c, "r">> \in ready /\ cli[c].open
  /\ ready' = ready \ {<<c, "r">>}
  /\ IF postponeClientRead(c)
     THEN /\ Is([Now EXCEPT !.cli[c].pr = TRUE, !.pread = <<c>> \o @])
          /\ UNCHANGED main
     ELSE /\ Is(ReadSocket(Now, c))
          /\ RunCommandsOf(c, FALSE)
  /\ UNCHANGED <<threads, left>>

\* sendReplyToClient, the writable handler.
sendReplyToClient(c) ==
  /\ At("events") /\ <<c, "w">> \in ready /\ cli[c].open /\ cli[c].handler
  /\ \E how \in Outcomes(c) :
       Is(writeToClient(Now, c, how, TRUE)) /\ left' = Full(how)
  /\ ready' = ready \ {<<c, "w">>}
  /\ UNCHANGED <<threads, main>>

\* Few clients wait for their replies.
LittleToWrite == Len(pwrite) < Threads * PerThread

\* Mutant of serverCron: the threads are stopped with reads pending.
StopsWithReadsPending ==
  /\ At("events") /\ ready = {} /\ active /\ LittleToWrite
  /\ Call("park", <<"sleep">>)
  /\ UNCHANGED <<cli, queues, threads, ready, left>>

\* serverCron, when its time has come: stopThreadedIOIfNeeded.
serverCron ==
  /\ At("events") /\ ready = {} /\ active /\ LittleToWrite
  /\ Call("reads", <<"park", "sleep">>)
  /\ UNCHANGED <<cli, queues, threads, ready, left>>

\* beforeSleep: pending reads, pending writes, clients to free.
beforeSleep ==
  /\ At("sleep") \/ (At("events") /\ ready = {})
  /\ Call("reads", <<"writes">>)
  /\ UNCHANGED <<cli, queues, threads, ready, left>>

-----------------------------------------------------------------------------
(* Commands: processInputBuffer, processCommandAndResetClient.              *)

\* What the next command of c may do: only answer; send something to a client
\* t, whose output buffer may exceed its limit (asyncClose...OnOutputBuffer-
\* LimitReached); free t; or ask that the connection be closed.
Commands(c) ==
  {[does |-> "answer", to |-> c], [does |-> "quit", to |-> c]}
  \cup {[does |-> "send", to |-> t] : t \in {d \in Clients \ {c} : cli[d].open}}
  \cup (IF left.kills = 0 THEN {}
        ELSE {[does |-> w, to |-> t] :
                w \in {"overflow", "kill"}, t \in {d \in Clients : cli[d].open}})

\* QUIT, and CLIENT KILL of oneself.
Quit(s, c) == [addReply(s, c) EXCEPT !.cli[c].after = TRUE]

Effect(s, c, k) ==
  CASE k.does = "answer" -> addReply(s, c)
    [] k.does = "quit" -> Quit(s, c)
    [] k.does = "send" -> addReply(addReply(s, k.to), c)
    [] k.does = "overflow" -> addReply(freeClientAsync(addReply(s, k.to), k.to), c)
    [] k.does = "kill" ->
         IF k.to = c THEN Quit(s, c) ELSE addReply(freeClient(s, k.to), c)

\* One round of processInputBuffer, or the command a thread has parsed.
ExecuteCommand ==
  /\ At("exec")
  /\ LET c == main.cur IN
     /\ main.parsed \/ (MayParse(cli[c]) /\ ~cli[c].pr)
     /\ \E k \in Commands(c) :
          /\ Is(Effect([Now EXCEPT !.cli[c].buf = @ - 1], c, k))
          /\ left' = [left EXCEPT !.kills =
                        IF k.does \in {"overflow", "kill"} THEN @ - 1 ELSE @]
  /\ main' = [main EXCEPT !.parsed = FALSE]
  /\ UNCHANGED <<threads, ready>>

CommandsDone ==
  /\ At("exec") /\ ~main.parsed
  /\ ~(MayParse(cli[main.cur]) /\ ~cli[main.cur].pr)
  /\ Is(LeaveCommand(Now, main.cur))
  /\ Return
  /\ UNCHANGED <<threads, ready, left>>

-----------------------------------------------------------------------------
(* Handing clients to the threads.                                          *)

\* Client number i of the queue goes to the list of thread i % io_threads_num.
Distribute(q) ==
  list' = [j \in 0..(Threads - 1) |-> Pick(q, {i \in DOMAIN q : (i - 1) % Threads = j})]

\* The start condition of the threads.
StartWork(what) ==
  /\ op' = what
  /\ pending' = [j \in Workers |-> Len(list'[j])]

\* handleClientsWithPendingReadsUsingThreads up to the start condition.
DistributeReads ==
  /\ At("reads") /\ active /\ pread # <<>>
  /\ Distribute(pread) /\ StartWork("read")
  /\ Goto("slice")
  /\ UNCHANGED <<cli, queues, mutex, active, worker, ready, left>>

NoReads ==
  /\ At("reads") /\ ~(active /\ pread # <<>>)
  /\ Return
  /\ UNCHANGED <<cli, queues, threads, ready, left>>

\* A thread, or the main thread for its share, serves a client.
Serve(c) ==
  \/ /\ op = "read"
     /\ Is(LeaveCommand(ReadSocket(Now, c), c))
     /\ UNCHANGED left
  \/ /\ op = "write"
     /\ \E how \in Outcomes(c) :
          Is(writeToClient(Now, c, how, FALSE)) /\ left' = Full(how)

MainServes ==
  /\ At("slice") /\ list[0] # <<>>
  /\ Serve(Head(list[0]))
  /\ list' = [list EXCEPT ![0] = Tail(@)]
  /\ UNCHANGED <<pending, op, mutex, active, main, worker, ready>>

\* Mutant of WaitForThreads: the main thread goes on after its own share.
WaitsForNobody ==
  /\ At("slice") /\ list[0] = <<>>
  /\ Goto(IF op = "read" THEN "parsed" ELSE "install")
  /\ UNCHANGED <<cli, queues, threads, ready, left>>

\* The main thread is done with its share and spins until the others are.
WaitForThreads ==
  /\ At("slice") /\ list[0] = <<>>
  /\ \A j \in Workers : pending[j] = 0
  /\ Goto(IF op = "read" THEN "parsed" ELSE "install")
  /\ UNCHANGED <<cli, queues, threads, ready, left>>

\* The commands of the first client of the queue, one of them parsed by now.
RunPendingCommands ==
  /\ At("parsed") /\ pread # <<>>
  /\ LET c == Head(pread) IN
     /\ Is([Now EXCEPT !.pread = Tail(@), !.cli[c].pr = FALSE, !.cli[c].pcmd = FALSE])
     /\ RunCommandsOf(c, cli[c].pcmd)
  /\ UNCHANGED <<threads, ready, left>>

ReadsDone ==
  /\ At("parsed") /\ pread = <<>>
  /\ Return
  /\ UNCHANGED <<cli, queues, threads, ready, left>>

-----------------------------------------------------------------------------
(* handleClientsWithPendingWritesUsingThreads.                              *)

NoWrites ==
  /\ At("writes") /\ pwrite = <<>>
  /\ Goto("free")
  /\ UNCHANGED <<cli, queues, threads, ready, left>>

\* Few replies: stop the threads, which handles pending reads first, and write
\* without them.
WriteAlone ==
  /\ At("writes") /\ pwrite # <<>> /\ LittleToWrite
  /\ IF active THEN Call("reads", <<"park", "sync">>) ELSE Goto("sync")
  /\ UNCHANGED <<cli, queues, threads, ready, left>>

\* startThreadedIO, unless the threads are active already.
startThreadedIO ==
  /\ active' = TRUE
  /\ mutex' = IF active THEN mutex ELSE [j \in Workers |-> "free"]

\* Start the threads if they are stopped and distribute the clients.
DistributeWrites ==
  /\ At("writes") /\ pwrite # <<>> /\ ~LittleToWrite
  /\ startThreadedIO
  /\ LET q == Pick(pwrite, {i \in DOMAIN pwrite : ~cli[pwrite[i]].asap}) IN
     /\ Is([Now EXCEPT !.pwrite = q,
                       !.cli = [c \in Clients |->
                          IF c \in ToSet(pwrite) THEN [cli[c] EXCEPT !.pw = FALSE]
                          ELSE cli[c]]])
     /\ Distribute(q)
  /\ StartWork("write")
  /\ Goto("slice")
  /\ UNCHANGED <<worker, ready, left>>

\* All threads are done: the handler for clients with replies left.
InstallHandlers ==
  /\ At("install")
  /\ Is([Now EXCEPT !.pwrite = <<>>,
                    !.cli = [c \in Clients |->
                       [cli[c] EXCEPT !.handler = @ \/ (c \in ToSet(pwrite) /\ cli[c].out > 0)]]])
  /\ Goto("free")
  /\ UNCHANGED <<threads, ready, left>>

\* handleClientsWithPendingWrites, one client.
WriteSync ==
  /\ At("sync") /\ pwrite # <<>>
  /\ LET c == Head(pwrite)
         s == [Now EXCEPT !.pwrite = Tail(@), !.cli[c].pw = FALSE]
     IN  IF cli[c].asap THEN Is(s) /\ UNCHANGED left
         ELSE \E how \in Outcomes(c) :
                LET t == writeToClient(s, c, how, FALSE) IN
                /\ Is(IF t.cli[c].asap THEN t
                      ELSE [t EXCEPT !.cli[c].handler = @ \/ t.cli[c].out > 0])
                /\ left' = Full(how)
  /\ UNCHANGED <<threads, main, ready>>

WritesDone ==
  /\ At("sync") /\ pwrite = <<>>
  /\ Goto("free")
  /\ UNCHANGED <<cli, queues, threads, ready, left>>

\* freeClientsInAsyncFreeQueue, one client; then the event loop polls again.
FreeAsync ==
  /\ At("free") /\ toclose # <<>>
  /\ Is(LET c == Head(toclose)
            s == freeClient([Now EXCEPT !.cli[c].asap = FALSE], c)
        IN  [s EXCEPT !.toclose = Tail(@)])
  /\ UNCHANGED <<threads, main, ready, left>>

NoneToFree ==
  /\ At("free") /\ toclose = <<>>
  /\ Goto("poll")
  /\ UNCHANGED <<cli, queues, threads, ready, left>>

-----------------------------------------------------------------------------
(* stopThreadedIO, after the pending reads, and IOThreadMain.               *)

ParkThread(j) ==
  /\ At("park") /\ mutex[j] = "free"
  /\ \A i \in 1..(j - 1) : mutex[i] = "main"
  /\ mutex' = [mutex EXCEPT ![j] = "main"]
  /\ UNCHANGED <<cli, queues, list, pending, op, active, main, worker, ready, left>>

ThreadsParked ==
  /\ At("park") /\ \A j \in Workers : mutex[j] = "main"
  /\ active' = FALSE
  /\ Return
  /\ UNCHANGED <<cli, queues, list, pending, op, mutex, worker, ready, left>>

\* After many looks at its pending count the thread still has nothing to do,
\* or it has.
Spin(j) ==
  /\ worker[j] = "spin"
  /\ worker' = [worker EXCEPT ![j] = IF pending[j] = 0 THEN "lock" ELSE "work"]
  /\ UNCHANGED <<cli, queues, list, pending, op, mutex, active, main, ready, left>>

\* Give the main thread a chance to stop this thread.
LockUnlock(j) ==
  /\ \/ /\ worker[j] = "lock" /\ mutex[j] = "free"
        /\ mutex' = [mutex EXCEPT ![j] = "thread"]
        /\ worker' = [worker EXCEPT ![j] = "unlock"]
     \/ /\ worker[j] = "unlock"
        /\ mutex' = [mutex EXCEPT ![j] = "free"]
        /\ worker' = [worker EXCEPT ![j] = "spin"]
  /\ UNCHANGED <<cli, queues, list, pending, op, active, main, ready, left>>

ThreadServes(j) ==
  /\ worker[j] = "work" /\ list[j] # <<>>
  /\ Serve(Head(list[j]))
  /\ list' = [list EXCEPT ![j] = Tail(@)]
  /\ UNCHANGED <<pending, op, mutex, active, main, worker, ready>>

ThreadDone(j) ==
  /\ worker[j] = "work" /\ list[j] = <<>>
  /\ pending' = [pending EXCEPT ![j] = 0]
  /\ worker' = [worker EXCEPT ![j] = "spin"]
  /\ UNCHANGED <<cli, queues, list, op, mutex, active, main, ready, left>>

-----------------------------------------------------------------------------
MainStep ==
  \/ aeApiPoll \/ SkipEvent \/ serverCron \/ beforeSleep
  \/ \E c \in Clients : readQueryFromClient(c) \/ sendReplyToClient(c)
  \/ ExecuteCommand \/ CommandsDone
  \/ DistributeReads \/ NoReads \/ MainServes \/ WaitForThreads
  \/ RunPendingCommands \/ ReadsDone
  \/ NoWrites \/ WriteAlone \/ DistributeWrites \/ InstallHandlers
  \/ WriteSync \/ WritesDone \/ FreeAsync \/ NoneToFree
  \/ \E j \in Workers : ParkThread(j)
  \/ ThreadsParked

WorkerStep(j) ==
  Spin(j) \/ LockUnlock(j) \/ ThreadServes(j) \/ ThreadDone(j)

Next ==
  \/ \E c \in Clients : ClientSends(c) \/ ClientDisconnects(c)
  \/ MainStep
  \/ \E j \in Workers : WorkerStep(j)

\* Threads run, and the main thread gets a mutex that is released again and
\* again.
Fairness ==
  /\ SF_vars(MainStep)
  /\ \A j \in Workers : WF_vars(WorkerStep(j))

Spec == Init /\ [][Next]_vars /\ Fairness

-----------------------------------------------------------------------------
(* Correctness.                                                             *)

\* The main thread and the I/O threads may serve clients now.
Serving == At("slice")

\* No queue, thread list or running command loop refers to a freed client:
\* unlinkClient must find the client everywhere, whoever frees it and whenever.
NoDangling ==
  \A c \in Clients :
    ~cli[c].open =>
      /\ main.cur # c
      /\ \A q \in {pread, pwrite, toclose} : c \notin ToSet(q)
      /\ \A j \in DOMAIN list : c \notin ToSet(list[j])

\* The flags of a client agree with the queues it is in, as the serverAsserts
\* of freeClient and unlinkClient demand, no queue has it twice, and a parsed
\* command belongs to a client whose pending read will execute it.
FlagsMatch ==
  /\ \A q \in {pread, pwrite, toclose} : IsInjective(q)
  /\ \A c \in Clients :
       /\ cli[c].pr <=> c \in ToSet(pread)
       /\ cli[c].asap <=> c \in ToSet(toclose)
       /\ cli[c].pw => c \in ToSet(pwrite)
       /\ cli[c].pcmd => cli[c].pr

\* A client is served by at most one thread at a time, and while the main
\* thread executes commands, frees clients or sleeps no thread has any work.
OneThreadPerClient ==
  /\ \A i, j \in DOMAIN list : i # j => ToSet(list[i]) \cap ToSet(list[j]) = {}
  /\ \A j \in DOMAIN list : IsInjective(list[j])
  /\ ~Serving => \A j \in Workers :
       list[j] = <<>> /\ pending[j] = 0 /\ worker[j] # "work"

\* Replies are never stranded: a client with replies that is not about to be
\* freed is in the queue of pending writes or has a write handler.
ReplyScheduled ==
  \A c \in Clients :
    cli[c].open /\ ~cli[c].asap /\ cli[c].out > 0 =>
      c \in ToSet(pwrite) \/ cli[c].handler

\* Every command sent is executed and every reply written unless the client is
\* freed, also when the threads are stopped in between; and a client that
\* disconnected, asked to be closed or was scheduled to be freed is freed.
Answered ==
  \A c \in Clients :
    LET Busy == cli[c].open /\ (\/ cli[c].wire + cli[c].buf + cli[c].out > 0
                                \/ cli[c].eof \/ cli[c].after \/ cli[c].asap)
    IN  Busy ~> ~Busy
\* The server never loses track of a client: its queues, lists and flags agree,
\* refer only to live clients, and know of every reply left to write.
ClientsTracked == NoDangling /\ FlagsMatch /\ ReplyScheduled
=============================================================================
