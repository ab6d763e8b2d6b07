--------------------------- MODULE SocketListener ---------------------------
(***************************************************************************)
(* The TCP listeners (listener/socket/socket.c).  Each one has a main      *)
(* thread that accepts connections and deals them out, in turn, to its     *)
(* worker threads.  A connection goes to a worker through a queue and an   *)
(* ev_async, libev's wake-up: sending one that is already pending has no   *)
(* further effect.  The engine creates listeners and joins them one at a   *)
(* time, at a reload or at the end.  do_shutdown is one variable for all.  *)
(***************************************************************************)
EXTENDS Integers, Sequences

CONSTANTS
  Listeners, \* listeners that the configuration may name
  Conns,     \* file descriptors of the connections
  THREADS,   \* config.threads
  Response,  \* global_config.response is configured
  NULL

ASSUME ConstantsAssumption ==
  /\ THREADS \in Nat \ {0}
  /\ Response \in BOOLEAN
  /\ NULL \notin Listeners

Workers == 0..(THREADS - 1)

VARIABLES
  do_shutdown, \* set by the first join, never reset
  joining,     \* the listener that the engine joins
  crashed,     \* the process is gone
  main,        \* main thread: "none", no listener.  "start": the thread exists.
               \* "setup": event_loop is set.  "run": in ev_run().  "wake": in
               \* accept_cb().  "stop", "join": after ev_run().  "ended"
  w_async,     \* the ev_async of the main thread is pending
  turn,        \* accept_current_worker_idx
  i,           \* worker that the main thread is waking or stopping
  worker,      \* "none", no event loop.  "unstarted": loop and queue, but no
               \* thread.  "wait": in ev_run().  "drain": in async_cb().
               \* "ended".  "destroyed": joined, loop destroyed
  sent,        \* the ev_async of the worker is pending
  brk,         \* async_cb() has called ev_break()
  queue,       \* watchers_queue
  conn         \* at: "none", "queued", "watched" by worker w of listener l, or
               \* "lost": open, and in no loop; answered: first_response_sent

mainVars == <<main, w_async, turn, i>>
workerVars == <<worker, sent, brk>>
vars == <<do_shutdown, joining, crashed, mainVars, workerVars, queue, conn>>

NoConn == [at |-> "none", l |-> NULL, w |-> 0, answered |-> FALSE]
LostConn == [at |-> "lost", l |-> NULL, w |-> 0, answered |-> FALSE]

Init ==
  /\ do_shutdown = FALSE
  /\ joining = NULL
  /\ crashed = FALSE
  /\ main = [l \in Listeners |-> "none"]
  /\ w_async = [l \in Listeners |-> FALSE]
  /\ turn = [l \in Listeners |-> 0]
  /\ i = [l \in Listeners |-> 0]
  /\ worker = [l \in Listeners |-> [w \in Workers |-> "none"]]
  /\ sent = [l \in Listeners |-> [w \in Workers |-> FALSE]]
  /\ brk = [l \in Listeners |-> [w \in Workers |-> FALSE]]
  /\ queue = [l \in Listeners |-> [w \in Workers |-> <<>>]]
  /\ conn = [c \in Conns |-> NoConn]
-----------------------------------------------------------------------------
\* The connections that worker w of listener l has, queued or watched.
ConnsOf(l, w) == {c \in Conns : /\ conn[c].at \in {"queued", "watched"}
                                /\ conn[c].l = l /\ conn[c].w = w}

Crash ==
  /\ crashed' = TRUE
  /\ UNCHANGED <<do_shutdown, joining, mainVars, workerVars, queue, conn>>

\* create_socket_listener(): the structure is all zeros, the main thread starts.
Create(l) ==
  /\ joining = NULL
  /\ main[l] = "none"
  /\ main' = [main EXCEPT ![l] = "start"]
  /\ w_async' = [w_async EXCEPT ![l] = FALSE]
  /\ turn' = [turn EXCEPT ![l] = 0]
  /\ i' = [i EXCEPT ![l] = 0]
  /\ worker' = [worker EXCEPT ![l] = [w \in Workers |-> "none"]]
  /\ sent' = [sent EXCEPT ![l] = [w \in Workers |-> FALSE]]
  /\ brk' = [brk EXCEPT ![l] = [w \in Workers |-> FALSE]]
  /\ UNCHANGED <<do_shutdown, joining, crashed, queue, conn>>

\* main_socket_loop(): the socket and the event loop exist, or one of them
\* could not be created and the thread ends.
MainStart(l) ==
  /\ main[l] = "start"
  /\ \E pc \in {"setup", "ended"} : main' = [main EXCEPT ![l] = pc]
  /\ UNCHANGED <<do_shutdown, joining, crashed, w_async, turn, i, workerVars,
                 queue, conn>>

\* main_tcp_loop() until ev_run().  ev_async_start() forgets what was sent
\* before.  A worker whose arguments or loop cannot be created is left out; one
\* whose thread cannot be created has all the rest, because nobody looks at what
\* pthread_create() returns.
MainSetup(l) ==
  /\ main[l] = "setup"
  /\ main' = [main EXCEPT ![l] = "run"]
  /\ w_async' = [w_async EXCEPT ![l] = FALSE]
  /\ \E created \in [Workers -> {"none", "unstarted", "wait"}] :
       worker' = [worker EXCEPT ![l] = created]
  /\ UNCHANGED <<do_shutdown, joining, crashed, turn, i, sent, brk, queue, conn>>

\* Mutant of NextTurn: the index is compared with > instead of >=.
NextTurnLate(l) ==
  turn' = [turn EXCEPT ![l] = IF @ + 1 > THREADS THEN 0 ELSE @ + 1]

\* accept_current_worker_idx goes to the next worker.
NextTurn(l) ==
  turn' = [turn EXCEPT ![l] = IF @ + 1 >= THREADS THEN 0 ELSE @ + 1]

\* accept_cb(), until the connection is in the queue of a worker.  If that
\* worker does not exist, its queue and its loop are NULL.
Accept(l, c) ==
  /\ main[l] = "run"
  /\ conn[c].at = "none"
  /\ LET w == turn[l] IN
     IF worker[l][w] = "none" THEN Crash
     ELSE /\ NextTurn(l)
          /\ conn' = [conn EXCEPT ![c] = [at |-> "queued", l |-> l, w |-> w,
                                          answered |-> FALSE]]
          /\ queue' = [queue EXCEPT ![l][w] = Append(@, c)]
          /\ i' = [i EXCEPT ![l] = w]
          /\ main' = [main EXCEPT ![l] = "wake"]
          /\ UNCHANGED <<do_shutdown, joining, crashed, w_async, workerVars>>

\* accept_cb() has no memory for the watcher, or cannot print the address: the
\* connection stays open and nobody watches it.
AcceptFails(l, c) ==
  /\ main[l] = "run"
  /\ conn[c].at = "none"
  /\ conn' = [conn EXCEPT ![c] = LostConn]
  /\ UNCHANGED <<do_shutdown, joining, crashed, mainVars, workerVars, queue>>

\* The end of accept_cb(): the worker is told.
AcceptWakes(l) ==
  /\ main[l] = "wake"
  /\ sent' = [sent EXCEPT ![l][i[l]] = TRUE]
  /\ main' = [main EXCEPT ![l] = "run"]
  /\ i' = [i EXCEPT ![l] = 0]
  /\ UNCHANGED <<do_shutdown, joining, crashed, w_async, turn, worker, brk, queue,
                 conn>>

\* async_cb() in a worker: it notes whether to stop, and then takes what is
\* queued.
WorkerWakes(l, w) ==
  /\ worker[l][w] = "wait"
  /\ sent[l][w]
  /\ sent' = [sent EXCEPT ![l][w] = FALSE]
  /\ worker' = [worker EXCEPT ![l][w] = "drain"]
  /\ brk' = [brk EXCEPT ![l][w] = do_shutdown]
  /\ UNCHANGED <<do_shutdown, joining, crashed, mainVars, queue, conn>>

\* Mutant of WorkerTakes: one connection per wake-up.
WorkerTakesOne(l, w) ==
  /\ worker[l][w] = "drain"
  /\ queue[l][w] # <<>>
  /\ conn' = [conn EXCEPT ![Head(queue[l][w])] =
                [at |-> "watched", l |-> l, w |-> w, answered |-> FALSE]]
  /\ queue' = [queue EXCEPT ![l][w] = Tail(@)]
  /\ worker' = [worker EXCEPT ![l][w] = IF brk[l][w] THEN "ended" ELSE "wait"]
  /\ UNCHANGED <<do_shutdown, joining, crashed, mainVars, sent, brk>>

\* One turn of the loop of async_cb().
WorkerTakes(l, w) ==
  /\ worker[l][w] = "drain"
  /\ queue[l][w] # <<>>
  /\ conn' = [conn EXCEPT ![Head(queue[l][w])] =
                [at |-> "watched", l |-> l, w |-> w, answered |-> FALSE]]
  /\ queue' = [queue EXCEPT ![l][w] = Tail(@)]
  /\ UNCHANGED <<do_shutdown, joining, crashed, mainVars, workerVars>>

\* Mutant of WorkerDone: what was sent meanwhile is forgotten.
WorkerForgets(l, w) ==
  /\ worker[l][w] = "drain"
  /\ queue[l][w] = <<>>
  /\ worker' = [worker EXCEPT ![l][w] = IF brk[l][w] THEN "ended" ELSE "wait"]
  /\ sent' = [sent EXCEPT ![l][w] = FALSE]
  /\ UNCHANGED <<do_shutdown, joining, crashed, mainVars, brk, queue, conn>>

\* async_cb() returns; after ev_break() so do ev_run() and the thread.
WorkerDone(l, w) ==
  /\ worker[l][w] = "drain"
  /\ queue[l][w] = <<>>
  /\ worker' = [worker EXCEPT ![l][w] = IF brk[l][w] THEN "ended" ELSE "wait"]
  /\ UNCHANGED <<do_shutdown, joining, crashed, mainVars, sent, brk, queue, conn>>
-----------------------------------------------------------------------------
\* read_cb() is called for connection c.
Readable(c) ==
  /\ conn[c].at = "watched"
  /\ worker[conn[c].l][conn[c].w] = "wait"

\* close_socket_and_stop_watcher().
Closed(c) == conn' = [conn EXCEPT ![c] = NoConn]

\* read_cb() gets data and decodes it; the first time, it sends the response.
ReadData(c) ==
  /\ Readable(c)
  /\ conn' = [conn EXCEPT ![c] = [at |-> "watched", l |-> conn[c].l, w |-> conn[c].w,
                                  answered |-> conn[c].answered \/ Response]]
  /\ UNCHANGED <<do_shutdown, joining, crashed, mainVars, workerVars, queue>>

\* read_cb() gets an error or the end of the stream.
ReadEnd(c) ==
  /\ Readable(c)
  /\ Closed(c)
  /\ UNCHANGED <<do_shutdown, joining, crashed, mainVars, workerVars, queue>>

\* read_cb() gets data and cannot send the response: the watcher is freed, and
\* then first_response_sent is written, which is part of it.  The write goes
\* unnoticed or damages the heap.
ReadNoResponse(c) ==
  /\ Readable(c)
  /\ Response /\ ~conn[c].answered
  /\ Closed(c)
  /\ crashed' \in BOOLEAN
  /\ UNCHANGED <<do_shutdown, joining, mainVars, workerVars, queue>>
-----------------------------------------------------------------------------
\* join_listener_socket(), until it waits for the main thread.  Without event
\* loop, ev_async_send() has nothing to write to.
Join(l) ==
  /\ joining = NULL
  /\ main[l] # "none"
  /\ IF main[l] \in {"start", "ended"} THEN Crash
     ELSE /\ do_shutdown' = TRUE
          /\ joining' = l
          /\ w_async' = [w_async EXCEPT ![l] = TRUE]
          /\ UNCHANGED <<crashed, main, turn, i, workerVars, queue, conn>>

\* async_cb() in the main thread; its loop has no user data.
MainAsync(l) ==
  /\ main[l] = "run"
  /\ w_async[l]
  /\ w_async' = [w_async EXCEPT ![l] = FALSE]
  /\ main' = [main EXCEPT ![l] = IF do_shutdown THEN "stop" ELSE "run"]
  /\ UNCHANGED <<do_shutdown, joining, crashed, turn, i, workerVars, queue, conn>>

\* Mutant of StopWorker: the worker is joined without being told.
StopSilently(l) ==
  /\ main[l] = "stop"
  /\ i[l] < THREADS
  /\ IF worker[l][i[l]] = "none"
     THEN i' = [i EXCEPT ![l] = @ + 1] /\ UNCHANGED main
     ELSE main' = [main EXCEPT ![l] = "join"] /\ UNCHANGED i
  /\ UNCHANGED <<do_shutdown, joining, crashed, w_async, turn, worker, sent, brk,
                 queue, conn>>

\* The loop after ev_run(): the next worker is told to stop.
StopWorker(l) ==
  /\ main[l] = "stop"
  /\ i[l] < THREADS
  /\ IF worker[l][i[l]] = "none"
     THEN i' = [i EXCEPT ![l] = @ + 1] /\ UNCHANGED <<main, sent>>
     ELSE /\ sent' = [sent EXCEPT ![l][i[l]] = TRUE]
          /\ main' = [main EXCEPT ![l] = "join"]
          /\ UNCHANGED i
  /\ UNCHANGED <<do_shutdown, joining, crashed, w_async, turn, worker, brk, queue,
                 conn>>

\* Its loop is destroyed; the connections in it stay open.
DestroyLoop(l) ==
  /\ worker' = [worker EXCEPT ![l][i[l]] = "destroyed"]
  /\ conn' = [c \in Conns |-> IF c \in ConnsOf(l, i[l])
                              THEN LostConn ELSE conn[c]]
  /\ queue' = [queue EXCEPT ![l][i[l]] = <<>>]
  /\ i' = [i EXCEPT ![l] = @ + 1]
  /\ main' = [main EXCEPT ![l] = "stop"]

\* The worker has ended.
JoinWorker(l) ==
  /\ main[l] = "join"
  /\ worker[l][i[l]] = "ended"
  /\ DestroyLoop(l)
  /\ UNCHANGED <<do_shutdown, joining, crashed, w_async, turn, sent, brk>>

\* pthread_join() of a thread that was never created: its identifier is not one,
\* or that of another worker, whose stack is the one that was given back.  The
\* process is gone, or the call returns; it may also wait forever, which is why
\* this is no step that has to be taken.
JoinUnstarted(l) ==
  /\ main[l] = "join"
  /\ worker[l][i[l]] = "unstarted"
  /\ \/ Crash
     \/ /\ DestroyLoop(l)
        /\ UNCHANGED <<do_shutdown, joining, crashed, w_async, turn, sent, brk>>

\* Mutant of MainEnds: the workers are left to end on their own.
MainEndsFirst(l) ==
  /\ main[l] = "stop"
  /\ main' = [main EXCEPT ![l] = "ended"]
  /\ UNCHANGED <<do_shutdown, joining, crashed, w_async, turn, i, workerVars,
                 queue, conn>>

\* The main thread ends.
MainEnds(l) ==
  /\ main[l] = "stop"
  /\ i[l] = THREADS
  /\ main' = [main EXCEPT ![l] = "ended"]
  /\ UNCHANGED <<do_shutdown, joining, crashed, w_async, turn, i, workerVars,
                 queue, conn>>

\* The end of join_listener_socket(): the listener is freed.
JoinEnds(l) ==
  /\ joining = l
  /\ main[l] = "ended"
  /\ joining' = NULL
  /\ main' = [main EXCEPT ![l] = "none"]
  /\ UNCHANGED <<do_shutdown, crashed, w_async, turn, i, workerVars, queue, conn>>
-----------------------------------------------------------------------------
\* What the main thread of l, and the engine that waits for it, do on their own.
MainStep(l) ==
  \/ MainStart(l) \/ MainSetup(l) \/ AcceptWakes(l) \/ MainAsync(l)
  \/ StopWorker(l) \/ JoinWorker(l) \/ MainEnds(l) \/ JoinEnds(l)

WorkerStep(l, w) == WorkerWakes(l, w) \/ WorkerTakes(l, w) \/ WorkerDone(l, w)

Step ==
  \/ \E l \in Listeners : Create(l) \/ Join(l) \/ MainStep(l) \/ JoinUnstarted(l)
  \/ \E l \in Listeners, w \in Workers : WorkerStep(l, w)
  \/ \E l \in Listeners, c \in Conns : Accept(l, c) \/ AcceptFails(l, c)
  \/ \E c \in Conns : ReadData(c) \/ ReadEnd(c) \/ ReadNoResponse(c)

Next == ~crashed /\ Step

Spec == Init /\ [][Next]_vars

\* Threads run: a main thread and a worker with something to do get to do it.
\* Clients and the engine promise nothing.
FairSpec ==
  /\ Spec
  /\ \A l \in Listeners : WF_vars(~crashed /\ MainStep(l))
  /\ \A l \in Listeners, w \in Workers : WF_vars(~crashed /\ WorkerStep(l, w))
-----------------------------------------------------------------------------
WorkerStates == {"none", "unstarted", "wait", "drain", "ended", "destroyed"}

\* Every variable has the type of the field it stands for;
\* accept_current_worker_idx is the index of a worker.
TypeOK ==
  /\ do_shutdown \in BOOLEAN /\ crashed \in BOOLEAN
  /\ joining \in Listeners \cup {NULL}
  /\ main \in [Listeners -> {"none", "start", "setup", "run", "wake", "stop",
                             "join", "ended"}]
  /\ w_async \in [Listeners -> BOOLEAN]
  /\ turn \in [Listeners -> Workers]
  /\ i \in [Listeners -> 0..THREADS]
  /\ worker \in [Listeners -> [Workers -> WorkerStates]]
  /\ sent \in [Listeners -> [Workers -> BOOLEAN]]
  /\ brk \in [Listeners -> [Workers -> BOOLEAN]]
  /\ queue \in [Listeners -> [Workers -> Seq(Conns)]]
  /\ conn \in [Conns -> [at : {"none", "queued", "watched", "lost"},
                         l : Listeners \cup {NULL}, w : Workers,
                         answered : BOOLEAN]]

\* When join_listener_socket() frees a listener, no worker thread of it is left
\* and no connection, whose connection_private points to the listener, is in a
\* queue or in a loop.
NothingOutlivesListener ==
  \A l \in Listeners : main[l] = "none" =>
    \A w \in Workers : /\ worker[l][w] \in {"none", "destroyed"}
                       /\ ConnsOf(l, w) = {}

\* Worker w of l takes its queue, or is going to, unless it was told to stop.
WillLook(l, w) ==
  \/ sent[l][w]
  \/ main[l] = "wake" /\ i[l] = w
  \/ worker[l][w] = "drain"
  \/ worker[l][w] = "ended" /\ do_shutdown

\* Worker w of l has ended, or is going to, or it never started.
WillEnd(l, w) ==
  \/ worker[l][w] \in {"ended", "unstarted"}
  \/ worker[l][w] = "drain" /\ brk[l][w]
  \/ worker[l][w] \in {"wait", "drain"} /\ sent[l][w] /\ do_shutdown

\* What a queue holds, and that each of its connections is in it once.
QueueOf(l, w) ==
  \A n \in DOMAIN queue[l][w] :
    /\ conn[queue[l][w][n]].at = "queued"
    /\ conn[queue[l][w][n]].l = l /\ conn[queue[l][w][n]].w = w
    /\ \A m \in DOMAIN queue[l][w] : queue[l][w][m] = queue[l][w][n] => m = n

\* A connection that is handed over is in the queue of its worker, which looks.
HandedOver(c) ==
  conn[c].at = "queued" =>
    /\ \E n \in DOMAIN queue[conn[c].l][conn[c].w] :
         queue[conn[c].l][conn[c].w][n] = c
    /\ WillLook(conn[c].l, conn[c].w)

\* No wake-up is lost.  A connection that accept_cb() has handed over is in the
\* queue of its worker, once, and the worker will look at it: its ev_async is
\* pending, or accept_cb() is about to send it, or async_cb() is still taking
\* connections; only a worker that was told to stop looks no more (one that has no
\* thread has its wake-up pending for good).  And the main thread joins only a
\* worker that has ended or is going to notice do_shutdown, or that never started.
NoWakeUpIsLost ==
  /\ \A c \in Conns : HandedOver(c)
  /\ \A l \in Listeners, w \in Workers : QueueOf(l, w)
  /\ \A l \in Listeners : main[l] = "join" => WillEnd(l, i[l])

\* Connection c waits for a worker that has no thread: pthread_create() failed,
\* and nobody noticed (socket.c:577).
NoThread(c) ==
  conn[c].at = "queued" /\ worker[conn[c].l][conn[c].w] = "unstarted"

\* A connection that accept_cb() hands over to a worker that has a thread gets to
\* it and is read from: none is forgotten because its wake-up came together with
\* another one or while the worker was taking the ones before; as long as no
\* listener has been joined.  A connection for a worker without thread is never
\* read from: its loop and its queue exist, so accept_cb() does not notice.
QueuedIsServed ==
  \A c \in Conns :
    conn[c].at = "queued" ~> Readable(c) \/ NoThread(c) \/ do_shutdown \/ crashed

\* join_listener_socket() returns if the listener was running when it was
\* called, did not forget its ev_async_send() while it was still starting, and
\* has a thread for every event loop of a worker: the main thread gets out of
\* ev_run(), every worker gets its wake-up after do_shutdown is set, also those
\* that an earlier join ended, and no one waits for a worker that has no loop.
JoinReturns ==
  \A l \in Listeners :
    /\ joining = l /\ main[l] = "run" /\ w_async[l]
    /\ \A w \in Workers : worker[l][w] # "unstarted"
    ~> joining # l \/ crashed

\* "Close listener that are not valid anymore, and reload present ones"
\* (engine/global_config.c:485): a connection to a listener that nobody joins
\* gets to its worker, which reads from it if it has a thread, whatever happens to
\* other listeners.
PresentListenerServes ==
  \A c \in Conns :
    conn[c].at = "queued"
      ~> Readable(c) \/ NoThread(c) \/ joining = conn[c].l \/ crashed
=============================================================================
