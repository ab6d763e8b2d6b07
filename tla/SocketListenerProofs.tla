------------------------ MODULE SocketListenerProofs ------------------------
(* Proofs about SocketListener, for any number of listeners, workers and       *)
(* connections.                                                                *)
EXTENDS SocketListener, TLAPS

Gone == {"none", "destroyed"}
Serving == {"run", "wake", "stop", "join"}

\* Threads of workers are there only while their main thread looks after them.
\* After ev_run() it goes through them in order, and leaves none behind.
WorkerInv ==
  \A l \in Listeners :
    /\ main[l] \in {"start", "setup", "run"} => i[l] = 0
    /\ main[l] \in {"wake", "join"} => i[l] \in Workers
    /\ \A w \in Workers :
         /\ worker[l][w] \notin Gone => main[l] \in Serving
         /\ main[l] \in {"run", "wake"} => worker[l][w] # "destroyed"
         /\ main[l] \in {"stop", "join"} /\ w < i[l] => worker[l][w] \in Gone

\* A connection is in a queue or in a loop only if that loop exists.
ConnInv ==
  \A c \in Conns : conn[c].at \in {"queued", "watched"} =>
    conn[c].l \in Listeners /\ worker[conn[c].l][conn[c].w] \notin Gone

IInv == TypeOK /\ WorkerInv /\ ConnInv
-----------------------------------------------------------------------------
\* 0 is a worker, and their indices are numbers below THREADS.
LEMMA WorkerIndices ==
  /\ THREADS \in Nat /\ 0 \in Workers /\ Workers \subseteq 0..THREADS
  /\ \A n \in 0..THREADS : n # THREADS => n \in Workers
  /\ \A n \in 0..THREADS : \A w \in Workers : w < n + 1 <=> w < n \/ w = n
  /\ \A w \in Workers : ~(w < 0) /\ w < THREADS /\ w + 1 \in 0..THREADS
  /\ \A w \in Workers : ~(w + 1 >= THREADS) => w + 1 \in Workers
BY ConstantsAssumption DEF Workers

LEMMA InitIInv == Init => IInv
<1> SUFFICES ASSUME Init PROVE IInv
  OBVIOUS
<1>1. /\ do_shutdown \in BOOLEAN /\ crashed \in BOOLEAN
      /\ w_async \in [Listeners -> BOOLEAN]
      /\ sent \in [Listeners -> [Workers -> BOOLEAN]]
      /\ brk \in [Listeners -> [Workers -> BOOLEAN]]
  BY Zenon DEF Init
<1>2. queue \in [Listeners -> [Workers -> Seq(Conns)]]
  BY DEF Init
<1>3. conn \in [Conns -> [at : {"none", "queued", "watched", "lost"},
                         l : Listeners \cup {NULL}, w : Workers,
                         answered : BOOLEAN]]
  BY WorkerIndices DEF Init, NoConn
<1>4. /\ joining \in Listeners \cup {NULL}
      /\ main = [l \in Listeners |-> "none"]
      /\ turn \in [Listeners -> Workers] /\ i \in [Listeners -> 0..THREADS]
      /\ worker = [l \in Listeners |-> [w \in Workers |-> "none"]]
  BY WorkerIndices DEF Init
<1>5. TypeOK
  BY <1>1, <1>2, <1>3, <1>4 DEF TypeOK, WorkerStates
<1>6. WorkerInv
  BY <1>4, Zenon DEF WorkerInv, Gone
<1>7. ConnInv
  BY DEF Init, ConnInv, NoConn
<1> QED  BY <1>5, <1>6, <1>7 DEF IInv

\* Only the process, the engine or a flag of a loop changes.
LEMMA Quiet ==
  ASSUME IInv, UNCHANGED <<main, turn, i, worker, queue, conn>>,
         do_shutdown' \in BOOLEAN, crashed' \in BOOLEAN,
         joining' \in Listeners \cup {NULL}, w_async' \in [Listeners -> BOOLEAN],
         sent' = sent, brk' = brk
  PROVE  IInv'
<1>1. TypeOK'
  BY DEF IInv, TypeOK
<1>2. WorkerInv' /\ ConnInv'
  BY DEF IInv, WorkerInv, ConnInv
<1> QED  BY <1>1, <1>2 DEF IInv

LEMMA JoinStep ==
  ASSUME IInv, NEW l \in Listeners, Join(l)
  PROVE  IInv'
<1>1. CASE Crash
  BY <1>1, Quiet, Zenon DEF Crash, mainVars, workerVars, IInv, TypeOK
<1>2. CASE ~Crash
  <2>1. /\ do_shutdown' = TRUE /\ joining' = l
        /\ w_async' = [w_async EXCEPT ![l] = TRUE]
        /\ UNCHANGED <<crashed, main, turn, i, workerVars, queue, conn>>
    BY <1>2 DEF Join
  <2>2. w_async' \in [Listeners -> BOOLEAN] /\ crashed' \in BOOLEAN
    BY <2>1 DEF IInv, TypeOK
  <2> QED  BY <2>1, <2>2, Quiet DEF workerVars
<1> QED  BY <1>1, <1>2

\* A new listener, and its main thread until it runs.
LEMMA CreateStep ==
  ASSUME IInv, NEW l \in Listeners, Create(l)
  PROVE  IInv'
<1>t. TypeOK /\ WorkerInv /\ ConnInv
  BY DEF IInv
<1>1. /\ main[l] = "none" /\ main' = [main EXCEPT ![l] = "start"]
      /\ i' = [i EXCEPT ![l] = 0] /\ turn' = [turn EXCEPT ![l] = 0]
      /\ worker' = [worker EXCEPT ![l] = [w \in Workers |-> "none"]]
      /\ w_async' = [w_async EXCEPT ![l] = FALSE]
      /\ sent' = [sent EXCEPT ![l] = [w \in Workers |-> FALSE]]
      /\ brk' = [brk EXCEPT ![l] = [w \in Workers |-> FALSE]]
      /\ UNCHANGED <<do_shutdown, joining, crashed, queue, conn>>
  BY DEF Create
<1>2. TypeOK'
  <2>1. /\ w_async' \in [Listeners -> BOOLEAN]
        /\ sent' \in [Listeners -> [Workers -> BOOLEAN]]
        /\ brk' \in [Listeners -> [Workers -> BOOLEAN]]
    BY <1>t, <1>1 DEF TypeOK
  <2> QED  BY <1>t, <1>1, <2>1, WorkerIndices DEF TypeOK, WorkerStates
<1>3. WorkerInv'
  BY <1>t, <1>1 DEF TypeOK, WorkerInv, Gone
<1>4. ConnInv'
  <2>1. \A c \in Conns : conn[c].at \in {"queued", "watched"} => conn[c].l # l
    BY <1>t, <1>1, Zenon DEF ConnInv, WorkerInv, Serving, TypeOK
  <2> QED  BY <1>t, <1>1, <2>1 DEF ConnInv, TypeOK
<1> QED  BY <1>2, <1>3, <1>4 DEF IInv

LEMMA StartStep ==
  ASSUME IInv, NEW l \in Listeners, MainStart(l) \/ MainSetup(l)
  PROVE  IInv'
<1>t. TypeOK /\ WorkerInv /\ ConnInv
  BY DEF IInv
<1>1. CASE MainStart(l)
  <2>1. /\ main[l] = "start"
        /\ \E m \in {"setup", "ended"} : main' = [main EXCEPT ![l] = m]
        /\ UNCHANGED <<do_shutdown, joining, crashed, w_async, turn, i, worker,
                       sent, brk, queue, conn>>
    BY <1>1, Zenon DEF MainStart, workerVars
  <2>2. TypeOK'
    BY <1>t, <2>1 DEF TypeOK
  <2>3. WorkerInv'
    BY <1>t, <2>1 DEF TypeOK, WorkerInv, Serving
  <2>4. ConnInv'
    BY <1>t, <2>1 DEF ConnInv
  <2> QED  BY <2>2, <2>3, <2>4 DEF IInv
<1>2. CASE MainSetup(l)
  <2>1. /\ main[l] = "setup" /\ main' = [main EXCEPT ![l] = "run"]
        /\ w_async' = [w_async EXCEPT ![l] = FALSE]
        /\ UNCHANGED <<do_shutdown, joining, crashed, turn, i, sent, brk, queue, conn>>
    BY <1>2 DEF MainSetup
  <2>2. PICK created \in [Workers -> {"none", "unstarted", "wait"}] :
          worker' = [worker EXCEPT ![l] = created]
    BY <1>2, Zenon DEF MainSetup
  <2>3. TypeOK'
    <3>1. w_async' \in [Listeners -> BOOLEAN]
      BY <1>t, <2>1 DEF TypeOK
    <3>2. worker' \in [Listeners -> [Workers -> WorkerStates]]
      BY <1>t, <2>2 DEF TypeOK, WorkerStates
    <3> QED  BY <1>t, <2>1, <3>1, <3>2 DEF TypeOK
  <2>4. WorkerInv'
    BY <1>t, <2>1, <2>2 DEF TypeOK, WorkerInv, Serving
  <2>5. ConnInv'
    <3>1. \A c \in Conns : conn[c].at \in {"queued", "watched"} => conn[c].l # l
      BY <1>t, <2>1, Zenon DEF ConnInv, WorkerInv, Serving, TypeOK
    <3> QED  BY <1>t, <2>1, <2>2, <3>1 DEF ConnInv, TypeOK
  <2> QED  BY <2>3, <2>4, <2>5 DEF IInv
<1> QED  BY <1>1, <1>2

\* What is known of a connection.
ConnType == [at : {"none", "queued", "watched", "lost"},
             l : Listeners \cup {NULL}, w : Workers, answered : BOOLEAN]

\* accept_cb(), in its two parts.
LEMMA AcceptStep ==
  ASSUME IInv, NEW l \in Listeners, NEW c \in Conns, Accept(l, c)
  PROVE  IInv'
<1>t. TypeOK /\ WorkerInv /\ ConnInv
  BY DEF IInv
<1>1. CASE worker[l][turn[l]] = "none"
  <2>1. Crash
    BY <1>1 DEF Accept
  <2> QED  BY <2>1, Quiet, Zenon DEF Crash, mainVars, workerVars, IInv, TypeOK
<1>2. CASE worker[l][turn[l]] # "none"
  <2> DEFINE w == turn[l]
  <2>1. /\ main[l] = "run" /\ NextTurn(l)
        /\ conn' = [conn EXCEPT ![c] = [at |-> "queued", l |-> l, w |-> w,
                                        answered |-> FALSE]]
        /\ queue' = [queue EXCEPT ![l][w] = Append(@, c)]
        /\ i' = [i EXCEPT ![l] = w]
        /\ main' = [main EXCEPT ![l] = "wake"]
        /\ UNCHANGED <<do_shutdown, joining, crashed, w_async, worker, sent, brk>>
    BY <1>2 DEF Accept, workerVars
  <2>2. w \in Workers /\ w \in 0..THREADS
    BY <1>t, WorkerIndices, Zenon DEF TypeOK
  <2>3. worker[l][w] \notin Gone
    BY <1>t, <1>2, <2>1, <2>2 DEF WorkerInv, Gone
  <2> HIDE DEF w
  <2>4. turn' \in [Listeners -> Workers]
    <3>1. (IF turn[l] + 1 >= THREADS THEN 0 ELSE turn[l] + 1) \in Workers
      BY <1>t, WorkerIndices, Zenon DEF TypeOK
    <3> QED  BY <1>t, <2>1, <3>1 DEF TypeOK, NextTurn
  <2>5. queue' \in [Listeners -> [Workers -> Seq(Conns)]]
    <3>1. Append(queue[l][w], c) \in Seq(Conns)
      BY <1>t, <2>2 DEF TypeOK
    <3> QED  BY <1>t, <2>1, <2>2, <3>1 DEF TypeOK
  <2>6. conn' \in [Conns -> ConnType]
    BY <1>t, <2>1, <2>2 DEF TypeOK, ConnType
  <2>7. TypeOK'
    BY <1>t, <2>1, <2>2, <2>4, <2>5, <2>6 DEF TypeOK, ConnType
  <2>8. WorkerInv'
    BY <1>t, <2>1, <2>2 DEF TypeOK, WorkerInv, Serving
  <2>9. ConnInv'
    BY <1>t, <2>1, <2>3 DEF ConnInv, TypeOK
  <2> QED  BY <2>7, <2>8, <2>9 DEF IInv
<1> QED  BY <1>1, <1>2

LEMMA AcceptWakesStep ==
  ASSUME IInv, NEW l \in Listeners, AcceptWakes(l)
  PROVE  IInv'
<1>t. TypeOK /\ WorkerInv /\ ConnInv
  BY DEF IInv
<1>1. /\ main[l] = "wake" /\ main' = [main EXCEPT ![l] = "run"]
      /\ i' = [i EXCEPT ![l] = 0] /\ sent' = [sent EXCEPT ![l][i[l]] = TRUE]
      /\ UNCHANGED <<do_shutdown, joining, crashed, w_async, turn, worker, brk,
                     queue, conn>>
  BY DEF AcceptWakes
<1>2. TypeOK'
  <2>1. sent' \in [Listeners -> [Workers -> BOOLEAN]]
    BY <1>t, <1>1, Zenon DEF TypeOK
  <2> QED  BY <1>t, <1>1, <2>1, WorkerIndices DEF TypeOK
<1>3. WorkerInv'
  BY <1>t, <1>1 DEF TypeOK, WorkerInv, Serving
<1>4. ConnInv'
  BY <1>t, <1>1 DEF ConnInv
<1> QED  BY <1>2, <1>3, <1>4 DEF IInv

\* A connection that nobody watches, is read from or closed: every change of one
\* connection that is not handed over.
LEMMA ConnStep ==
  ASSUME IInv, NEW c \in Conns,
         (\E l \in Listeners : AcceptFails(l, c))
           \/ ReadData(c) \/ ReadEnd(c) \/ ReadNoResponse(c)
  PROVE  IInv'
<1>t. TypeOK /\ WorkerInv /\ ConnInv
  BY DEF IInv
<1>1. /\ UNCHANGED <<do_shutdown, joining, main, w_async, turn, i, worker, sent,
                     brk, queue>>
      /\ crashed' \in BOOLEAN
  BY <1>t DEF AcceptFails, ReadData, ReadEnd, ReadNoResponse, mainVars, workerVars,
     TypeOK
<1>2. PICK r \in ConnType :
        /\ conn' = [conn EXCEPT ![c] = r]
        /\ r.at \in {"queued", "watched"} =>
             conn[c].at = "watched" /\ r.l = conn[c].l /\ r.w = conn[c].w
  <2>1. NoConn \in ConnType /\ LostConn \in ConnType
    BY WorkerIndices DEF NoConn, LostConn, ConnType
  <2>2. CASE conn' = [conn EXCEPT ![c] = NoConn]
    BY <2>1, <2>2, Zenon DEF NoConn
  <2>3. CASE conn' = [conn EXCEPT ![c] = LostConn]
    BY <2>1, <2>3, Zenon DEF LostConn
  <2>4. CASE ReadData(c)
    <3> DEFINE r == [at |-> "watched", l |-> conn[c].l, w |-> conn[c].w,
                     answered |-> conn[c].answered \/ Response]
    <3>1. conn[c].at = "watched" /\ conn' = [conn EXCEPT ![c] = r]
      BY <2>4 DEF ReadData, Readable
    <3>2. (conn[c].answered \/ Response) \in BOOLEAN
      OBVIOUS
    <3>3. conn[c].l \in Listeners \cup {NULL} /\ conn[c].w \in Workers
      BY <1>t DEF TypeOK
    <3>4. r \in ConnType
      BY <3>2, <3>3 DEF ConnType
    <3> QED  BY <3>1, <3>4, Zenon
  <2> QED  BY <2>2, <2>3, <2>4 DEF AcceptFails, ReadEnd, ReadNoResponse, Closed
<1>3. conn' \in [Conns -> ConnType]
  BY <1>t, <1>2 DEF TypeOK, ConnType
<1>4. TypeOK'
  BY <1>t, <1>1, <1>3, Zenon DEF TypeOK, ConnType
<1>5. WorkerInv'
  BY <1>t, <1>1 DEF WorkerInv
<1>6. ConnInv'
  BY <1>t, <1>1, <1>2 DEF ConnInv, TypeOK
<1> QED  BY <1>4, <1>5, <1>6 DEF IInv

\* async_cb() of a worker.
LEMMA WorkerStepStep ==
  ASSUME IInv, NEW l \in Listeners, NEW w \in Workers, WorkerStep(l, w)
  PROVE  IInv'
<1>t. TypeOK /\ WorkerInv /\ ConnInv
  BY DEF IInv
<1>1. UNCHANGED <<do_shutdown, joining, crashed, main, w_async, turn, i>>
  BY DEF WorkerStep, WorkerWakes, WorkerTakes, WorkerDone, mainVars
<1>2. CASE WorkerWakes(l, w) \/ WorkerDone(l, w)
  <2>1. /\ UNCHANGED <<queue, conn>>
        /\ worker[l][w] \in {"wait", "drain"}
        /\ \E x \in {"wait", "drain", "ended"} :
             worker' = [worker EXCEPT ![l][w] = x]
    BY <1>2 DEF WorkerWakes, WorkerDone
  <2>2. /\ sent' \in [Listeners -> [Workers -> BOOLEAN]]
        /\ brk' \in [Listeners -> [Workers -> BOOLEAN]]
    <3>1. CASE WorkerWakes(l, w)
      BY <1>t, <3>1 DEF WorkerWakes, TypeOK
    <3>2. CASE WorkerDone(l, w)
      BY <1>t, <3>2 DEF WorkerDone, TypeOK
    <3> QED  BY <1>2, <3>1, <3>2
  <2>3. TypeOK'
    <3>1. worker' \in [Listeners -> [Workers -> WorkerStates]]
      BY <1>t, <2>1 DEF TypeOK, WorkerStates
    <3> QED  BY <1>t, <1>1, <2>1, <2>2, <3>1 DEF TypeOK
  <2>4. \A k \in Listeners, v \in Workers :
          /\ worker'[k][v] \in Gone <=> worker[k][v] \in Gone
          /\ worker[k][v] # "destroyed" => worker'[k][v] # "destroyed"
    BY <1>t, <2>1 DEF TypeOK, Gone
  <2>5. WorkerInv'
    BY <1>t, <1>1, <2>4 DEF WorkerInv
  <2>6. ConnInv'
    BY <1>t, <2>1, <2>4 DEF ConnInv, TypeOK
  <2> QED  BY <2>3, <2>5, <2>6 DEF IInv
<1>3. CASE WorkerTakes(l, w)
  <2>1. /\ worker[l][w] = "drain" /\ queue[l][w] # <<>>
        /\ queue' = [queue EXCEPT ![l][w] = Tail(@)]
        /\ conn' = [conn EXCEPT ![Head(queue[l][w])] =
                      [at |-> "watched", l |-> l, w |-> w, answered |-> FALSE]]
        /\ UNCHANGED <<worker, sent, brk>>
    BY <1>3 DEF WorkerTakes, workerVars
  <2>2. Head(queue[l][w]) \in Conns /\ Tail(queue[l][w]) \in Seq(Conns)
    BY <1>t, <2>1 DEF TypeOK
  <2>3. TypeOK'
    <3>1. queue' \in [Listeners -> [Workers -> Seq(Conns)]]
      BY <1>t, <2>1, <2>2 DEF TypeOK
    <3>2. conn' \in [Conns -> ConnType]
      BY <1>t, <2>1, <2>2 DEF TypeOK, ConnType
    <3> QED  BY <1>t, <1>1, <2>1, <3>1, <3>2 DEF TypeOK, ConnType
  <2>4. WorkerInv'
    BY <1>t, <1>1, <2>1 DEF WorkerInv
  <2>5. ConnInv'
    BY <1>t, <2>1, <2>2 DEF ConnInv, TypeOK, Gone
  <2> QED  BY <2>3, <2>4, <2>5 DEF IInv
<1> QED  BY <1>2, <1>3 DEF WorkerStep

\* The main thread leaves ev_run(), and goes through the workers.
LEMMA MainAsyncStep ==
  ASSUME IInv, NEW l \in Listeners, MainAsync(l)
  PROVE  IInv'
<1>t. TypeOK /\ WorkerInv /\ ConnInv
  BY DEF IInv
<1>1. /\ main[l] = "run" /\ w_async' = [w_async EXCEPT ![l] = FALSE]
      /\ \E m \in {"stop", "run"} : main' = [main EXCEPT ![l] = m]
      /\ UNCHANGED <<do_shutdown, joining, crashed, turn, i, worker, sent, brk,
                     queue, conn>>
  BY Zenon DEF MainAsync, workerVars
<1>2. TypeOK'
  <2>1. w_async' \in [Listeners -> BOOLEAN]
    BY <1>t, <1>1 DEF TypeOK
  <2> QED  BY <1>t, <1>1, <2>1 DEF TypeOK
<1>3. WorkerInv'
  BY <1>t, <1>1, WorkerIndices DEF TypeOK, WorkerInv, Serving
<1>4. ConnInv'
  BY <1>t, <1>1 DEF ConnInv
<1> QED  BY <1>2, <1>3, <1>4 DEF IInv

LEMMA StopWorkerStep ==
  ASSUME IInv, NEW l \in Listeners, StopWorker(l)
  PROVE  IInv'
<1>t. TypeOK /\ WorkerInv /\ ConnInv
  BY DEF IInv
<1>1. /\ main[l] = "stop" /\ i[l] < THREADS
      /\ UNCHANGED <<do_shutdown, joining, crashed, w_async, turn, worker, brk,
                     queue, conn>>
  BY DEF StopWorker
<1>2. i[l] \in 0..THREADS /\ i[l] \in Workers /\ i[l] + 1 \in 0..THREADS
  BY <1>t, <1>1, WorkerIndices DEF TypeOK
<1>3. ConnInv'
  BY <1>t, <1>1 DEF ConnInv
<1>4. CASE worker[l][i[l]] = "none"
  <2>1. i' = [i EXCEPT ![l] = i[l] + 1] /\ main' = main /\ sent' = sent
    BY <1>4 DEF StopWorker
  <2>2. TypeOK'
    BY <1>t, <1>1, <1>2, <2>1 DEF TypeOK
  <2>3. \A w \in Workers : w < i[l] + 1 => worker[l][w] \in Gone
    BY <1>t, <1>1, <1>2, <1>4, WorkerIndices, Zenon DEF WorkerInv, Gone
  <2>4. WorkerInv'
    BY <1>t, <1>1, <2>1, <2>3 DEF WorkerInv, TypeOK
  <2> QED  BY <1>3, <2>2, <2>4 DEF IInv
<1>5. CASE worker[l][i[l]] # "none"
  <2>1. /\ sent' = [sent EXCEPT ![l][i[l]] = TRUE]
        /\ main' = [main EXCEPT ![l] = "join"] /\ i' = i
    BY <1>5 DEF StopWorker
  <2>2. TypeOK'
    <3>1. sent' \in [Listeners -> [Workers -> BOOLEAN]]
      BY <1>t, <2>1, Zenon DEF TypeOK
    <3> QED  BY <1>t, <1>1, <2>1, <3>1 DEF TypeOK
  <2>3. WorkerInv'
    BY <1>t, <1>1, <1>2, <2>1 DEF WorkerInv, TypeOK, Serving
  <2> QED  BY <1>3, <2>2, <2>3 DEF IInv
<1> QED  BY <1>4, <1>5

LEMMA DestroyStep ==
  ASSUME IInv, NEW l \in Listeners, main[l] = "join", DestroyLoop(l),
         UNCHANGED <<do_shutdown, joining, crashed, w_async, turn, sent, brk>>
  PROVE  IInv'
<1>t. TypeOK /\ WorkerInv /\ ConnInv
  BY DEF IInv
<1> DEFINE j == i[l]
<1>1. /\ main[l] = "join" /\ main' = [main EXCEPT ![l] = "stop"]
      /\ worker' = [worker EXCEPT ![l][j] = "destroyed"]
      /\ conn' = [c \in Conns |-> IF c \in ConnsOf(l, j) THEN LostConn ELSE conn[c]]
      /\ queue' = [queue EXCEPT ![l][j] = <<>>]
      /\ i' = [i EXCEPT ![l] = j + 1]
      /\ UNCHANGED <<do_shutdown, joining, crashed, w_async, turn, sent, brk>>
  BY DEF DestroyLoop
<1>2. j \in Workers /\ j \in 0..THREADS /\ j + 1 \in 0..THREADS
  BY <1>t, <1>1, WorkerIndices DEF WorkerInv
<1>3. \A w \in Workers : w < j => worker[l][w] \in Gone
  BY <1>t, <1>1 DEF WorkerInv
<1> HIDE DEF j
<1>4. TypeOK'
  <2>1. queue' \in [Listeners -> [Workers -> Seq(Conns)]]
    <3>1. <<>> \in Seq(Conns)
      OBVIOUS
    <3> QED  BY <1>t, <1>1, <1>2, <3>1 DEF TypeOK
  <2>2. conn' \in [Conns -> ConnType]
    <3>1. LostConn \in ConnType
      BY WorkerIndices DEF LostConn, ConnType
    <3>2. \A c \in Conns : conn[c] \in ConnType
      BY <1>t DEF TypeOK, ConnType
    <3> QED  BY <1>1, <3>1, <3>2
  <2>3. worker' \in [Listeners -> [Workers -> WorkerStates]]
    BY <1>t, <1>1, <1>2 DEF TypeOK, WorkerStates
  <2> QED  BY <1>t, <1>1, <1>2, <2>1, <2>2, <2>3 DEF TypeOK, ConnType
<1>5. /\ \A k \in Listeners, w \in Workers :
           worker'[k][w] = IF k = l /\ w = j THEN "destroyed" ELSE worker[k][w]
      /\ \A k \in Listeners : k # l => main'[k] = main[k] /\ i'[k] = i[k]
      /\ main'[l] = "stop" /\ i'[l] = j + 1
  BY <1>t, <1>1, <1>2 DEF TypeOK
<1>6. WorkerInv'
  <2>1. \A w \in Workers : w < j + 1 => worker'[l][w] \in Gone
    BY <1>2, <1>3, <1>5, WorkerIndices DEF Gone
  <2>2. ASSUME NEW k \in Listeners, k # l
        PROVE  /\ main'[k] \in {"start", "setup", "run"} => i'[k] = 0
               /\ main'[k] \in {"wake", "join"} => i'[k] \in Workers
               /\ \A w \in Workers :
                    /\ worker'[k][w] \notin Gone => main'[k] \in Serving
                    /\ main'[k] \in {"run", "wake"} => worker'[k][w] # "destroyed"
                    /\ main'[k] \in {"stop", "join"} /\ w < i'[k] => worker'[k][w] \in Gone
    BY <1>t, <1>5, <2>2 DEF WorkerInv
  <2> QED  BY <1>5, <2>1, <2>2 DEF WorkerInv, Serving
<1>7. ConnInv'
  <2> SUFFICES ASSUME NEW c \in Conns, conn'[c].at \in {"queued", "watched"}
               PROVE  conn'[c].l \in Listeners /\ worker'[conn'[c].l][conn'[c].w] \notin Gone
    BY DEF ConnInv
  <2>1. c \notin ConnsOf(l, j) /\ conn'[c] = conn[c]
    BY <1>1 DEF LostConn
  <2>2. conn[c].l \in Listeners /\ conn[c].w \in Workers /\ ~(conn[c].l = l /\ conn[c].w = j)
    BY <1>t, <2>1 DEF ConnInv, ConnsOf, TypeOK
  <2> QED  BY <1>t, <1>5, <2>1, <2>2 DEF ConnInv
<1> QED  BY <1>4, <1>6, <1>7 DEF IInv

LEMMA JoinWorkerStep ==
  ASSUME IInv, NEW l \in Listeners, JoinWorker(l) \/ JoinUnstarted(l)
  PROVE  IInv'
<1>1. CASE Crash
  BY <1>1, Quiet, Zenon DEF Crash, mainVars, workerVars, IInv, TypeOK
<1>2. CASE ~Crash
  BY <1>2, DestroyStep DEF JoinWorker, JoinUnstarted
<1> QED  BY <1>1, <1>2

LEMMA EndStep ==
  ASSUME IInv, NEW l \in Listeners, MainEnds(l) \/ JoinEnds(l)
  PROVE  IInv'
<1>t. TypeOK /\ WorkerInv /\ ConnInv
  BY DEF IInv
<1>1. /\ UNCHANGED <<do_shutdown, crashed, w_async, turn, i, worker, sent, brk,
                     queue, conn>>
      /\ joining' \in Listeners \cup {NULL}
      /\ \E m \in {"ended", "none"} : main' = [main EXCEPT ![l] = m]
  BY <1>t DEF MainEnds, JoinEnds, workerVars, TypeOK
<1>2. \A w \in Workers : worker[l][w] \in Gone
  <2>1. CASE MainEnds(l)
    BY <1>t, <2>1, WorkerIndices DEF MainEnds, WorkerInv
  <2>2. CASE JoinEnds(l)
    BY <1>t, <2>2 DEF JoinEnds, WorkerInv, Serving
  <2> QED  BY <2>1, <2>2
<1>3. TypeOK'
  BY <1>t, <1>1 DEF TypeOK
<1>4. WorkerInv'
  BY <1>t, <1>1, <1>2 DEF WorkerInv, TypeOK
<1>5. ConnInv'
  BY <1>t, <1>1 DEF ConnInv
<1> QED  BY <1>3, <1>4, <1>5 DEF IInv
-----------------------------------------------------------------------------
\* The main thread stops its workers, and they stop, only after do_shutdown; a
\* loop is destroyed only when its turn has come.
StopInv ==
  \A l \in Listeners :
    /\ main[l] \in {"stop", "join"} => do_shutdown
    /\ main[l] = "join" => WillEnd(l, i[l])
    /\ \A w \in Workers :
         /\ brk[l][w] => do_shutdown
         /\ worker[l][w] = "ended" => brk[l][w]
         /\ main[l] \in {"stop", "join"} /\ worker[l][w] = "destroyed" => w < i[l]

WakeInv ==
  /\ \A c \in Conns : HandedOver(c)
  /\ \A l \in Listeners, w \in Workers : QueueOf(l, w)
  /\ StopInv

LEMMA InitWakeInv == Init => WakeInv
<1> SUFFICES ASSUME Init PROVE WakeInv
  OBVIOUS
<1>1. \A c \in Conns : HandedOver(c)
  BY DEF Init, HandedOver, NoConn
<1>2. \A l \in Listeners, w \in Workers : QueueOf(l, w)
  BY DEF Init, QueueOf
<1>3. StopInv
  BY Zenon DEF Init, StopInv
<1> QED  BY <1>1, <1>2, <1>3 DEF WakeInv

\* A queue whose connections stay.
LEMMA QueueStays ==
  ASSUME NEW k, NEW v, QueueOf(k, v), queue'[k][v] = queue[k][v],
         \A n \in DOMAIN queue[k][v] : conn'[queue[k][v][n]] = conn[queue[k][v][n]]
  PROVE  QueueOf(k, v)'
BY DEF QueueOf

\* A connection that stays in its queue.
LEMMA ConnStays ==
  ASSUME NEW c, conn'[c] = conn[c],
         conn[c].at = "queued" =>
           /\ \E n \in DOMAIN queue'[conn[c].l][conn[c].w] :
                queue'[conn[c].l][conn[c].w][n] = c
           /\ WillLook(conn[c].l, conn[c].w)'
  PROVE  HandedOver(c)'
BY DEF HandedOver

\* Queues and connections stay; no worker stops looking.
LEMMA HandoverStays ==
  ASSUME WakeInv, UNCHANGED <<queue, conn>>,
         \A c \in Conns : conn[c].at = "queued" /\ WillLook(conn[c].l, conn[c].w)
                            => WillLook(conn[c].l, conn[c].w)'
  PROVE  /\ \A c \in Conns : HandedOver(c)'
         /\ \A l \in Listeners, w \in Workers : QueueOf(l, w)'
<1>1. ASSUME NEW c \in Conns PROVE HandedOver(c)'
  BY DEF WakeInv, HandedOver
<1>2. ASSUME NEW l \in Listeners, NEW w \in Workers PROVE QueueOf(l, w)'
  BY DEF WakeInv, QueueOf
<1> QED  BY <1>1, <1>2

\* do_shutdown is set, the engine joins, or the process is gone.
LEMMA WakeQuiet ==
  ASSUME WakeInv, UNCHANGED <<main, i, worker, sent, brk, queue, conn>>,
         do_shutdown => do_shutdown'
  PROVE  WakeInv'
<1>1. \A c \in Conns : WillLook(conn[c].l, conn[c].w) => WillLook(conn[c].l, conn[c].w)'
  BY DEF WillLook
<1>2. StopInv'
  BY DEF WakeInv, StopInv, WillEnd
<1> QED  BY <1>1, <1>2, HandoverStays DEF WakeInv

\* A listener that starts has no connection yet.
LEMMA WakeStart ==
  ASSUME IInv, WakeInv, NEW l \in Listeners, Create(l) \/ MainStart(l) \/ MainSetup(l)
  PROVE  WakeInv'
<1>t. TypeOK /\ WorkerInv /\ ConnInv /\ StopInv
  BY DEF IInv, WakeInv
<1>1. /\ main[l] \in {"none", "start", "setup"}
      /\ \E m \in {"start", "setup", "ended", "run"} : main' = [main EXCEPT ![l] = m]
      /\ UNCHANGED <<do_shutdown, queue, conn>>
  BY DEF Create, MainStart, MainSetup
<1>2. \A k \in Listeners : k # l =>
        /\ main'[k] = main[k] /\ i'[k] = i[k] /\ worker'[k] = worker[k]
        /\ sent'[k] = sent[k] /\ brk'[k] = brk[k]
  BY <1>t, <1>1 DEF TypeOK, Create, MainStart, MainSetup, workerVars
<1>3. \A c \in Conns : conn[c].at = "queued" => conn[c].l \in Listeners /\ conn[c].l # l
  BY <1>t, <1>1, Zenon DEF ConnInv, WorkerInv, Serving, TypeOK
<1>4. \A c \in Conns : conn[c].at = "queued" /\ WillLook(conn[c].l, conn[c].w)
                          => WillLook(conn[c].l, conn[c].w)'
  BY <1>1, <1>2, <1>3 DEF WillLook
<1>5. /\ main'[l] \notin {"stop", "join"}
      /\ \A w \in Workers : worker'[l][w] # "ended" /\ (brk'[l][w] => do_shutdown')
  <2>1. main'[l] \notin {"stop", "join"}
    BY <1>t, <1>1 DEF TypeOK
  <2>2. \A w \in Workers : worker[l][w] \in Gone
    BY <1>t, <1>1 DEF WorkerInv, Serving
  <2>3. \A w \in Workers : worker'[l][w] # "ended"
    <3>1. CASE Create(l)
      BY <1>t, <3>1 DEF Create, TypeOK
    <3>2. CASE MainStart(l)
      BY <2>2, <3>2 DEF MainStart, workerVars, Gone
    <3>3. CASE MainSetup(l)
      <4>1. PICK created \in [Workers -> {"none", "unstarted", "wait"}] :
              worker' = [worker EXCEPT ![l] = created]
        BY <3>3, Zenon DEF MainSetup
      <4> QED  BY <1>t, <4>1 DEF TypeOK
    <3> QED  BY <3>1, <3>2, <3>3
  <2>4. \A w \in Workers : brk'[l][w] => do_shutdown'
    <3>1. CASE Create(l)
      BY <1>t, <3>1 DEF Create, TypeOK
    <3>2. CASE MainStart(l) \/ MainSetup(l)
      BY <1>t, <1>1, <3>2 DEF MainStart, MainSetup, workerVars, StopInv
    <3> QED  BY <3>1, <3>2
  <2> QED  BY <2>1, <2>3, <2>4
<1>6. StopInv'
  <2> SUFFICES ASSUME NEW k \in Listeners
               PROVE  /\ main'[k] \in {"stop", "join"} => do_shutdown'
                      /\ main'[k] = "join" => WillEnd(k, i[k])'
                      /\ \A w \in Workers :
                           /\ brk'[k][w] => do_shutdown'
                           /\ worker'[k][w] = "ended" => brk'[k][w]
                           /\ main'[k] \in {"stop", "join"} /\ worker'[k][w] = "destroyed" => w < i'[k]
    BY DEF StopInv
  <2>1. CASE k = l
    BY <1>5, <2>1
  <2>2. CASE k # l
    BY <1>t, <1>1, <1>2, <2>2 DEF StopInv, WillEnd
  <2> QED  BY <2>1, <2>2
<1> QED  BY <1>1, <1>4, <1>6, HandoverStays DEF WakeInv

\* accept_cb() puts a new connection at the end of a queue.
LEMMA WakeAccept ==
  ASSUME IInv, WakeInv, NEW l \in Listeners, NEW c \in Conns, Accept(l, c)
  PROVE  WakeInv'
<1>t. TypeOK /\ WorkerInv /\ ConnInv /\ StopInv
  BY DEF IInv, WakeInv
<1>1. CASE worker[l][turn[l]] = "none"
  <2>1. Crash
    BY <1>1 DEF Accept
  <2> QED  BY <2>1, WakeQuiet DEF Crash, mainVars, workerVars
<1>2. CASE worker[l][turn[l]] # "none"
  <2>1. PICK w \in Workers :
          /\ main[l] = "run" /\ conn[c].at = "none"
          /\ conn' = [conn EXCEPT ![c] = [at |-> "queued", l |-> l, w |-> w,
                                          answered |-> FALSE]]
          /\ queue' = [queue EXCEPT ![l][w] = Append(@, c)]
          /\ i' = [i EXCEPT ![l] = w]
          /\ main' = [main EXCEPT ![l] = "wake"]
          /\ UNCHANGED <<do_shutdown, worker, sent, brk>>
    BY <1>t, <1>2 DEF Accept, workerVars, TypeOK
  <2>2. PICK q \in Seq(Conns) : q = queue[l][w]
    BY <1>t DEF TypeOK
  <2>3. /\ Append(q, c) \in Seq(Conns) /\ DOMAIN Append(q, c) = 1..(Len(q) + 1)
        /\ DOMAIN q = 1..Len(q) /\ Len(q) \in Nat
        /\ \A n \in 1..Len(q) : Append(q, c)[n] = q[n]
        /\ Append(q, c)[Len(q) + 1] = c
    OBVIOUS
  <2>4. /\ queue'[l][w] = Append(q, c)
        /\ \A k \in Listeners, v \in Workers : k # l \/ v # w => queue'[k][v] = queue[k][v]
    BY <1>t, <2>1, <2>2 DEF TypeOK
  <2>5. /\ conn'[c].at = "queued" /\ conn'[c].l = l /\ conn'[c].w = w
        /\ \A d \in Conns : d # c => conn'[d] = conn[d]
    BY <1>t, <2>1 DEF TypeOK
  <2>6. \A k \in Listeners, v \in Workers : \A n \in DOMAIN queue[k][v] :
          queue[k][v][n] # c
    BY <2>1 DEF WakeInv, QueueOf
  <2>7. ASSUME NEW k \in Listeners, NEW v \in Workers, WillLook(k, v)
        PROVE  WillLook(k, v)'
    BY <1>t, <2>1, <2>7 DEF WillLook, TypeOK
  <2>8. ASSUME NEW d \in Conns PROVE HandedOver(d)'
    <3>1. CASE d = c
      <4>1. WillLook(l, w)'
        BY <1>t, <2>1 DEF WillLook, TypeOK
      <4>2. \E n \in DOMAIN queue'[l][w] : queue'[l][w][n] = c
        BY <2>3, <2>4
      <4> QED  BY <3>1, <2>5, <4>1, <4>2 DEF HandedOver
    <3>2. CASE d # c /\ conn[d].at = "queued"
      <4>1. conn'[d] = conn[d] /\ conn[d].l \in Listeners /\ conn[d].w \in Workers
        BY <1>t, <2>5, <3>2 DEF ConnInv, TypeOK
      <4>2. PICK n \in DOMAIN queue[conn[d].l][conn[d].w] : queue[conn[d].l][conn[d].w][n] = d
        BY <3>2 DEF WakeInv, HandedOver
      <4>3. n \in DOMAIN queue'[conn[d].l][conn[d].w] /\ queue'[conn[d].l][conn[d].w][n] = d
        <5>1. CASE conn[d].l = l /\ conn[d].w = w
          <6>1. n \in DOMAIN q /\ q[n] = d
            BY <2>2, <4>2, <5>1
          <6>2. n \in 1..Len(q) /\ n \in 1..(Len(q) + 1)
            BY <2>3, <6>1
          <6>3. n \in DOMAIN Append(q, c) /\ Append(q, c)[n] = d
            BY <2>3, <6>1, <6>2
          <6> QED  BY <2>4, <5>1, <6>3
        <5>2. CASE ~(conn[d].l = l /\ conn[d].w = w)
          BY <2>4, <4>1, <4>2, <5>2
        <5> QED  BY <5>1, <5>2
      <4>4. WillLook(conn[d].l, conn[d].w)'
        BY <2>7, <3>2, <4>1 DEF WakeInv, HandedOver
      <4> QED  BY <4>1, <4>3, <4>4 DEF HandedOver
    <3>3. CASE d # c /\ conn[d].at # "queued"
      BY <2>5, <3>3 DEF HandedOver
    <3> QED  BY <3>1, <3>2, <3>3
  <2>9. ASSUME NEW k \in Listeners, NEW v \in Workers PROVE QueueOf(k, v)'
    <3>1. \A n \in DOMAIN queue[k][v] : queue[k][v][n] \in Conns
      BY <1>t DEF TypeOK
    <3>2. QueueOf(k, v)
      BY DEF WakeInv
    <3>3. \A n \in DOMAIN queue[k][v] : conn'[queue[k][v][n]] = conn[queue[k][v][n]]
      BY <2>5, <2>6, <3>1
    <3>4. CASE k # l \/ v # w
      BY <2>4, <3>2, <3>3, <3>4, QueueStays
    <3>5. CASE k = l /\ v = w
      <4> SUFFICES ASSUME NEW n \in 1..(Len(q) + 1)
                   PROVE  /\ conn'[Append(q, c)[n]].at = "queued"
                          /\ conn'[Append(q, c)[n]].l = l /\ conn'[Append(q, c)[n]].w = w
                          /\ \A m \in 1..(Len(q) + 1) :
                               Append(q, c)[m] = Append(q, c)[n] => m = n
        BY <2>3, <2>4, <3>5 DEF QueueOf
      <4>1. \A m \in 1..(Len(q) + 1) : m \in 1..Len(q) \/ m = Len(q) + 1
        BY <2>3
      <4>2. \A m \in 1..Len(q) : q[m] # c
        BY <2>2, <2>3, <2>6
      <4>3. CASE n = Len(q) + 1
        BY <2>3, <2>5, <4>1, <4>2, <4>3
      <4>4. CASE n \in 1..Len(q)
        <5>1. /\ conn[q[n]].at = "queued" /\ conn[q[n]].l = l /\ conn[q[n]].w = w
              /\ \A m \in 1..Len(q) : q[m] = q[n] => m = n
          BY <2>2, <2>3, <3>2, <3>5, <4>4 DEF QueueOf
        <5>2. conn'[q[n]] = conn[q[n]] /\ Append(q, c)[n] = q[n] /\ q[n] # c
          BY <2>2, <2>3, <3>3, <3>5, <4>2, <4>4
        <5> QED  BY <2>3, <4>1, <5>1, <5>2
      <4> QED  BY <4>1, <4>3, <4>4
    <3> QED  BY <3>4, <3>5
  <2>10. StopInv'
    BY <1>t, <2>1 DEF StopInv, WillEnd, TypeOK
  <2> QED  BY <2>8, <2>9, <2>10 DEF WakeInv
<1> QED  BY <1>1, <1>2

\* accept_cb() sends the wake-up; a worker that looks goes on looking.
LEMMA WakeAcceptWakes ==
  ASSUME IInv, WakeInv, NEW l \in Listeners, AcceptWakes(l)
  PROVE  WakeInv'
<1>t. TypeOK /\ WorkerInv /\ ConnInv /\ StopInv
  BY DEF IInv, WakeInv
<1>1. /\ main[l] = "wake" /\ main' = [main EXCEPT ![l] = "run"]
      /\ i' = [i EXCEPT ![l] = 0] /\ sent' = [sent EXCEPT ![l][i[l]] = TRUE]
      /\ UNCHANGED <<do_shutdown, worker, brk, queue, conn>>
  BY DEF AcceptWakes
<1>2. i[l] \in Workers
  BY <1>t, <1>1 DEF WorkerInv
<1>3. /\ sent'[l][i[l]]
      /\ \A k \in Listeners, v \in Workers : sent[k][v] => sent'[k][v]
  BY <1>t, <1>1, <1>2 DEF TypeOK
<1>4. \A c \in Conns : conn[c].at = "queued" => conn[c].l \in Listeners /\ conn[c].w \in Workers
  BY <1>t DEF ConnInv, TypeOK
<1>5. \A k \in Listeners, v \in Workers : WillLook(k, v) => WillLook(k, v)'
  BY <1>t, <1>1, <1>3 DEF WillLook, TypeOK
<1>6. \A c \in Conns : conn[c].at = "queued" /\ WillLook(conn[c].l, conn[c].w)
                          => WillLook(conn[c].l, conn[c].w)'
  BY <1>1, <1>4, <1>5
<1>7. StopInv'
  BY <1>t, <1>1 DEF StopInv, WillEnd, TypeOK
<1> QED  BY <1>1, <1>6, <1>7, HandoverStays DEF WakeInv

\* A connection that is in no queue is lost, read from or closed.
LEMMA WakeConn ==
  ASSUME IInv, WakeInv, NEW c \in Conns,
         (\E l \in Listeners : AcceptFails(l, c))
           \/ ReadData(c) \/ ReadEnd(c) \/ ReadNoResponse(c)
  PROVE  WakeInv'
<1>t. TypeOK /\ WorkerInv /\ ConnInv /\ StopInv
  BY DEF IInv, WakeInv
<1>1. UNCHANGED <<do_shutdown, main, i, worker, sent, brk, queue>>
  BY DEF AcceptFails, ReadData, ReadEnd, ReadNoResponse, mainVars, workerVars
<1>2. conn[c].at # "queued"
  BY DEF AcceptFails, ReadData, ReadEnd, ReadNoResponse, Readable
<1>3. conn'[c].at # "queued" /\ \A d \in Conns : d # c => conn'[d] = conn[d]
  <2>1. CASE conn' = [conn EXCEPT ![c] = NoConn]
    BY <1>t, <2>1 DEF NoConn, TypeOK
  <2>2. CASE conn' = [conn EXCEPT ![c] = LostConn]
    BY <1>t, <2>2 DEF LostConn, TypeOK
  <2>3. CASE ReadData(c)
    BY <1>t, <2>3 DEF ReadData, TypeOK
  <2> QED  BY <2>1, <2>2, <2>3 DEF AcceptFails, ReadEnd, ReadNoResponse, Closed
<1>4. ASSUME NEW d \in Conns PROVE HandedOver(d)'
  <2>1. CASE d = c
    BY <1>3, <2>1 DEF HandedOver
  <2>2. CASE d # c
    <3>1. HandedOver(d) /\ conn'[d] = conn[d]
      BY <1>3, <2>2 DEF WakeInv
    <3>2. WillLook(conn[d].l, conn[d].w) => WillLook(conn[d].l, conn[d].w)'
      BY <1>1, <3>1 DEF WillLook
    <3> QED  BY <1>1, <3>1, <3>2, ConnStays DEF HandedOver
  <2> QED  BY <2>1, <2>2
<1>5. ASSUME NEW k \in Listeners, NEW v \in Workers PROVE QueueOf(k, v)'
  <2>1. \A n \in DOMAIN queue[k][v] : queue[k][v][n] \in Conns /\ queue[k][v][n] # c
    <3>1. QueueOf(k, v)
      BY DEF WakeInv
    <3> QED  BY <1>t, <1>2, <3>1 DEF TypeOK, QueueOf
  <2>2. \A n \in DOMAIN queue[k][v] : conn'[queue[k][v][n]] = conn[queue[k][v][n]]
    BY <1>3, <2>1
  <2> QED  BY <1>1, <2>2, QueueStays DEF WakeInv
<1>6. StopInv'
  BY <1>t, <1>1 DEF StopInv, WillEnd
<1> QED  BY <1>4, <1>5, <1>6 DEF WakeInv

\* async_cb() of a worker takes its queue from the front, and returns when nothing
\* is left in it.
LEMMA WakeTakes ==
  ASSUME IInv, WakeInv, NEW l \in Listeners, NEW w \in Workers, WorkerTakes(l, w)
  PROVE  WakeInv'
<1>t. TypeOK /\ WorkerInv /\ ConnInv /\ StopInv
  BY DEF IInv, WakeInv
<1>1. /\ worker[l][w] = "drain" /\ queue[l][w] # <<>>
      /\ queue' = [queue EXCEPT ![l][w] = Tail(@)]
      /\ conn' = [conn EXCEPT ![Head(queue[l][w])] =
                    [at |-> "watched", l |-> l, w |-> w, answered |-> FALSE]]
      /\ UNCHANGED <<do_shutdown, main, i, worker, sent, brk>>
  BY DEF WorkerTakes, workerVars, mainVars
<1>2. PICK q \in Seq(Conns) : q = queue[l][w] /\ q # <<>>
  BY <1>t, <1>1 DEF TypeOK
<1>3. /\ Tail(q) \in Seq(Conns) /\ DOMAIN Tail(q) = 1..(Len(q) - 1)
      /\ DOMAIN q = 1..Len(q) /\ Len(q) \in Nat /\ Len(q) >= 1
      /\ \A n \in 1..(Len(q) - 1) : Tail(q)[n] = q[n + 1]
      /\ Head(q) = q[1] /\ q[1] \in Conns
  BY <1>2
<1>4. /\ queue'[l][w] = Tail(q)
      /\ \A k \in Listeners, v \in Workers : k # l \/ v # w => queue'[k][v] = queue[k][v]
  BY <1>t, <1>1, <1>2 DEF TypeOK
<1>5. PICK c \in Conns : c = q[1]
  BY <1>3
<1>6. conn'[c].at = "watched" /\ \A d \in Conns : d # c => conn'[d] = conn[d]
  BY <1>t, <1>1, <1>2, <1>3, <1>5 DEF TypeOK
<1>7. QueueOf(l, w) /\ conn[c].at = "queued" /\ conn[c].l = l /\ conn[c].w = w
  <2>1. QueueOf(l, w) /\ 1 \in DOMAIN q
    BY <1>3 DEF WakeInv
  <2> QED  BY <1>2, <1>5, <2>1 DEF QueueOf
<1>8. ASSUME NEW d \in Conns PROVE HandedOver(d)'
  <2>1. CASE d = c \/ conn[d].at # "queued"
    BY <1>6, <2>1 DEF HandedOver
  <2>2. CASE d # c /\ conn[d].at = "queued"
    <3>1. conn'[d] = conn[d] /\ conn[d].l \in Listeners /\ conn[d].w \in Workers
      BY <1>t, <1>6, <2>2 DEF ConnInv, TypeOK
    <3>2. PICK n \in DOMAIN queue[conn[d].l][conn[d].w] : queue[conn[d].l][conn[d].w][n] = d
      BY <2>2 DEF WakeInv, HandedOver
    <3>3. \E m \in DOMAIN queue'[conn[d].l][conn[d].w] : queue'[conn[d].l][conn[d].w][m] = d
      <4>1. CASE conn[d].l = l /\ conn[d].w = w
        <5>1. n \in 1..Len(q) /\ q[n] = d
          BY <1>2, <1>3, <3>2, <4>1
        <5>2. n # 1
          BY <1>5, <2>2, <5>1
        <5>3. n - 1 \in 1..(Len(q) - 1) /\ (n - 1) + 1 = n
          BY <1>3, <5>1, <5>2
        <5>4. n - 1 \in DOMAIN Tail(q) /\ Tail(q)[n - 1] = d
          BY <1>3, <5>1, <5>3
        <5> QED  BY <1>4, <4>1, <5>4
      <4>2. CASE ~(conn[d].l = l /\ conn[d].w = w)
        BY <1>4, <3>1, <3>2, <4>2
      <4> QED  BY <4>1, <4>2
    <3>4. WillLook(conn[d].l, conn[d].w)'
      BY <1>1, <2>2, <3>1 DEF WakeInv, HandedOver, WillLook
    <3> QED  BY <3>1, <3>3, <3>4 DEF HandedOver
  <2> QED  BY <2>1, <2>2
<1>9. ASSUME NEW k \in Listeners, NEW v \in Workers PROVE QueueOf(k, v)'
  <2>1. \A n \in DOMAIN queue[k][v] : queue[k][v][n] \in Conns
    BY <1>t DEF TypeOK
  <2>2. QueueOf(k, v)
    BY DEF WakeInv
  <2>3. CASE k # l \/ v # w
    <3>1. \A n \in DOMAIN queue[k][v] : queue[k][v][n] # c
      BY <1>7, <2>2, <2>3 DEF QueueOf
    <3>2. \A n \in DOMAIN queue[k][v] : conn'[queue[k][v][n]] = conn[queue[k][v][n]]
      BY <1>6, <2>1, <3>1
    <3> QED  BY <1>4, <2>2, <2>3, <3>2, QueueStays
  <2>4. CASE k = l /\ v = w
    <3>0. PICK t \in Seq(Conns) :
            /\ DOMAIN t = 1..(Len(q) - 1) /\ queue'[l][w] = t
            /\ \A n \in 1..(Len(q) - 1) : t[n] = q[n + 1]
      BY <1>3, <1>4, Zenon
    <3> SUFFICES ASSUME NEW n \in 1..(Len(q) - 1)
                 PROVE  /\ conn'[t[n]].at = "queued"
                        /\ conn'[t[n]].l = l /\ conn'[t[n]].w = w
                        /\ \A m \in 1..(Len(q) - 1) : t[m] = t[n] => m = n
      BY <2>4, <3>0 DEF QueueOf
    <3>1. \A m \in 1..(Len(q) - 1) : m + 1 \in 1..Len(q) /\ m + 1 # 1 /\ m \in Int
      BY <1>3
    <3>2. \A m1, m2 \in 1..Len(q) : q[m1] = q[m2] => m1 = m2
      BY <1>2, <1>3, <1>7, Zenon DEF QueueOf
    <3>3. \A m \in 1..(Len(q) - 1) : q[m + 1] # c /\ q[m + 1] \in Conns
      <4>1. 1 \in 1..Len(q)
        BY <1>3
      <4>2. \A m \in 1..Len(q) : q[m] \in Conns
        BY <1>2
      <4> QED  BY <1>5, <3>1, <3>2, <4>1, <4>2
    <3>4. conn'[q[n + 1]] = conn[q[n + 1]]
      BY <1>6, <3>3
    <3>5. /\ conn[q[n + 1]].at = "queued"
          /\ conn[q[n + 1]].l = l /\ conn[q[n + 1]].w = w
      BY <1>2, <1>3, <1>7, <3>1 DEF QueueOf
    <3>6. \A m \in 1..(Len(q) - 1) : q[m + 1] = q[n + 1] => m = n
      <4> SUFFICES ASSUME NEW m \in 1..(Len(q) - 1), q[m + 1] = q[n + 1] PROVE m = n
        OBVIOUS
      <4>1. m + 1 = n + 1
        BY <3>1, <3>2
      <4> QED  BY <3>1, <4>1
    <3> QED  BY <3>0, <3>4, <3>5, <3>6
  <2> QED  BY <2>3, <2>4
<1>10. StopInv'
  BY <1>t, <1>1 DEF StopInv, WillEnd
<1> QED  BY <1>8, <1>9, <1>10 DEF WakeInv

LEMMA WakeWorker ==
  ASSUME IInv, WakeInv, NEW l \in Listeners, NEW w \in Workers,
         WorkerWakes(l, w) \/ WorkerDone(l, w)
  PROVE  WakeInv'
<1>t. TypeOK /\ WorkerInv /\ ConnInv /\ StopInv
  BY DEF IInv, WakeInv
<1>1. UNCHANGED <<do_shutdown, main, i, queue, conn>>
  BY DEF WorkerWakes, WorkerDone, mainVars
<1>2. \A k \in Listeners, v \in Workers : k # l \/ v # w =>
        /\ worker'[k][v] = worker[k][v] /\ sent'[k][v] = sent[k][v]
        /\ brk'[k][v] = brk[k][v]
  <2>1. CASE WorkerWakes(l, w)
    BY <1>t, <2>1, Zenon DEF WorkerWakes, TypeOK
  <2>2. CASE WorkerDone(l, w)
    BY <1>t, <2>2 DEF WorkerDone, TypeOK
  <2> QED  BY <2>1, <2>2
<1>3. CASE WorkerWakes(l, w)
  <2>1. /\ worker[l][w] = "wait" /\ worker'[l][w] = "drain" /\ sent[l][w]
        /\ brk'[l][w] = do_shutdown
    BY <1>t, <1>3 DEF WorkerWakes, TypeOK
  <2>2. \A k \in Listeners, v \in Workers : WillLook(k, v) => WillLook(k, v)'
    BY <1>1, <1>2, <2>1 DEF WillLook
  <2>3. \A c \in Conns : conn[c].at = "queued" => conn[c].l \in Listeners /\ conn[c].w \in Workers
    BY <1>t DEF ConnInv, TypeOK
  <2>4. \A c \in Conns : conn[c].at = "queued" /\ WillLook(conn[c].l, conn[c].w)
                            => WillLook(conn[c].l, conn[c].w)'
    BY <1>1, <2>2, <2>3
  <2>5. \A k \in Listeners, v \in Workers : WillEnd(k, v) => WillEnd(k, v)'
    BY <1>1, <1>2, <2>1 DEF WillEnd
  <2>6. \A k \in Listeners, v \in Workers :
          /\ brk'[k][v] => do_shutdown'
          /\ worker'[k][v] = "ended" => brk'[k][v]
          /\ worker'[k][v] = "destroyed" => worker[k][v] = "destroyed"
    BY <1>t, <1>1, <1>2, <2>1 DEF StopInv
  <2>7. StopInv'
    BY <1>t, <1>1, <2>5, <2>6 DEF StopInv, WorkerInv
  <2> QED  BY <1>1, <2>4, <2>7, HandoverStays DEF WakeInv
<1>4. CASE WorkerDone(l, w)
  <2>1. /\ worker[l][w] = "drain" /\ queue[l][w] = <<>>
        /\ worker'[l][w] = IF brk[l][w] THEN "ended" ELSE "wait"
        /\ UNCHANGED <<sent, brk>>
    BY <1>t, <1>4 DEF WorkerDone, TypeOK
  <2>2. \A c \in Conns : conn[c].at = "queued" =>
          /\ conn[c].l \in Listeners /\ conn[c].w \in Workers
          /\ ~(conn[c].l = l /\ conn[c].w = w)
    <3>1. DOMAIN queue[l][w] = {}
      BY <2>1
    <3>2. \A c \in Conns : conn[c].at = "queued" =>
            conn[c].l \in Listeners /\ conn[c].w \in Workers
      BY <1>t DEF ConnInv, TypeOK
    <3>3. \A c \in Conns : conn[c].at = "queued" =>
            \E n \in DOMAIN queue[conn[c].l][conn[c].w] :
              queue[conn[c].l][conn[c].w][n] = c
      BY DEF WakeInv, HandedOver
    <3> QED  BY <3>1, <3>2, <3>3
  <2>3. \A c \in Conns : conn[c].at = "queued" /\ WillLook(conn[c].l, conn[c].w)
                            => WillLook(conn[c].l, conn[c].w)'
    BY <1>1, <1>2, <2>1, <2>2 DEF WillLook
  <2>4. \A k \in Listeners, v \in Workers : WillEnd(k, v) => WillEnd(k, v)'
    BY <1>1, <1>2, <2>1 DEF WillEnd
  <2>5. \A k \in Listeners, v \in Workers :
          /\ worker'[k][v] = "ended" => brk'[k][v]
          /\ worker'[k][v] = "destroyed" => worker[k][v] = "destroyed"
    BY <1>t, <1>2, <2>1 DEF StopInv
  <2>6. StopInv'
    BY <1>t, <1>1, <2>1, <2>4, <2>5 DEF StopInv, WorkerInv
  <2> QED  BY <1>1, <2>3, <2>6, HandoverStays DEF WakeInv
<1> QED  BY <1>3, <1>4

\* The main thread leaves ev_run() and goes through the workers: each is told after
\* do_shutdown, and none that it waits for was destroyed before.
LEMMA WakeStop ==
  ASSUME IInv, WakeInv, NEW l \in Listeners, MainAsync(l) \/ StopWorker(l)
  PROVE  WakeInv'
<1>t. TypeOK /\ WorkerInv /\ ConnInv /\ StopInv
  BY DEF IInv, WakeInv
<1>1. UNCHANGED <<do_shutdown, worker, brk, queue, conn>>
  BY DEF MainAsync, StopWorker, workerVars
<1>2. \A c \in Conns : conn[c].at = "queued" => conn[c].l \in Listeners /\ conn[c].w \in Workers
  BY <1>t DEF ConnInv, TypeOK
<1>3. CASE MainAsync(l)
  <2>1. /\ main[l] = "run" /\ UNCHANGED <<i, sent>>
        /\ main' = [main EXCEPT ![l] = IF do_shutdown THEN "stop" ELSE "run"]
    BY <1>3 DEF MainAsync, workerVars
  <2>2. \A k \in Listeners, v \in Workers : WillLook(k, v) => WillLook(k, v)'
    BY <1>t, <1>1, <2>1 DEF WillLook, TypeOK
  <2>3. \A c \in Conns : conn[c].at = "queued" /\ WillLook(conn[c].l, conn[c].w)
                            => WillLook(conn[c].l, conn[c].w)'
    BY <1>1, <1>2, <2>2
  <2>4. \A w \in Workers : worker[l][w] # "destroyed"
    BY <1>t, <2>1 DEF WorkerInv
  <2>5. StopInv'
    BY <1>t, <1>1, <2>1, <2>4 DEF StopInv, WillEnd, TypeOK
  <2> QED  BY <1>1, <2>3, <2>5, HandoverStays DEF WakeInv
<1>4. CASE StopWorker(l)
  <2>1. main[l] = "stop" /\ i[l] \in Workers /\ do_shutdown
    BY <1>t, <1>4, WorkerIndices DEF StopWorker, TypeOK, StopInv
  <2>2. CASE worker[l][i[l]] = "none"
    <3>1. i' = [i EXCEPT ![l] = i[l] + 1] /\ UNCHANGED <<main, sent>>
      BY <1>4, <2>2 DEF StopWorker
    <3>2. \A k \in Listeners, v \in Workers : WillLook(k, v) => WillLook(k, v)'
      BY <1>t, <1>1, <2>1, <3>1 DEF WillLook, TypeOK
    <3>3. \A c \in Conns : conn[c].at = "queued" /\ WillLook(conn[c].l, conn[c].w)
                              => WillLook(conn[c].l, conn[c].w)'
      BY <1>1, <1>2, <3>2
    <3>4. /\ \A k \in Listeners : k # l => i'[k] = i[k]
          /\ \A w \in Workers : w < i[l] => w < i'[l]
      <4>1. i'[l] = i[l] + 1 /\ \A k \in Listeners : k # l => i'[k] = i[k]
        BY <1>t, <3>1 DEF TypeOK
      <4>2. \A w \in Workers : w < i[l] => w < i[l] + 1
        BY <2>1, WorkerIndices, Zenon
      <4> QED  BY <4>1, <4>2
    <3>5. StopInv'
      BY <1>t, <1>1, <2>1, <3>1, <3>4 DEF StopInv, WillEnd
    <3> QED  BY <1>1, <3>3, <3>5, HandoverStays DEF WakeInv
  <2>3. CASE worker[l][i[l]] # "none"
    <3>1. /\ sent' = [sent EXCEPT ![l][i[l]] = TRUE]
          /\ main' = [main EXCEPT ![l] = "join"] /\ i' = i
      BY <1>4, <2>3 DEF StopWorker
    <3>2. /\ sent'[l][i[l]]
          /\ \A k \in Listeners, v \in Workers : sent[k][v] => sent'[k][v]
          /\ main'[l] = "join" /\ \A k \in Listeners : k # l => main'[k] = main[k]
      BY <1>t, <2>1, <3>1 DEF TypeOK
    <3>3. \A k \in Listeners, v \in Workers : WillLook(k, v) => WillLook(k, v)'
      BY <1>1, <2>1, <3>1, <3>2 DEF WillLook
    <3>4. \A c \in Conns : conn[c].at = "queued" /\ WillLook(conn[c].l, conn[c].w)
                              => WillLook(conn[c].l, conn[c].w)'
      BY <1>1, <1>2, <3>3
    <3>5. \A k \in Listeners, v \in Workers : WillEnd(k, v) => WillEnd(k, v)'
      BY <1>1, <3>2 DEF WillEnd
    <3>6. WillEnd(l, i[l])'
      <4>1. worker[l][i[l]] # "destroyed"
        BY <1>t, <2>1, WorkerIndices DEF StopInv, TypeOK
      <4>2. worker[l][i[l]] \in {"unstarted", "wait", "drain", "ended"}
        BY <1>t, <2>1, <2>3, <4>1 DEF TypeOK, WorkerStates
      <4> QED  BY <1>1, <2>1, <3>1, <3>2, <4>2 DEF WillEnd
    <3>7. \A k \in Listeners : main'[k] = "join" => WillEnd(k, i[k])'
      <4>1. \A k \in Listeners : k # l /\ main[k] = "join" => i[k] \in Workers /\ WillEnd(k, i[k])
        BY <1>t DEF WorkerInv, StopInv
      <4> QED  BY <3>1, <3>2, <3>5, <3>6, <4>1
    <3>8. StopInv'
      BY <1>t, <1>1, <2>1, <3>1, <3>2, <3>7 DEF StopInv
    <3> QED  BY <1>1, <3>4, <3>8, HandoverStays DEF WakeInv
  <2> QED  BY <2>2, <2>3
<1> QED  BY <1>3, <1>4

LEMMA WakeDestroy ==
  ASSUME IInv, WakeInv, NEW l \in Listeners, main[l] = "join", DestroyLoop(l),
         UNCHANGED <<do_shutdown, joining, crashed, w_async, turn, sent, brk>>
  PROVE  WakeInv'
<1>t. TypeOK /\ WorkerInv /\ ConnInv /\ StopInv
  BY DEF IInv, WakeInv
<1>1. PICK j \in Workers :
        /\ j = i[l] /\ main[l] = "join" /\ main' = [main EXCEPT ![l] = "stop"]
        /\ worker' = [worker EXCEPT ![l][j] = "destroyed"]
        /\ conn' = [c \in Conns |-> IF c \in ConnsOf(l, j) THEN LostConn ELSE conn[c]]
        /\ queue' = [queue EXCEPT ![l][j] = <<>>]
        /\ i' = [i EXCEPT ![l] = j + 1]
        /\ UNCHANGED <<do_shutdown, sent, brk>>
  BY <1>t, Zenon DEF DestroyLoop, WorkerInv
<1>2. /\ \A k \in Listeners, w \in Workers :
           k # l \/ w # j => worker'[k][w] = worker[k][w] /\ queue'[k][w] = queue[k][w]
      /\ \A k \in Listeners : k # l => main'[k] = main[k] /\ i'[k] = i[k]
      /\ worker'[l][j] = "destroyed" /\ main'[l] = "stop" /\ i'[l] = j + 1
      /\ queue'[l][j] = <<>>
  BY <1>t, <1>1 DEF TypeOK
<1>3. \A c \in Conns :
        \/ c \in ConnsOf(l, j) /\ conn'[c].at = "lost"
        \/ c \notin ConnsOf(l, j) /\ conn'[c] = conn[c]
  BY <1>1 DEF LostConn
<1>4. ASSUME NEW c \in Conns PROVE HandedOver(c)'
  <2>1. CASE c \in ConnsOf(l, j) \/ conn[c].at # "queued"
    BY <1>3, <2>1 DEF HandedOver
  <2>2. CASE c \notin ConnsOf(l, j) /\ conn[c].at = "queued"
    <3>1. /\ conn'[c] = conn[c] /\ conn[c].l \in Listeners /\ conn[c].w \in Workers
          /\ ~(conn[c].l = l /\ conn[c].w = j)
      BY <1>t, <1>3, <2>2 DEF ConnInv, TypeOK, ConnsOf
    <3>2. queue'[conn[c].l][conn[c].w] = queue[conn[c].l][conn[c].w]
      BY <1>2, <3>1
    <3>3. WillLook(conn[c].l, conn[c].w)
      BY <2>2 DEF WakeInv, HandedOver
    <3>4. WillLook(conn[c].l, conn[c].w)'
      <4> DEFINE k == conn[c].l
                 v == conn[c].w
      <4>1. worker'[k][v] = worker[k][v] /\ (main'[k] = "wake" <=> main[k] = "wake")
        BY <1>1, <1>2, <3>1
      <4>2. main[k] = "wake" => i'[k] = i[k]
        BY <1>1, <1>2, <3>1
      <4> HIDE DEF k, v
      <4> QED  BY <1>1, <3>1, <3>3, <4>1, <4>2 DEF WillLook, k, v
    <3>5. \E n \in DOMAIN queue'[conn[c].l][conn[c].w] :
            queue'[conn[c].l][conn[c].w][n] = c
      <4>1. \E n \in DOMAIN queue[conn[c].l][conn[c].w] :
              queue[conn[c].l][conn[c].w][n] = c
        BY <2>2 DEF WakeInv, HandedOver
      <4> QED  BY <3>2, <4>1
    <3>6. conn'[c] = conn[c]
      BY <3>1
    <3> QED  BY <3>4, <3>5, <3>6, ConnStays
  <2> QED  BY <2>1, <2>2
<1>5. ASSUME NEW k \in Listeners, NEW w \in Workers PROVE QueueOf(k, w)'
  <2>1. CASE k = l /\ w = j
    <3>1. DOMAIN queue'[k][w] = {}
      BY <1>2, <2>1
    <3> QED  BY <3>1 DEF QueueOf
  <2>2. CASE k # l \/ w # j
    <3>1. \A n \in DOMAIN queue[k][w] :
            queue[k][w][n] \in Conns /\ queue[k][w][n] \notin ConnsOf(l, j)
      BY <1>t, <2>2 DEF TypeOK, WakeInv, QueueOf, ConnsOf
    <3>2. /\ queue'[k][w] = queue[k][w]
          /\ \A n \in DOMAIN queue[k][w] : conn'[queue[k][w][n]] = conn[queue[k][w][n]]
      BY <1>2, <1>3, <2>2, <3>1
    <3>3. QueueOf(k, w)
      BY DEF WakeInv
    <3> QED  BY <3>2, <3>3, QueueStays
  <2> QED  BY <2>1, <2>2
<1>6. StopInv'
  <2> SUFFICES ASSUME NEW k \in Listeners
               PROVE  /\ main'[k] \in {"stop", "join"} => do_shutdown'
                      /\ main'[k] = "join" => WillEnd(k, i[k])'
                      /\ \A w \in Workers :
                           /\ brk'[k][w] => do_shutdown'
                           /\ worker'[k][w] = "ended" => brk'[k][w]
                           /\ main'[k] \in {"stop", "join"} /\ worker'[k][w] = "destroyed" => w < i'[k]
    BY DEF StopInv
  <2>1. CASE k = l
    <3>1. \A w \in Workers : w < j \/ w = j => w < j + 1
      BY WorkerIndices
    <3> QED  BY <1>t, <1>1, <1>2, <2>1, <3>1 DEF StopInv
  <2>2. CASE k # l
    <3>1. \A w \in Workers : worker'[k][w] = worker[k][w]
      BY <1>2, <2>2
    <3>2. main[k] = "join" => i[k] \in Workers /\ WillEnd(k, i[k])
      BY <1>t DEF WorkerInv, StopInv
    <3>3. main'[k] = "join" => WillEnd(k, i[k])'
      BY <1>1, <1>2, <2>2, <3>1, <3>2 DEF WillEnd
    <3> QED  BY <1>t, <1>1, <1>2, <2>2, <3>1, <3>3 DEF StopInv
  <2> QED  BY <2>1, <2>2
<1> QED  BY <1>4, <1>5, <1>6 DEF WakeInv

LEMMA WakeJoinWorker ==
  ASSUME IInv, WakeInv, NEW l \in Listeners, JoinWorker(l) \/ JoinUnstarted(l)
  PROVE  WakeInv'
<1>1. CASE Crash
  BY <1>1, WakeQuiet, Zenon DEF Crash, mainVars, workerVars
<1>2. CASE ~Crash
  BY <1>2, WakeDestroy DEF JoinWorker, JoinUnstarted
<1> QED  BY <1>1, <1>2

LEMMA WakeEnd ==
  ASSUME IInv, WakeInv, NEW l \in Listeners, MainEnds(l) \/ JoinEnds(l)
  PROVE  WakeInv'
<1>t. TypeOK /\ WorkerInv /\ ConnInv /\ StopInv
  BY DEF IInv, WakeInv
<1>1. /\ UNCHANGED <<do_shutdown, i, worker, sent, brk, queue, conn>>
      /\ main[l] \in {"stop", "ended"}
      /\ \E m \in {"ended", "none"} : main' = [main EXCEPT ![l] = m]
  BY Zenon DEF MainEnds, JoinEnds, workerVars
<1>2. /\ main'[l] \in {"ended", "none"}
      /\ \A k \in Listeners : k # l => main'[k] = main[k]
  BY <1>t, <1>1 DEF TypeOK
<1>3. \A k \in Listeners, v \in Workers : WillLook(k, v) => WillLook(k, v)'
  BY <1>1, <1>2 DEF WillLook
<1>4. \A c \in Conns : conn[c].at = "queued" => conn[c].l \in Listeners /\ conn[c].w \in Workers
  BY <1>t DEF ConnInv, TypeOK
<1>5. \A c \in Conns : conn[c].at = "queued" /\ WillLook(conn[c].l, conn[c].w)
                          => WillLook(conn[c].l, conn[c].w)'
  BY <1>1, <1>3, <1>4
<1>6. StopInv'
  BY <1>t, <1>1, <1>2 DEF StopInv, WillEnd
<1> QED  BY <1>1, <1>5, <1>6, HandoverStays, Zenon DEF WakeInv
-----------------------------------------------------------------------------
\* IInv holds whenever listeners are created, fail to start, accept, are joined and
\* created again, until the process is gone.
THEOREM Invariance == Spec => []IInv
<1>1. ASSUME IInv, UNCHANGED vars PROVE IInv'
  BY <1>1, Quiet DEF vars, mainVars, workerVars, IInv, TypeOK
<1>2. ASSUME IInv, Step PROVE IInv'
  BY <1>2, JoinStep, CreateStep, StartStep, AcceptStep, AcceptWakesStep, ConnStep,
     WorkerStepStep, MainAsyncStep, StopWorkerStep, JoinWorkerStep, EndStep
     DEF Step, MainStep
<1>3. IInv /\ [Next]_vars => IInv'
  BY <1>1, <1>2 DEF Next
<1> QED  BY InitIInv, <1>3, PTL DEF Spec

\* A listener that join_listener_socket() has freed leaves no worker thread and no
\* connection behind, for any number of threads, of which some may be missing.
THEOREM ListenerGoesLast == Spec => [](TypeOK /\ NothingOutlivesListener)
<1>1. ASSUME IInv PROVE NothingOutlivesListener
  <2> SUFFICES ASSUME NEW l \in Listeners, main[l] = "none", NEW w \in Workers
               PROVE  worker[l][w] \in Gone /\ ConnsOf(l, w) = {}
    BY DEF NothingOutlivesListener, Gone
  <2>1. worker[l][w] \in Gone
    BY <1>1 DEF IInv, WorkerInv, Serving
  <2> QED  BY <1>1, <2>1 DEF IInv, ConnInv, ConnsOf
<1>2. IInv => TypeOK
  BY DEF IInv
<1> QED  BY Invariance, <1>1, <1>2, PTL

\* A wake-up of a worker is never lost: not when two are sent before the first is
\* noticed, not when one is sent while async_cb() takes what came before, not when
\* a listener is joined after another one.  What is left to the scheduler is to run
\* the threads; then every connection is served and every join returns.
THEOREM WakeUpsArrive == Spec => []NoWakeUpIsLost
<1>1. ASSUME IInv, WakeInv, UNCHANGED vars PROVE WakeInv'
  BY <1>1, WakeQuiet DEF vars, mainVars, workerVars
<1>2. ASSUME IInv, WakeInv, NEW l \in Listeners, Join(l) PROVE WakeInv'
  <2>1. UNCHANGED <<main, i, worker, sent, brk, queue, conn>> /\ (do_shutdown => do_shutdown')
    BY <1>2 DEF Join, Crash, mainVars, workerVars
  <2> QED  BY <1>2, <2>1, WakeQuiet
<1>3. ASSUME IInv, WakeInv, Step PROVE WakeInv'
  BY <1>2, <1>3, WakeStart, WakeAccept, WakeAcceptWakes, WakeConn, WakeTakes, WakeWorker,
     WakeStop, WakeJoinWorker, WakeEnd DEF Step, MainStep, WorkerStep
<1>4. IInv /\ WakeInv /\ [Next]_vars => WakeInv'
  BY <1>1, <1>3 DEF Next
<1>5. WakeInv => NoWakeUpIsLost
  BY DEF WakeInv, NoWakeUpIsLost, StopInv
<1> QED  BY InitWakeInv, Invariance, <1>4, <1>5, PTL DEF Spec
=============================================================================
