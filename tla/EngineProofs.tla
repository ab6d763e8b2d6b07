---------------------------- MODULE EngineProofs ----------------------------
(* Proofs about Engine, for any finite set of ports and any bounds.          *)
EXTENDS Engine, FiniteSetTheorems, TLAPS

\* The listeners that have not been joined to the end: those of the list, and
\* the one that was taken out of it and is being joined.
Unjoined == {p \in Ports : p \in listeners \/ p = joining}

\* Requests come only to listeners that have not been joined.
RequestInv == \A p \in Ports : sessions[p] > 0 => p \in Unjoined

\* Where the main thread is, with its loops over the listeners.
ControlInv ==
  /\ joining # NULL => pc \in {"check", "join"} /\ joining \notin listeners
  /\ pc \in {"check", "join"} => todo \subseteq listeners
  /\ pc = "join" => listeners \subseteq todo
  /\ pc \in {"flush", "drain", "wait", "exit"} => listeners = {}
  /\ pc \notin {"flush", "drain", "wait", "exit"} => zz_database

\* The counter of the common responses is the number of listeners that may need
\* them.
CounterInv ==
  /\ listeners_counter = Cardinality(Unjoined)
  /\ responses <=> listeners_counter # 0

\* After the last poll nothing is left in librdkafka.
QueueInv == pc \in {"wait", "exit"} => outq = 0

Known(c) == {p \in Ports : c[p] = "known"}

\* How far the listeners follow the configuration during start and reload.
MatchInv ==
  /\ pc \in {"parse", "create", "loop", "poll"} => listeners \subseteq PortsOf(conf)
  /\ pc = "check" => listeners \ todo \subseteq PortsOf(conf)
  /\ pc \in {"parse", "create"} => Known(conf) \ (dead \cup todo) \subseteq listeners
  /\ pc \in {"loop", "poll"} => Known(conf) \ dead \subseteq listeners

IInv == /\ TypeOK /\ RequestInv /\ ControlInv /\ CounterInv /\ QueueInv
        /\ MatchInv
-----------------------------------------------------------------------------
\* A set of ports is finite, and its size is a number that is 0 for none only.
LEMMA UnjoinedFinite ==
  /\ IsFiniteSet(Unjoined)
  /\ Cardinality(Unjoined) \in Nat
  /\ Cardinality(Unjoined) = 0 <=> Unjoined = {}
<1>1. Unjoined \subseteq Ports
  BY DEF Unjoined
<1>2. IsFiniteSet(Unjoined)
  BY <1>1, ConstantsAssumption, FS_Subset
<1> QED  BY <1>2, FS_CardinalityType, FS_EmptySet

LEMMA InitIInv == Init => IInv
<1> SUFFICES ASSUME Init PROVE IInv
  OBVIOUS
<1> USE DEF Init
<1>1. TypeOK
  <2>1. conf \in Configs /\ todo \subseteq Ports
    BY DEF PortsOf
  <2>2. /\ do_reload \in BOOLEAN /\ do_shutdown \in BOOLEAN
        /\ zz_database \in BOOLEAN /\ stats_topic \in BOOLEAN
        /\ responses \in BOOLEAN
    OBVIOUS
  <2>3. /\ sessions \in [Ports -> 0..MaxSessions] /\ outq \in 0..MaxOutq
        /\ edits \in Nat /\ loaded \in 0..edits
    BY ConstantsAssumption
  <2> QED  BY <2>1, <2>2, <2>3 DEF TypeOK
<1>2. Unjoined = {}
  BY ConstantsAssumption DEF Unjoined
<1>3. CounterInv
  BY <1>2, FS_EmptySet DEF CounterInv
<1>4. RequestInv /\ ControlInv /\ QueueInv
  BY DEF RequestInv, ControlInv, QueueInv
<1>5. MatchInv
  BY DEF MatchInv, Known, PortsOf
<1> QED  BY <1>1, <1>3, <1>4, <1>5 DEF IInv
-----------------------------------------------------------------------------
\* Types, of the steps of the main thread and of all others.
LEMMA NextTypeOK == IInv /\ [Next]_vars => TypeOK'
<1> SUFFICES ASSUME IInv, [Next]_vars PROVE TypeOK'
  OBVIOUS
<1> USE ConstantsAssumption DEF envVars, responseVars, listenVars, kafkaVars
<1>t. TypeOK
  BY DEF IInv
<1>c. /\ CounterInv /\ ControlInv
      /\ joining # NULL => listeners_counter - 1 \in Nat
  <2>1. CounterInv /\ ControlInv
    BY DEF IInv
  <2>2. joining # NULL => joining \in Unjoined
    BY <1>t DEF TypeOK, Unjoined
  <2> QED  BY <2>1, <2>2, UnjoinedFinite DEF CounterInv
<1>1. ASSUME NEW p \in Ports, ParseListener(p) \/ StartListener(p)
                 \/ StartListenerFails(p) \/ StartListenerUnread(p)
      PROVE  TypeOK'
  <2>1. CASE StartListener(p)
    <3>1. responses' \in BOOLEAN /\ listeners_counter' \in Nat
      BY <1>t, <2>1 DEF StartListener, responses_listener_counter_incref, TypeOK
    <3> QED  BY <1>t, <2>1, <3>1 DEF StartListener, Entry, TypeOK
  <2>2. CASE ParseListener(p) \/ StartListenerFails(p) \/ StartListenerUnread(p)
    BY <1>t, <2>2 DEF ParseListener, StartListenerFails, StartListenerUnread,
       Entry, TypeOK
  <2> QED  BY <1>1, <2>1, <2>2
<1>2. ASSUME NEW p \in Ports, CheckListener(p) \/ ShutdownListener(p)
      PROVE  TypeOK'
  BY <1>t, <1>2 DEF CheckListener, ShutdownListener, TypeOK
<1>3. CASE ParseEnds \/ LoopTest \/ PollReturns \/ CheckEnds \/ ReloadEnds
             \/ Shutdown \/ DecodersDone \/ StopStats \/ Destroy \/ Exit
  BY <1>t, <1>3 DEF ParseEnds, LoopTest, PollReturns, CheckEnds, ReloadEnds,
     Shutdown, DecodersDone, StopStats, Destroy, Exit, PortsOf, TypeOK
<1>4. CASE ReloadConfig
  <2>1. CASE file = Invalid
    <3>1. /\ pc' = "loop" /\ do_reload' = FALSE /\ loaded' = edits
          /\ UNCHANGED <<conf, todo, joining, file, edits, do_shutdown, listeners,
                         dead, listeners_counter, responses, sessions,
                         zz_database, stats_topic, outq>>
      BY <1>4, <2>1 DEF ReloadConfig
    <3>2. do_reload' \in BOOLEAN
      BY <3>1
    <3>3. loaded' \in 0..edits'
      BY <1>t, <3>1 DEF TypeOK
    <3> QED  BY <1>t, <3>1, <3>2, <3>3 DEF TypeOK
  <2>2. CASE file # Invalid
    BY <1>t, <1>4, <2>2 DEF ReloadConfig, TypeOK
  <2> QED  BY <2>1, <2>2
<1>5. CASE JoinEnds
  BY <1>t, <1>c, <1>5 DEF JoinEnds, responses_listener_counter_decref, TypeOK
<1>6. CASE Sighup \/ Sigint \/ Edit
  <2>1. CASE Sighup
    BY <1>t, <2>1 DEF Sighup, TypeOK
  <2>2. CASE Sigint
    BY <1>t, <2>2 DEF Sigint, TypeOK
  <2>3. CASE Edit
    BY <1>t, <2>3 DEF Edit, TypeOK
  <2> QED  BY <1>6, <2>1, <2>2, <2>3
<1>7. ASSUME NEW p \in Ports, NewRequest(p) \/ Produce(p) \/ EndRequest(p)
      PROVE  TypeOK'
  BY <1>t, <1>7 DEF NewRequest, Produce, EndRequest, TypeOK
<1>8. CASE Delivered \/ StatsTopicCb
  BY <1>t, <1>8 DEF Delivered, StatsTopicCb, TypeOK
<1>9. CASE UNCHANGED vars
  BY <1>t, <1>9 DEF vars, TypeOK
<1> QED
  BY <1>1, <1>2, <1>3, <1>4, <1>5, <1>6, <1>7, <1>8, <1>9 DEF Next, MainStep
-----------------------------------------------------------------------------
\* The main thread and its loops, the requests, and the counter.
LEMMA NextListenInv ==
  IInv /\ [Next]_vars => RequestInv' /\ ControlInv' /\ CounterInv'
<1> SUFFICES ASSUME IInv, [Next]_vars
             PROVE  RequestInv' /\ ControlInv' /\ CounterInv'
  OBVIOUS
<1> USE ConstantsAssumption DEF envVars, responseVars, listenVars, kafkaVars
<1>t. TypeOK /\ RequestInv /\ ControlInv /\ CounterInv
  BY DEF IInv
<1> DEFINE Same == Unjoined' = Unjoined /\ UNCHANGED responseVars
<1>s. Same => CounterInv'
  BY <1>t DEF CounterInv
<1>r. UNCHANGED sessions /\ Unjoined \subseteq Unjoined' => RequestInv'
  BY <1>t DEF RequestInv
<1>1. ASSUME NEW p \in Ports, StartListener(p)
      PROVE  RequestInv' /\ ControlInv' /\ CounterInv'
  <2>1. /\ pc \in {"parse", "create"} /\ pc' = pc /\ joining' = joining
        /\ p \notin listeners /\ listeners' = listeners \cup {p}
        /\ sessions' = sessions /\ zz_database' = zz_database
    BY <1>1 DEF StartListener, Entry, Creates
  <2>2. joining = NULL /\ p \notin Unjoined /\ Unjoined' = Unjoined \cup {p}
    BY <1>t, <2>1 DEF ControlInv, Unjoined
  <2>3. Cardinality(Unjoined') = Cardinality(Unjoined) + 1
    BY <2>2, UnjoinedFinite, FS_AddElement
  <2>4. CounterInv'
    <3>1. /\ listeners_counter' = listeners_counter + 1
          /\ responses' = (responses \/ listeners_counter = 0)
      BY <1>1 DEF StartListener, responses_listener_counter_incref
    <3>2. listeners_counter' = Cardinality(Unjoined') /\ listeners_counter' # 0
      BY <1>t, <2>3, <3>1, UnjoinedFinite DEF CounterInv
    <3>3. responses'
      BY <1>t, <3>1 DEF CounterInv
    <3> QED  BY <3>2, <3>3 DEF CounterInv
  <2>5. ControlInv'
    BY <1>t, <2>1, <2>2 DEF ControlInv
  <2> QED  BY <1>r, <2>1, <2>2, <2>4, <2>5
<1>2. ASSUME NEW p \in Ports,
             ParseListener(p) \/ StartListenerFails(p) \/ StartListenerUnread(p)
      PROVE  RequestInv' /\ ControlInv' /\ CounterInv'
  <2> USE DEF ParseListener, StartListenerFails, StartListenerUnread, Entry
  <2>1. Same /\ UNCHANGED sessions
    BY <1>2 DEF Unjoined
  <2>2. ControlInv'
    BY <1>t, <1>2 DEF ControlInv
  <2> QED  BY <1>s, <1>r, <2>1, <2>2
<1>3. ASSUME NEW p \in Ports, CheckListener(p) \/ ShutdownListener(p)
      PROVE  RequestInv' /\ ControlInv' /\ CounterInv'
  <2> USE DEF CheckListener, ShutdownListener
  <2>1. p \in listeners /\ joining = NULL
    BY <1>t, <1>3 DEF ControlInv
  <2>2. Same /\ UNCHANGED sessions
    BY <1>3, <2>1 DEF Unjoined
  <2>3. ControlInv'
    BY <1>t, <1>3, <2>1 DEF ControlInv
  <2> QED  BY <1>s, <1>r, <2>2, <2>3
<1>4. CASE ParseEnds \/ LoopTest \/ PollReturns \/ ReloadConfig \/ CheckEnds
             \/ ReloadEnds \/ Shutdown \/ DecodersDone \/ StopStats \/ Destroy
             \/ Exit
  <2> USE DEF ParseEnds, LoopTest, PollReturns, ReloadConfig, CheckEnds, ReloadEnds,
              Shutdown, DecodersDone, StopStats, Destroy, Exit
  <2>1. Same /\ UNCHANGED sessions
    BY <1>4 DEF Unjoined
  <2>2. ControlInv'
    BY <1>t, <1>4 DEF ControlInv
  <2> QED  BY <1>s, <1>r, <2>1, <2>2
<1>5. CASE JoinEnds
  <2>1. /\ joining # NULL /\ sessions[joining] = 0 /\ joining' = NULL
        /\ UNCHANGED <<pc, todo, listeners, sessions, zz_database>>
    BY <1>5 DEF JoinEnds
  <2>2. joining \in Unjoined /\ Unjoined' = Unjoined \ {joining}
    BY <1>t, <2>1 DEF ControlInv, Unjoined, TypeOK
  <2>3. Cardinality(Unjoined') = Cardinality(Unjoined) - 1
    BY <2>2, UnjoinedFinite, FS_RemoveElement
  <2>4. CounterInv'
    <3>1. /\ listeners_counter' = listeners_counter - 1
          /\ responses' = (responses /\ listeners_counter # 1)
      BY <1>5 DEF JoinEnds, responses_listener_counter_decref
    <3>2. /\ listeners_counter # 0
          /\ listeners_counter' = Cardinality(Unjoined')
          /\ listeners_counter' = 0 <=> listeners_counter = 1
      BY <1>t, <2>2, <2>3, <3>1, UnjoinedFinite DEF CounterInv
    <3>3. responses' <=> listeners_counter # 1
      BY <1>t, <3>1, <3>2 DEF CounterInv
    <3> QED  BY <3>2, <3>3 DEF CounterInv
  <2>5. RequestInv'
    BY <1>t, <2>1, <2>2 DEF RequestInv
  <2>6. ControlInv'
    BY <1>t, <2>1 DEF ControlInv
  <2> QED  BY <2>4, <2>5, <2>6
<1>6. ASSUME NEW p \in Ports, NewRequest(p) \/ EndRequest(p)
      PROVE  RequestInv' /\ ControlInv' /\ CounterInv'
  <2> USE DEF NewRequest, EndRequest
  <2>1. Same
    BY <1>6 DEF Unjoined
  <2>2. RequestInv'
    BY <1>t, <1>6, <2>1 DEF RequestInv, Unjoined, TypeOK
  <2>3. ControlInv'
    BY <1>t, <1>6 DEF ControlInv
  <2> QED  BY <1>s, <2>1, <2>2, <2>3
<1>7. ASSUME \/ \E p \in Ports : Produce(p)
             \/ Sighup \/ Sigint \/ Edit \/ Delivered \/ StatsTopicCb
             \/ UNCHANGED vars
      PROVE  RequestInv' /\ ControlInv' /\ CounterInv'
  <2>1. UNCHANGED <<pc, todo, joining, listeners, listeners_counter, responses,
                    sessions, zz_database>>
    BY <1>7 DEF Produce, Sighup, Sigint, Edit, Delivered, StatsTopicCb, vars
  <2>2. Same
    BY <2>1 DEF Unjoined
  <2>3. ControlInv'
    BY <1>t, <2>1 DEF ControlInv
  <2> QED  BY <1>s, <1>r, <2>1, <2>2, <2>3
<1> QED
  BY <1>1, <1>2, <1>3, <1>4, <1>5, <1>6, <1>7 DEF Next, MainStep
-----------------------------------------------------------------------------
\* Nobody produces after the last poll: all requests have ended by then.
LEMMA NextQueueInv == IInv /\ [Next]_vars => QueueInv'
<1> SUFFICES ASSUME IInv, [Next]_vars PROVE QueueInv'
  OBVIOUS
<1> USE DEF kafkaVars, QueueInv
<1>t. QueueInv /\ TypeOK /\ RequestInv /\ ControlInv
  BY DEF IInv
<1>1. ASSUME NEW p \in Ports,
             \/ ParseListener(p) \/ StartListener(p) \/ StartListenerFails(p)
             \/ StartListenerUnread(p) \/ CheckListener(p) \/ ShutdownListener(p)
      PROVE  QueueInv'
  BY <1>t, <1>1 DEF ParseListener, StartListener, StartListenerFails,
     StartListenerUnread, Entry, CheckListener, ShutdownListener
<1>2. CASE ParseEnds \/ LoopTest \/ PollReturns \/ ReloadConfig \/ CheckEnds
             \/ ReloadEnds \/ JoinEnds \/ Shutdown \/ DecodersDone \/ StopStats
             \/ Destroy \/ Exit
  BY <1>t, <1>2 DEF ParseEnds, LoopTest, PollReturns, ReloadConfig, CheckEnds,
     ReloadEnds, JoinEnds, Shutdown, DecodersDone, StopStats, Destroy, Exit
<1>3. ASSUME NEW p \in Ports, Produce(p) PROVE QueueInv'
  <2>1. sessions[p] > 0 /\ pc' = pc
    BY <1>3 DEF Produce
  <2>2. p \in listeners \/ joining # NULL
    BY <1>t, <2>1, ConstantsAssumption DEF RequestInv, Unjoined
  <2>3. pc \notin {"wait", "exit"}
    BY <1>t, <2>2 DEF ControlInv
  <2> QED  BY <2>1, <2>3
<1>4. CASE Delivered \/ StatsTopicCb
  BY <1>4 DEF Delivered, StatsTopicCb, Polling
<1>5. ASSUME \/ \E p \in Ports : NewRequest(p) \/ EndRequest(p)
             \/ Sighup \/ Sigint \/ Edit \/ UNCHANGED vars
      PROVE  QueueInv'
  BY <1>t, <1>5 DEF NewRequest, EndRequest, Sighup, Sigint, Edit, vars
<1> QED  BY <1>1, <1>2, <1>3, <1>4, <1>5 DEF Next, MainStep

\* A reload takes away what the new configuration has not, then adds what is
\* missing.
LEMMA NextMatchInv == IInv /\ [Next]_vars => MatchInv'
<1> SUFFICES ASSUME IInv, [Next]_vars PROVE MatchInv'
  OBVIOUS
<1> USE DEF envVars, responseVars, listenVars, MatchInv
<1>t. MatchInv /\ TypeOK
  BY DEF IInv
<1>k. Known(conf) \subseteq PortsOf(conf) /\ PortsOf(conf) \subseteq Ports
  BY DEF Known, PortsOf
<1>1. ASSUME NEW p \in Ports, ParseListener(p) \/ StartListener(p)
                 \/ StartListenerFails(p) \/ StartListenerUnread(p)
      PROVE  MatchInv'
  <2>1. conf' = conf /\ pc \in {"parse", "create"} /\ todo' = todo \ {p}
    BY <1>1 DEF ParseListener, StartListener, StartListenerFails,
       StartListenerUnread, Entry
  <2>2. Known(conf') = Known(conf) /\ PortsOf(conf') = PortsOf(conf)
    BY <2>1
  <2>3. CASE ParseListener(p)
    <3>1. p \notin Known(conf) \/ p \in listeners
      BY <2>3 DEF ParseListener, Creates, Known
    <3> QED  BY <1>t, <2>1, <2>2, <2>3, <3>1 DEF ParseListener
  <2>4. CASE StartListener(p)
    <3>1. p \in PortsOf(conf)
      BY <2>4 DEF StartListener, Creates, PortsOf
    <3> QED  BY <1>t, <2>1, <2>2, <2>4, <3>1 DEF StartListener
  <2>5. CASE StartListenerFails(p)
    BY <2>5 DEF StartListenerFails
  <2>6. CASE StartListenerUnread(p)
    BY <1>t, <2>1, <2>2, <2>6 DEF StartListenerUnread
  <2> QED  BY <1>1, <2>3, <2>4, <2>5, <2>6
<1>2. ASSUME NEW p \in Ports, CheckListener(p) \/ ShutdownListener(p)
      PROVE  MatchInv'
  BY <1>t, <1>2 DEF CheckListener, ShutdownListener
<1>3. CASE ReloadConfig
  <2>1. CASE file = Invalid
    BY <1>t, <1>3, <2>1 DEF ReloadConfig
  <2>2. CASE file # Invalid
    BY <1>3, <2>2 DEF ReloadConfig
  <2> QED  BY <2>1, <2>2
<1>4. CASE CheckEnds
  BY <1>t, <1>k, <1>4 DEF CheckEnds
<1>5. CASE ParseEnds \/ LoopTest \/ PollReturns \/ ReloadEnds
  BY <1>t, <1>5 DEF ParseEnds, LoopTest, PollReturns, ReloadEnds
<1>6. CASE Shutdown \/ DecodersDone \/ StopStats \/ Destroy \/ Exit
  BY <1>6 DEF Shutdown, DecodersDone, StopStats, Destroy, Exit
<1>7. ASSUME \/ \E p \in Ports : NewRequest(p) \/ Produce(p) \/ EndRequest(p)
             \/ JoinEnds \/ Sighup \/ Sigint \/ Edit \/ Delivered
             \/ StatsTopicCb \/ UNCHANGED vars
      PROVE  MatchInv'
  <2>1. UNCHANGED <<pc, todo, conf, listeners, dead>>
    BY <1>7 DEF NewRequest, Produce, EndRequest, JoinEnds, Sighup, Sigint, Edit,
       Delivered, StatsTopicCb, vars
  <2> QED  BY <1>t, <2>1
<1> QED
  BY <1>1, <1>2, <1>3, <1>4, <1>5, <1>6, <1>7 DEF Next, MainStep
-----------------------------------------------------------------------------
\* IInv holds at every moment of the life of the process, from main() on,
\* whatever signals, requests and changes of the file there are.
THEOREM Invariance == Spec => []IInv
<1>1. IInv /\ [Next]_vars => IInv'
  BY NextTypeOK, NextListenInv, NextQueueInv, NextMatchInv DEF IInv
<1> QED  BY InitIInv, <1>1, PTL DEF Spec

\* Every variable of the engine has its type; the counter of the responses does
\* not go below zero.
THEOREM TypeCorrect == Spec => []TypeOK
<1>1. IInv => TypeOK
  BY DEF IInv
<1> QED  BY Invariance, <1>1, PTL

\* free_global_config() ends the decoders after the last session.
THEOREM SessionsEndFirst == Spec => []SessionsComeFirst
<1>1. IInv => SessionsComeFirst
  BY ConstantsAssumption
     DEF IInv, RequestInv, ControlInv, Unjoined, SessionsComeFirst
<1> QED  BY Invariance, <1>1, PTL

\* The responses that http_responses counts live as long as they may be needed.
THEOREM ResponsesLive == Spec => []ResponsesOutliveRequests
<1>1. ASSUME IInv PROVE ResponsesOutliveRequests
  <2>1. TypeOK /\ RequestInv /\ ControlInv /\ CounterInv
    BY <1>1 DEF IInv
  <2>2. (\E p \in Ports : sessions[p] > 0) => Unjoined # {}
    BY <2>1 DEF RequestInv
  <2>3. pc = "exit" => Unjoined = {}
    BY <2>1, ConstantsAssumption DEF ControlInv, Unjoined
  <2>4. responses <=> Unjoined # {}
    BY <2>1, UnjoinedFinite DEF CounterInv
  <2> QED  BY <2>2, <2>3, <2>4 DEF ResponsesOutliveRequests
<1> QED  BY Invariance, <1>1, PTL

\* stop_rdkafka() leaves no message behind.
THEOREM AllDelivered == Spec => []NothingUndelivered
<1>1. IInv => NothingUndelivered
  BY DEF IInv, QueueInv, NothingUndelivered
<1> QED  BY Invariance, <1>1, PTL

\* Between reloads the listeners are those of the last good configuration.
THEOREM ListenersFollow == Spec => []ListenersMatch
<1>1. IInv => ListenersMatch
  BY DEF IInv, MatchInv, Known, ListenersMatch
<1> QED  BY Invariance, <1>1, PTL
=============================================================================
