------------------------------- MODULE Engine -------------------------------
(***************************************************************************)
(* The life of the process (engine/n2kafka.c, engine/global_config.c,      *)
(* util/kafka.c): it starts the listeners of the configuration file, polls *)
(* librdkafka, applies the file again at SIGHUP while requests go on, and  *)
(* at SIGINT takes everything down: listeners first, then decoders, then   *)
(* librdkafka.  Here a listener is a port that accepts requests until it   *)
(* is joined, a request is a decoder session with a reference to a topic,  *)
(* and librdkafka is the number of messages in its queue.                  *)
(***************************************************************************)
EXTENDS Integers, FiniteSets

CONSTANTS
  Ports,       \* ports that a configuration may have
  MaxSessions, \* bound of the concurrent requests on a port
  MaxOutq,     \* bound of the queue of librdkafka
  MaxEdits,    \* bound of the changes of the configuration file
  NULL, Invalid

ASSUME ConstantsAssumption ==
  /\ IsFiniteSet(Ports)
  /\ MaxSessions \in Nat /\ MaxOutq \in Nat /\ MaxEdits \in Nat
  /\ NULL \notin Ports

\* What the "listeners" array says of each port: nothing, or a protocol that
\* listener_for() knows or does not know.
Configs == [Ports -> {"absent", "known", "unknown"}]

VARIABLES
  pc,          \* main thread: "parse", "loop", "poll", "check", "create",
               \* "join", "flush", "drain", "wait", "exit", or "failed": exit(-1)
  todo,        \* ports that the current loop over listeners has not seen
  joining,     \* the listener that is being joined
  file,        \* the configuration file
  edits,       \* how often it has changed
  conf,        \* the configuration that was read last and is not invalid
  loaded,      \* the value of edits when the file was last read
  do_reload, do_shutdown,
  listeners,   \* global_config.listeners: those that serve their port
  dead,        \* and those that start_http_loop() returned without starting
  listeners_counter, responses, \* http_responses: its counter; they exist
  sessions,    \* decoder sessions of each port
  zz_database, \* it is initialized
  stats_topic, \* it is not NULL
  outq         \* rd_kafka_outq_len()

envVars == <<file, edits>>
responseVars == <<listeners_counter, responses>>
listenVars == <<listeners, dead, responseVars>>
kafkaVars == <<stats_topic, outq>>
vars == <<pc, todo, joining, envVars, conf, loaded, do_reload, do_shutdown,
          listenVars, sessions, zz_database, kafkaVars>>

PortsOf(c) == {p \in Ports : c[p] # "absent"}

Init ==
  /\ pc = "parse"
  /\ file \in Configs
  /\ edits = 0
  /\ conf = file
  /\ todo = PortsOf(conf)
  /\ joining = NULL
  /\ loaded = 0
  /\ do_reload = FALSE
  /\ do_shutdown = FALSE
  /\ listeners = {}
  /\ dead = {}
  /\ listeners_counter = 0
  /\ responses = FALSE
  /\ sessions = [p \in Ports |-> 0]
  /\ zz_database = TRUE
  /\ stats_topic \in BOOLEAN
  /\ outq = 0
-----------------------------------------------------------------------------
\* The answers that all HTTP listeners share are created for the first of them...
responses_listener_counter_incref ==
  /\ listeners_counter' = listeners_counter + 1
  /\ responses' = (responses \/ listeners_counter = 0)

\* Mutant of responses_listener_counter_decref: the counter is not looked at.
responses_destroy ==
  /\ listeners_counter' = listeners_counter - 1
  /\ responses' = FALSE

\* ...and destroyed with the last.
responses_listener_counter_decref ==
  /\ listeners_counter' = listeners_counter - 1
  /\ responses' = (responses /\ listeners_counter # 1)

\* parse_listener() comes to the entry of p: in a reload, only if no listener has
\* this port.
Entry(p) ==
  /\ pc \in {"parse", "create"}
  /\ p \in todo
  /\ todo' = todo \ {p}
  /\ UNCHANGED <<joining, envVars, conf, loaded, do_reload, do_shutdown, sessions,
                 zz_database, kafkaVars>>

Creates(p) == conf[p] = "known" /\ p \notin listeners

\* The port has its listener, or nobody knows the protocol.
ParseListener(p) ==
  /\ Entry(p)
  /\ ~Creates(p)
  /\ UNCHANGED <<pc, listenVars>>

\* start_http_loop(): the daemon is started.
StartListener(p) ==
  /\ Entry(p)
  /\ Creates(p)
  /\ listeners' = listeners \cup {p}
  /\ responses_listener_counter_incref
  /\ UNCHANGED <<pc, dead>>

\* It returns NULL: wrong options, a file that cannot be opened, no memory, no
\* decoder data, or no daemon, after which the counter is taken back.  The
\* process ends.
StartListenerFails(p) ==
  /\ Entry(p)
  /\ Creates(p)
  /\ pc' = "failed"
  /\ UNCHANGED listenVars

\* A file of keys or passwords cannot be read to its end: the listener is
\* returned as it was allocated, with neither port, nor daemon, nor join().
StartListenerUnread(p) ==
  /\ Entry(p)
  /\ Creates(p)
  /\ dead' = dead \cup {p}
  /\ UNCHANGED <<pc, listeners, responseVars>>

\* parse_config() returns, and signals are let in.
ParseEnds ==
  /\ pc = "parse"
  /\ todo = {}
  /\ pc' = "loop"
  /\ UNCHANGED <<todo, joining, envVars, conf, loaded, do_reload, do_shutdown,
                 listenVars, sessions, zz_database, kafkaVars>>

\* Mutant of LoopTest: do_reload is reset before the poll.
LoopTestResets ==
  /\ pc = "loop"
  /\ ~do_shutdown
  /\ pc' = "poll"
  /\ do_reload' = FALSE
  /\ UNCHANGED <<todo, joining, envVars, conf, loaded, do_shutdown, listenVars,
                 sessions, zz_database, kafkaVars>>

\* The main loop goes on.
LoopTest ==
  /\ pc = "loop"
  /\ ~do_shutdown
  /\ pc' = "poll"
  /\ UNCHANGED <<todo, joining, envVars, conf, loaded, do_reload, do_shutdown,
                 listenVars, sessions, zz_database, kafkaVars>>

\* kafka_poll() returns and there is nothing to reload.
PollReturns ==
  /\ pc = "poll"
  /\ ~do_reload
  /\ pc' = "loop"
  /\ UNCHANGED <<todo, joining, envVars, conf, loaded, do_reload, do_shutdown,
                 listenVars, sessions, zz_database, kafkaVars>>

\* Mutant of ReloadConfig: the listeners that are already there are not checked.
ReloadNewOnly ==
  /\ pc = "poll"
  /\ do_reload
  /\ file # Invalid
  /\ loaded' = edits
  /\ pc' = "create"
  /\ conf' = file
  /\ todo' = PortsOf(file)
  /\ UNCHANGED <<joining, envVars, do_reload, do_shutdown, listenVars, sessions,
                 zz_database, kafkaVars>>

\* reload_config(): the file is read.  One that cannot be read, or has no
\* listeners array, changes nothing.
ReloadConfig ==
  /\ pc = "poll"
  /\ do_reload
  /\ loaded' = edits
  /\ IF file = Invalid
     THEN /\ pc' = "loop"
          /\ do_reload' = FALSE
          /\ UNCHANGED <<conf, todo>>
     ELSE /\ pc' = "check"
          /\ conf' = file
          /\ todo' = listeners
          /\ UNCHANGED do_reload
  /\ UNCHANGED <<joining, envVars, do_shutdown, listenVars, sessions, zz_database,
                 kafkaVars>>

\* reload_listeners_check_already_present() for the next listener of the list:
\* one whose port is in the new array, for whatever protocol, stays; another
\* one is taken out and joined.
CheckListener(p) ==
  /\ pc = "check"
  /\ joining = NULL
  /\ p \in todo
  /\ todo' = todo \ {p}
  /\ IF p \in PortsOf(conf)
     THEN UNCHANGED <<listeners, joining>>
     ELSE listeners' = listeners \ {p} /\ joining' = p
  /\ UNCHANGED <<pc, dead, responseVars, envVars, conf, loaded, do_reload,
                 do_shutdown, sessions, zz_database, kafkaVars>>

\* All listeners have been looked at, and those without a port forgotten:
\* reload_listeners_create_new_ones().
CheckEnds ==
  /\ pc = "check"
  /\ joining = NULL
  /\ todo = {}
  /\ pc' = "create"
  /\ todo' = PortsOf(conf)
  /\ dead' = {}
  /\ UNCHANGED <<joining, envVars, conf, loaded, do_reload, do_shutdown, listeners,
                 responseVars, sessions, zz_database, kafkaVars>>

\* reload_config() returns and do_reload is reset, whatever came meanwhile.
ReloadEnds ==
  /\ pc = "create"
  /\ todo = {}
  /\ pc' = "loop"
  /\ do_reload' = FALSE
  /\ UNCHANGED <<todo, joining, envVars, conf, loaded, do_shutdown, listenVars,
                 sessions, zz_database, kafkaVars>>

\* Mutant of JoinEnds: the requests of the listener are not waited for.
JoinAtOnce ==
  /\ joining # NULL
  /\ joining' = NULL
  /\ responses_listener_counter_decref
  /\ UNCHANGED <<pc, todo, envVars, conf, loaded, do_reload, do_shutdown,
                 listeners, dead, sessions, zz_database, kafkaVars>>

\* break_http_loop() returns: MHD_stop_daemon() has ended all the requests of the
\* listener.
JoinEnds ==
  /\ joining # NULL
  /\ sessions[joining] = 0
  /\ joining' = NULL
  /\ responses_listener_counter_decref
  /\ UNCHANGED <<pc, todo, envVars, conf, loaded, do_reload, do_shutdown,
                 listeners, dead, sessions, zz_database, kafkaVars>>
-----------------------------------------------------------------------------
\* The main loop ends: free_global_config() and shutdown_listeners().
Shutdown ==
  /\ pc = "loop"
  /\ do_shutdown
  /\ pc' = "join"
  /\ todo' = listeners
  /\ UNCHANGED <<joining, envVars, conf, loaded, do_reload, do_shutdown, listenVars,
                 sessions, zz_database, kafkaVars>>

\* shutdown_listener() for the next one, which then is a freed element of the
\* list that nobody reads.
ShutdownListener(p) ==
  /\ pc = "join"
  /\ joining = NULL
  /\ p \in todo
  /\ todo' = todo \ {p}
  /\ listeners' = listeners \ {p}
  /\ joining' = p
  /\ UNCHANGED <<pc, dead, responseVars, envVars, conf, loaded, do_reload,
                 do_shutdown, sessions, zz_database, kafkaVars>>

\* The done() of every decoder: the topics database gives its references back.
DecodersDone ==
  /\ pc = "join"
  /\ joining = NULL
  /\ todo = {}
  /\ pc' = "flush"
  /\ zz_database' = FALSE
  /\ UNCHANGED <<todo, joining, envVars, conf, loaded, do_reload, do_shutdown,
                 listenVars, sessions, kafkaVars>>

\* Mutant of StopStats: the topic is destroyed but not forgotten.
StopStatsKeeps ==
  /\ pc = "flush"
  /\ pc' = "drain"
  /\ UNCHANGED <<todo, joining, envVars, conf, loaded, do_reload, do_shutdown,
                 listenVars, sessions, zz_database, kafkaVars>>

\* flush_kafka() is over: stop_rdkafka() gives the statistics topic back.
StopStats ==
  /\ pc = "flush"
  /\ pc' = "drain"
  /\ stats_topic' = FALSE
  /\ UNCHANGED <<todo, joining, envVars, conf, loaded, do_reload, do_shutdown,
                 listenVars, sessions, zz_database, outq>>

\* Mutant of Destroy: messages may be left.
DestroyAnyway ==
  /\ pc = "drain"
  /\ pc' = "wait"
  /\ UNCHANGED <<todo, joining, envVars, conf, loaded, do_reload, do_shutdown,
                 listenVars, sessions, zz_database, kafkaVars>>

\* No message is left: rd_kafka_destroy().
Destroy ==
  /\ pc = "drain"
  /\ outq = 0
  /\ pc' = "wait"
  /\ UNCHANGED <<todo, joining, envVars, conf, loaded, do_reload, do_shutdown,
                 listenVars, sessions, zz_database, kafkaVars>>

\* rd_kafka_wait_destroyed() succeeds once no topic is referenced.
Exit ==
  /\ pc = "wait"
  /\ ~zz_database /\ ~stats_topic
  /\ \A p \in Ports : sessions[p] = 0
  /\ pc' = "exit"
  /\ UNCHANGED <<todo, joining, envVars, conf, loaded, do_reload, do_shutdown,
                 listenVars, sessions, zz_database, kafkaVars>>
-----------------------------------------------------------------------------
\* The process runs, and the main thread has installed the signal handlers.
Running == pc \notin {"exit", "failed"}
HasHandlers == Running /\ pc # "parse"

\* sighup_proc().
Sighup ==
  /\ HasHandlers
  /\ do_reload' = TRUE
  /\ UNCHANGED <<pc, todo, joining, envVars, conf, loaded, do_shutdown, listenVars,
                 sessions, zz_database, kafkaVars>>

\* shutdown_process().
Sigint ==
  /\ HasHandlers
  /\ do_shutdown' = TRUE
  /\ UNCHANGED <<pc, todo, joining, envVars, conf, loaded, do_reload, listenVars,
                 sessions, zz_database, kafkaVars>>

\* The configuration file changes.
Edit ==
  /\ Running
  /\ edits < MaxEdits
  /\ edits' = edits + 1
  /\ file' \in Configs \cup {Invalid}
  /\ UNCHANGED <<pc, todo, joining, conf, loaded, do_reload, do_shutdown, listenVars,
                 sessions, zz_database, kafkaVars>>

\* A request comes to a listener: new_session().
NewRequest(p) ==
  /\ Running
  /\ p \in listeners
  /\ sessions[p] < MaxSessions
  /\ sessions' = [sessions EXCEPT ![p] = @ + 1]
  /\ UNCHANGED <<pc, todo, joining, envVars, conf, loaded, do_reload, do_shutdown,
                 listenVars, zz_database, kafkaVars>>

\* The decoder gives a message to librdkafka.
Produce(p) ==
  /\ Running
  /\ sessions[p] > 0
  /\ outq < MaxOutq
  /\ outq' = outq + 1
  /\ UNCHANGED <<pc, todo, joining, envVars, conf, loaded, do_reload, do_shutdown,
                 listenVars, sessions, zz_database, stats_topic>>

\* Mutant of EndRequest: a session is deleted once more than it was created.
EndRequestAgain(p) ==
  /\ Running
  /\ sessions' = [sessions EXCEPT ![p] = @ - 1]
  /\ UNCHANGED <<pc, todo, joining, envVars, conf, loaded, do_reload, do_shutdown,
                 listenVars, zz_database, kafkaVars>>

\* The request ends, or MHD_stop_daemon() ends it: delete_session().
EndRequest(p) ==
  /\ Running
  /\ sessions[p] > 0
  /\ sessions' = [sessions EXCEPT ![p] = @ - 1]
  /\ UNCHANGED <<pc, todo, joining, envVars, conf, loaded, do_reload, do_shutdown,
                 listenVars, zz_database, kafkaVars>>

\* The main thread is in rd_kafka_poll().
Polling == pc \in {"poll", "flush", "drain"}

\* rd_kafka_poll() calls msg_delivered().
Delivered ==
  /\ Polling
  /\ outq > 0
  /\ outq' = outq - 1
  /\ UNCHANGED <<pc, todo, joining, envVars, conf, loaded, do_reload, do_shutdown,
                 listenVars, sessions, zz_database, stats_topic>>

\* rd_kafka_poll() calls rdkafka_stats_topic_cb().
StatsTopicCb ==
  /\ Polling
  /\ stats_topic
  /\ outq < MaxOutq
  /\ outq' = outq + 1
  /\ UNCHANGED <<pc, todo, joining, envVars, conf, loaded, do_reload, do_shutdown,
                 listenVars, sessions, zz_database, stats_topic>>

\* What the main thread does on its own.
MainStep ==
  \/ \E p \in Ports :
       \/ ParseListener(p) \/ StartListener(p) \/ StartListenerFails(p)
       \/ StartListenerUnread(p)
       \/ CheckListener(p) \/ ShutdownListener(p)
  \/ ParseEnds \/ LoopTest \/ PollReturns \/ ReloadConfig \/ CheckEnds
  \/ ReloadEnds \/ JoinEnds \/ Shutdown \/ DecodersDone \/ StopStats \/ Destroy
  \/ Exit

Next ==
  \/ MainStep
  \/ Sighup \/ Sigint \/ Edit
  \/ \E p \in Ports : NewRequest(p) \/ Produce(p) \/ EndRequest(p)
  \/ Delivered \/ StatsTopicCb

Spec == Init /\ [][Next]_vars

\* The main thread runs, librdkafka reports every message in the end, and a
\* request of a listener that is being joined comes to its end.
FairSpec ==
  /\ Spec
  /\ WF_vars(MainStep)
  /\ WF_vars(Delivered)
  /\ \A p \in Ports : WF_vars(joining = p /\ EndRequest(p))
-----------------------------------------------------------------------------
\* Every variable has the type of the field it stands for.
TypeOK ==
  /\ pc \in {"parse", "loop", "poll", "check", "create", "join", "flush", "drain",
             "wait", "exit", "failed"}
  /\ todo \subseteq Ports
  /\ joining \in Ports \cup {NULL}
  /\ file \in Configs \cup {Invalid} /\ conf \in Configs
  /\ edits \in Nat /\ loaded \in 0..edits
  /\ do_reload \in BOOLEAN /\ do_shutdown \in BOOLEAN
  /\ zz_database \in BOOLEAN /\ stats_topic \in BOOLEAN
  /\ listeners \subseteq Ports /\ dead \subseteq Ports
  /\ listeners_counter \in Nat /\ responses \in BOOLEAN
  /\ sessions \in [Ports -> 0..MaxSessions]
  /\ outq \in 0..MaxOutq

\* A decoder session never sees the topics database after its done(), and all
\* the less librdkafka after it was destroyed: free_global_config() first stops
\* what uses them, wherever SIGINT finds a reload and the requests.
SessionsComeFirst == (\E p \in Ports : sessions[p] > 0) => zz_database

\* Between reloads the process listens on the ports of the last configuration
\* that could be read, and on no other one: a listener that it no longer has is
\* gone, a new one is there unless its protocol is unknown or its keys could not
\* be read, and a broken file changes nothing.
ListenersMatch ==
  pc \in {"loop", "poll"} =>
    /\ listeners \subseteq PortsOf(conf)
    /\ {p \in Ports : conf[p] = "known"} \ dead \subseteq listeners

\* The answers that all HTTP listeners share exist as long as any request that
\* may need one, also a request of the listener that is being joined, and are
\* destroyed in the end (responses_listener_counter_incref and _decref).
ResponsesOutliveRequests ==
  /\ (\E p \in Ports : sessions[p] > 0) => responses
  /\ pc = "exit" => ~responses

\* Every message that librdkafka took has been reported before the process
\* exits (stop_rdkafka).
NothingUndelivered == pc = "exit" => outq = 0

\* After SIGINT the process exits: no join, no flush and no wait for librdkafka
\* goes on for ever, although requests and statistics keep coming until the end.
ShutdownEnds == do_shutdown ~> ~Running

\* A SIGHUP that comes while the main thread is not reloading is followed by a
\* reload that reads the file as it was at the signal, or as it is by then.
ReloadFollows ==
  \A v \in 0..MaxEdits :
    do_reload /\ pc \in {"loop", "poll"} /\ edits = v
      ~> loaded >= v \/ do_shutdown \/ ~Running
=============================================================================
