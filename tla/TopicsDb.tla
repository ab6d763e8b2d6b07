------------------------------ MODULE TopicsDb ------------------------------
(***************************************************************************)
(* The topic database of the zz_http2k decoder (util/topic_database.c): a  *)
(* cache of reference-counted librdkafka topic handles, shared by all the  *)
(* HTTP sessions.  A session asks for its topic when it is created         *)
(* (new_zz_session), uses the handle while it lives and gives it back when *)
(* it is freed (free_zz_session).  The database keeps one reference of its *)
(* own per cached topic and drops it when the topic has not been asked for *)
(* in the last LiveTime seconds, or at topics_db_done.                     *)
(*                                                                         *)
(* The mutex protects the hash table and the LRU list; the reference       *)
(* counts are atomic and change outside of it.  A step is the code between *)
(* two points where another thread can be observed: taking or releasing    *)
(* the mutex, or an atomic operation.                                      *)
(***************************************************************************)
EXTENDS Integers, Sequences, FiniteSets, Functions

CONSTANTS
  Sessions,   \* decoder sessions: the requests that are being served
  Names,      \* topic names
  Handles,    \* addresses where a struct topic_s can be allocated
  LiveTime,   \* topic_live_time_s
  MaxTime,    \* bound of the clock
  NULL

ASSUME ConstantsAssumption ==
  /\ IsFiniteSet(Sessions)
  /\ LiveTime \in Nat /\ MaxTime \in Nat
  /\ NULL \notin Sessions /\ NULL \notin Names /\ NULL \notin Handles

VARIABLES
  clock,      \* time(NULL)
  closed,     \* topics_db_done has run
  lock,       \* session that owns db->lock, or NULL
  hashtable,  \* set of the handles in db->hashtable
  lru,        \* db->lru, head first
  live,       \* handles allocated and not yet destroyed
  rkt_name,   \* rd_kafka_topic_name(topic->rkt) of each handle
  refcnt,     \* topic->refcnt of each handle
  timestamp,  \* topic->timestamp of each handle
  pc,         \* where each session is
  topic,      \* the name a session asked for
  now,        \* the time it asked at
  ret         \* its local variable ret; sess->topic_handler afterwards

dbVars == <<hashtable, lru>>
memVars == <<live, rkt_name, refcnt, timestamp>>
sessVars == <<pc, topic, now, ret>>
vars == <<clock, closed, lock, dbVars, memVars, sessVars>>

\* "idle": no session.  "search": about to take the lock for the first time.
\* "new": missed, creating a topic without the lock.  "insert": about to take
\* the lock again.  "purge": has the lock and a topic.  "hold": has its topic.
Locations == {"idle", "search", "new", "insert", "purge", "hold"}

Init ==
  /\ clock = 0
  /\ closed = FALSE
  /\ lock = NULL
  /\ hashtable = {}
  /\ lru = <<>>
  /\ live = {}
  /\ rkt_name = [h \in Handles |-> NULL]
  /\ refcnt = [h \in Handles |-> 0]
  /\ timestamp = [h \in Handles |-> 0]
  /\ pc = [s \in Sessions |-> "idle"]
  /\ topic = [s \in Sessions |-> NULL]
  /\ now = [s \in Sessions |-> 0]
  /\ ret = [s \in Sessions |-> NULL]

-----------------------------------------------------------------------------
\* tommy_hashdyn_search(): the entries with this name.
Search(name) == {h \in hashtable : rkt_name[h] = name}

\* tommy_list_remove_existing(): list without the node of h.
ListRemove(list, h) ==
  IF \E i \in DOMAIN list : list[i] = h
  THEN LET i == CHOOSE i \in DOMAIN list : list[i] = h
       IN  SubSeq(list, 1, i - 1) \o SubSeq(list, i + 1, Len(list))
  ELSE list

\* topic_decref(): atomic decrement; whoever reaches zero destroys the topic.
TopicDecref(h) ==
  /\ refcnt' = [refcnt EXCEPT ![h] = @ - 1]
  /\ live' = IF refcnt[h] = 1 THEN live \ {h} ELSE live

\* Mutant of OlderThan: off by one, a topic of LiveTime seconds is old.
NotNewerThan(h, s) == timestamp[h] <= now[s] - LiveTime

\* node_older_than() with the age limit of the request of session s.
OlderThan(h, s) == timestamp[h] < now[s] - LiveTime

Goto(s, l) == pc' = [pc EXCEPT ![s] = l]

\* A request arrives: new_zz_session() reads the clock, then calls
\* topics_db_get_topic().  Whatever the thread scheduler does after that, `now`
\* is the time of this step.
NewSession(s, name) ==
  /\ pc[s] = "idle"
  /\ ~closed
  /\ Goto(s, "search")
  /\ topic' = [topic EXCEPT ![s] = name]
  /\ now' = [now EXCEPT ![s] = clock]
  /\ UNCHANGED <<clock, closed, lock, dbVars, memVars, ret>>

\* Mutant of SearchHit: the topic stays in the LRU list, within reach of the
\* purge.
SearchHitKeepsNode(s) ==
  /\ pc[s] = "search"
  /\ lock = NULL
  /\ \E h \in Search(topic[s]) : ret' = [ret EXCEPT ![s] = h]
  /\ lock' = s
  /\ Goto(s, "purge")
  /\ UNCHANGED <<clock, closed, dbVars, memVars, topic, now>>

\* The first search finds the topic; it leaves the LRU list.
SearchHit(s) ==
  /\ pc[s] = "search"
  /\ lock = NULL
  /\ \E h \in Search(topic[s]) :
       /\ ret' = [ret EXCEPT ![s] = h]
       /\ lru' = ListRemove(lru, h)
  /\ lock' = s
  /\ Goto(s, "purge")
  /\ UNCHANGED <<clock, closed, hashtable, memVars, topic, now>>

\* The first search misses: the lock is released again.
SearchMiss(s) ==
  /\ pc[s] = "search"
  /\ lock = NULL
  /\ Search(topic[s]) = {}
  /\ Goto(s, "new")
  /\ UNCHANGED <<clock, closed, lock, dbVars, memVars, topic, now, ret>>

\* new_topic_s(): a fresh topic with one reference and, from calloc(), a zero
\* timestamp.
NewTopic(s) ==
  /\ pc[s] = "new"
  /\ \E h \in Handles \ live :
       /\ ret' = [ret EXCEPT ![s] = h]
       /\ live' = live \cup {h}
       /\ rkt_name' = [rkt_name EXCEPT ![h] = topic[s]]
       /\ refcnt' = [refcnt EXCEPT ![h] = 1]
       /\ timestamp' = [timestamp EXCEPT ![h] = 0]
  /\ Goto(s, "insert")
  /\ UNCHANGED <<clock, closed, lock, dbVars, topic, now>>

\* new_topic_s() fails, and so does the session.
NewTopicFails(s) ==
  /\ pc[s] = "new"
  /\ Goto(s, "idle")
  /\ topic' = [topic EXCEPT ![s] = NULL]
  /\ now' = [now EXCEPT ![s] = 0]
  /\ UNCHANGED <<clock, closed, lock, dbVars, memVars, ret>>

\* The second search finds what another session inserted meanwhile: the new
\* topic is dropped and the other one is used.
InsertLost(s) ==
  /\ pc[s] = "insert"
  /\ lock = NULL
  /\ \E aux \in Search(topic[s]) :
       /\ ret' = [ret EXCEPT ![s] = aux]
       /\ lru' = ListRemove(lru, aux)
  /\ TopicDecref(ret[s])
  /\ lock' = s
  /\ Goto(s, "purge")
  /\ UNCHANGED <<clock, closed, hashtable, rkt_name, timestamp, topic, now>>

\* Mutant of InsertWon: no second search.
InsertUnchecked(s) ==
  /\ pc[s] = "insert"
  /\ lock = NULL
  /\ hashtable' = hashtable \cup {ret[s]}
  /\ lock' = s
  /\ Goto(s, "purge")
  /\ UNCHANGED <<clock, closed, lru, memVars, topic, now, ret>>

\* The second search misses too: the new topic enters the hash table, and its
\* creator's reference becomes the database's.
InsertWon(s) ==
  /\ pc[s] = "insert"
  /\ lock = NULL
  /\ Search(topic[s]) = {}
  /\ hashtable' = hashtable \cup {ret[s]}
  /\ lock' = s
  /\ Goto(s, "purge")
  /\ UNCHANGED <<clock, closed, lru, memVars, topic, now, ret>>

\* Mutant of PurgeOne: the topic stays in the hash table.
PurgeListOnly(s) ==
  /\ pc[s] = "purge"
  /\ \E i \in DOMAIN lru :
       /\ OlderThan(lru[i], s)
       /\ lru' = ListRemove(lru, lru[i])
       /\ TopicDecref(lru[i])
  /\ UNCHANGED <<clock, closed, lock, hashtable, rkt_name, timestamp, sessVars>>

\* One turn of purge_topics_older_than(): the first old node of the list goes,
\* with the database's reference.  Other sessions may decrement in between.
PurgeOne(s) ==
  /\ pc[s] = "purge"
  /\ \E i \in DOMAIN lru :
       /\ OlderThan(lru[i], s)
       /\ \A j \in DOMAIN lru : j < i => ~OlderThan(lru[j], s)
       /\ hashtable' = hashtable \ {lru[i]}
       /\ lru' = ListRemove(lru, lru[i])
       /\ TopicDecref(lru[i])
  /\ UNCHANGED <<clock, closed, lock, rkt_name, timestamp, sessVars>>

\* Mutants of GetTopicReturns: no reference for the session; no unlock.
ReturnBorrowed(s) ==
  /\ pc[s] = "purge"
  /\ \A i \in DOMAIN lru : ~OlderThan(lru[i], s)
  /\ timestamp' = [timestamp EXCEPT ![ret[s]] = now[s]]
  /\ lru' = Append(lru, ret[s])
  /\ lock' = NULL
  /\ Goto(s, "hold")
  /\ now' = [now EXCEPT ![s] = 0]
  /\ UNCHANGED <<clock, closed, hashtable, live, rkt_name, refcnt, topic, ret>>

ReturnLocked(s) ==
  /\ pc[s] = "purge"
  /\ \A i \in DOMAIN lru : ~OlderThan(lru[i], s)
  /\ timestamp' = [timestamp EXCEPT ![ret[s]] = now[s]]
  /\ lru' = Append(lru, ret[s])
  /\ refcnt' = [refcnt EXCEPT ![ret[s]] = @ + 1]
  /\ Goto(s, "hold")
  /\ now' = [now EXCEPT ![s] = 0]
  /\ UNCHANGED <<clock, closed, lock, hashtable, live, rkt_name, topic, ret>>

\* The list has no old node left: the topic is stamped, goes to the tail, gets
\* the session's reference, and the lock is released.
GetTopicReturns(s) ==
  /\ pc[s] = "purge"
  /\ \A i \in DOMAIN lru : ~OlderThan(lru[i], s)
  /\ timestamp' = [timestamp EXCEPT ![ret[s]] = now[s]]
  /\ lru' = Append(lru, ret[s])
  /\ refcnt' = [refcnt EXCEPT ![ret[s]] = @ + 1]
  /\ lock' = NULL
  /\ Goto(s, "hold")
  /\ now' = [now EXCEPT ![s] = 0]
  /\ UNCHANGED <<clock, closed, hashtable, live, rkt_name, topic, ret>>

\* Mutant of FreeSession: the session is freed again later.
FreeSessionAgain(s) ==
  /\ pc[s] = "hold"
  /\ TopicDecref(ret[s])
  /\ UNCHANGED <<clock, closed, lock, dbVars, rkt_name, timestamp, sessVars>>

\* The request ends: free_zz_session(), or the error path of new_zz_session()
\* when the JSON or XML handler cannot be allocated.
FreeSession(s) ==
  /\ pc[s] = "hold"
  /\ TopicDecref(ret[s])
  /\ Goto(s, "idle")
  /\ topic' = [topic EXCEPT ![s] = NULL]
  /\ ret' = [ret EXCEPT ![s] = NULL]
  /\ UNCHANGED <<clock, closed, lock, dbVars, rkt_name, timestamp, now>>

\* Mutant of TopicsDbDone: the table is freed, the topics in it are not.
TopicsDbForget ==
  /\ ~closed
  /\ \A s \in Sessions : pc[s] \in {"idle", "hold"}
  /\ closed' = TRUE
  /\ hashtable' = {}
  /\ lru' = <<>>
  /\ UNCHANGED <<clock, lock, memVars, sessVars>>

\* topics_db_done(): the database drops its references.  No search may be in
\* progress or start later; sessions may still hold their topics.
TopicsDbDone ==
  /\ ~closed
  /\ \A s \in Sessions : pc[s] \in {"idle", "hold"}
  /\ closed' = TRUE
  /\ hashtable' = {}
  /\ lru' = <<>>
  /\ refcnt' = [h \in Handles |->
                  IF h \in hashtable THEN refcnt[h] - 1 ELSE refcnt[h]]
  /\ live' = live \ {h \in hashtable : refcnt[h] = 1}
  /\ UNCHANGED <<clock, lock, rkt_name, timestamp, sessVars>>

Tick ==
  /\ clock < MaxTime
  /\ clock' = clock + 1
  /\ UNCHANGED <<closed, lock, dbVars, memVars, sessVars>>

\* What session s does once it exists.
SessionStep(s) ==
  \/ SearchHit(s)
  \/ SearchMiss(s)
  \/ NewTopic(s)
  \/ NewTopicFails(s)
  \/ InsertLost(s)
  \/ InsertWon(s)
  \/ PurgeOne(s)
  \/ GetTopicReturns(s)
  \/ FreeSession(s)

Next ==
  \/ \E s \in Sessions, name \in Names : NewSession(s, name)
  \/ \E s \in Sessions : SessionStep(s)
  \/ TopicsDbDone
  \/ Tick

Spec == Init /\ [][Next]_vars

\* Threads run, and libmicrohttpd completes every request it started, at the
\* latest when the daemon is stopped.
FairSpec == Spec /\ \A s \in Sessions : WF_vars(SessionStep(s))
-----------------------------------------------------------------------------
\* The sessions that own a reference of h: its creator until the topic is in
\* the hash table, and whoever topics_db_get_topic() returned it to.
Owners(h) == {s \in Sessions : pc[s] \in {"insert", "hold"} /\ ret[s] = h}

\* Every variable has the type of the field it stands for; no reference count
\* wraps below zero.
TypeOK ==
  /\ clock \in Nat
  /\ closed \in BOOLEAN
  /\ lock \in Sessions \cup {NULL}
  /\ hashtable \subseteq Handles
  /\ lru \in Seq(Handles)
  /\ live \subseteq Handles
  /\ rkt_name \in [Handles -> Names \cup {NULL}]
  /\ refcnt \in [Handles -> Nat]
  /\ timestamp \in [Handles -> Nat]
  /\ pc \in [Sessions -> Locations]
  /\ topic \in [Sessions -> Names \cup {NULL}]
  /\ now \in [Sessions -> Nat]
  /\ ret \in [Sessions -> Handles \cup {NULL}]

\* The count of a topic is the number of its owners, the database included, at
\* every instant (topic_decref, topics_db_get_topic and topics_db_done agree on
\* who owns what), and a topic is destroyed exactly when it has none: neither
\* early nor never.
RefcntExact ==
  \A h \in Handles :
    /\ refcnt[h] = Cardinality(Owners(h)) + (IF h \in hashtable THEN 1 ELSE 0)
    /\ h \in live <=> refcnt[h] > 0

\* No use after free: the topic a session is working with is allocated and has
\* the name the session asked for, also in the middle of topics_db_get_topic(),
\* where the session has found the topic and has no reference of its own yet;
\* and so is every topic that a search or a purge can reach.
NoDangling ==
  /\ \A s \in Sessions : pc[s] \in {"insert", "purge", "hold"} =>
       ret[s] \in live /\ rkt_name[ret[s]] = topic[s]
  /\ hashtable \subseteq live
  /\ \A i \in DOMAIN lru : lru[i] \in live

\* The race that the second search of topics_db_get_topic() is for: sessions
\* that miss together never insert the same name twice.
OneEntryPerName ==
  \A g, h \in hashtable : rkt_name[g] = rkt_name[h] => g = h

\* The two structures agree: the LRU list holds every topic of the hash table
\* once, except the one the owner of the lock has taken out of it.
\* tommy_list_remove_existing() and tommy_hashdyn_remove_existing() depend on it.
LruMatchesTable ==
  /\ IsInjective(lru)
  /\ Range(lru) = IF lock = NULL THEN hashtable ELSE hashtable \ {ret[lock]}

\* The table as the sessions see it, and the handles they were given.
Cached == {[name |-> rkt_name[h], handle |-> h, stamp |-> timestamp[h]] :
             h \in hashtable}
Held == [s \in Sessions |-> IF pc[s] = "hold" THEN ret[s] ELSE NULL]

Service == INSTANCE TopicService
             WITH cache <- Cached, asked <- topic, since <- now, holds <- Held

\* topics_db_get_topic(), in as many critical sections and atomic operations as it
\* has, is what TopicService says: its callers cannot tell that the search, the
\* creation, the purge and the return are not one step.  Whoever asks for a
\* name gets the handle that is cached for it; a handle is not used again while
\* a session has it; a topic is dropped only if its last user asked for it more
\* than topic_live_time_s ago.
ImplementsService == Service!Spec

\* purge_topics_older_than() ends and the mutex is always released.
LockIsReleased == (lock # NULL) ~> (lock = NULL)

\* After topics_db_done() every topic is destroyed once the sessions that keep
\* one are gone, as stop_rdkafka() needs: it waits until librdkafka has no
\* topic left.
NothingLeaks == closed ~> (live = {})
=============================================================================
