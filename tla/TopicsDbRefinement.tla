------------------------- MODULE TopicsDbRefinement -------------------------
(* The topic database implements TopicService, for any number of sessions,   *)
(* names and addresses.                                                      *)
EXTENDS TopicsDbProofs

\* What the mapping needs beyond IInv: a session has a name exactly while it
\* lives, it asked in the past, and a topic that is not in the table yet has the
\* timestamp that calloc() gave it.
SessionInv ==
  \A s \in Sessions :
    /\ pc[s] = "idle" <=> topic[s] = NULL
    /\ now[s] <= clock
    /\ pc[s] = "insert" => timestamp[ret[s]] = 0

LEMMA InitSessionInv == Init => SessionInv
BY DEF Init, SessionInv

LEMMA NextSessionInv == IInv /\ SessionInv /\ [Next]_vars => SessionInv'
<1> SUFFICES ASSUME IInv, SessionInv, [Next]_vars PROVE SessionInv'
  OBVIOUS
<1> USE DEF Goto, dbVars, memVars
<1>t. TypeOK /\ clock \in Nat /\ \A s \in Sessions : now[s] \in Nat
  BY DEF IInv, TypeOK
<1>1. ASSUME NEW s \in Sessions, NEW name \in Names, NewSession(s, name)
      PROVE  SessionInv'
  BY <1>t, <1>1, ConstantsAssumption DEF NewSession, SessionInv, TypeOK
<1>2. ASSUME NEW s \in Sessions, SearchHit(s) \/ SearchMiss(s) \/ InsertWon(s)
      PROVE  SessionInv'
  BY <1>t, <1>2 DEF SearchHit, SearchMiss, InsertWon, SessionInv, TypeOK
<1>3. ASSUME NEW s \in Sessions, NewTopic(s) PROVE SessionInv'
  <2>1. PICK h \in Handles \ live :
          /\ ret' = [ret EXCEPT ![s] = h]
          /\ timestamp' = [timestamp EXCEPT ![h] = 0]
    BY <1>3 DEF NewTopic
  <2>2. \A u \in Sessions : pc[u] = "insert" => ret[u] # h
    BY DEF IInv, NoDangling
  <2> QED  BY <1>t, <1>3, <2>1, <2>2 DEF NewTopic, SessionInv, TypeOK
<1>4. ASSUME NEW s \in Sessions, NewTopicFails(s) \/ FreeSession(s)
      PROVE  SessionInv'
  BY <1>t, <1>4 DEF NewTopicFails, FreeSession, SessionInv, TypeOK
<1>5. ASSUME NEW s \in Sessions, InsertLost(s) PROVE SessionInv'
  BY <1>t, <1>5 DEF InsertLost, SessionInv, TypeOK
<1>6. ASSUME NEW s \in Sessions, PurgeOne(s) PROVE SessionInv'
  BY <1>t, <1>6 DEF PurgeOne, sessVars, SessionInv
<1>7. ASSUME NEW s \in Sessions, GetTopicReturns(s) PROVE SessionInv'
  <2>1. \A u \in Sessions : pc[u] = "insert" => ret[u] # ret[s]
    BY <1>7 DEF GetTopicReturns, IInv, PurgeInv, InsertInv
  <2> QED  BY <1>t, <1>7, <2>1 DEF GetTopicReturns, SessionInv, TypeOK
<1>8. CASE TopicsDbDone
  BY <1>t, <1>8 DEF TopicsDbDone, sessVars, SessionInv
<1>9. CASE Tick
  BY <1>t, <1>9 DEF Tick, sessVars, SessionInv
<1>10. CASE UNCHANGED vars
  BY <1>10 DEF vars, sessVars, SessionInv
<1> QED
  BY <1>1, <1>2, <1>3, <1>4, <1>5, <1>6, <1>7, <1>8, <1>9, <1>10
     DEF Next, SessionStep

-----------------------------------------------------------------------------
\* The entry of the table that h is.
Entry(h) == [name |-> rkt_name[h], handle |-> h, stamp |-> timestamp[h]]

\* What the mapping shows is the same if no topic of the table changes.
LEMMA CachedSame ==
  ASSUME hashtable' = hashtable,
         \A h \in hashtable : rkt_name'[h] = rkt_name[h] /\ timestamp'[h] = timestamp[h]
  PROVE  Cached' = Cached
BY DEF Cached

\* ... and if nobody begins or ceases to hold a topic.
LEMMA HeldSame ==
  ASSUME \A s \in Sessions : /\ pc'[s] = "hold" <=> pc[s] = "hold"
                             /\ pc[s] = "hold" => ret'[s] = ret[s]
  PROVE  Held' = Held
BY DEF Held

\* A session that has asked and has no topic yet is one that waits.
LEMMA WaitsInside ==
  ASSUME NEW s \in Sessions, SessionInv, pc[s] \notin {"idle", "hold"}
  PROVE  Service!Waits(s)
BY DEF Service!Waits, SessionInv, Held

\* One step of the database is one step of the service, or none.
LEMMA StepRefines ==
  IInv /\ SessionInv /\ [Next]_vars => [Service!Next]_(Service!vars)
<1> SUFFICES ASSUME IInv, SessionInv, [Next]_vars
             PROVE  [Service!Next]_(Service!vars)
  OBVIOUS
<1> USE DEF Goto, dbVars, memVars
<1>t. TypeOK
  BY DEF IInv
<1>1. ASSUME NEW s \in Sessions, NEW name \in Names, NewSession(s, name)
      PROVE  Service!Next
  <2>1. Cached' = Cached
    BY <1>1, CachedSame DEF NewSession
  <2>2. Held' = Held
    BY <1>t, <1>1, HeldSame DEF NewSession, TypeOK
  <2>3. Service!Ask(s, name)
    BY <1>1, <2>1, <2>2 DEF NewSession, SessionInv, Service!Ask
  <2> QED  BY <2>3 DEF Service!Next
<1>2. ASSUME NEW s \in Sessions, SearchHit(s) \/ SearchMiss(s) \/ InsertLost(s)
      PROVE  UNCHANGED Service!vars
  <2>1. Cached' = Cached
    BY <1>2, CachedSame DEF SearchHit, SearchMiss, InsertLost
  <2>2. Held' = Held
    BY <1>t, <1>2, HeldSame DEF SearchHit, SearchMiss, InsertLost, TypeOK
  <2> QED  BY <1>2, <2>1, <2>2 DEF SearchHit, SearchMiss, InsertLost, Service!vars
<1>3. ASSUME NEW s \in Sessions, NewTopic(s) PROVE UNCHANGED Service!vars
  <2>1. PICK h \in Handles \ live :
          /\ rkt_name' = [rkt_name EXCEPT ![h] = topic[s]]
          /\ timestamp' = [timestamp EXCEPT ![h] = 0]
    BY <1>3 DEF NewTopic
  <2>2. h \notin hashtable
    BY DEF IInv, NoDangling
  <2>3. Cached' = Cached
    <3>1. hashtable' = hashtable /\ hashtable \subseteq Handles
      BY <1>t, <1>3 DEF NewTopic, TypeOK
    <3> QED  BY <1>t, <2>1, <2>2, <3>1, CachedSame DEF TypeOK
  <2>4. Held' = Held
    BY <1>t, <1>3, HeldSame DEF NewTopic, TypeOK
  <2> QED  BY <1>3, <2>3, <2>4 DEF NewTopic, Service!vars
<1>4. ASSUME NEW s \in Sessions, NewTopicFails(s) PROVE Service!Next
  <2>1. Cached' = Cached
    BY <1>4, CachedSame DEF NewTopicFails
  <2>2. Held' = Held
    BY <1>t, <1>4, HeldSame DEF NewTopicFails, TypeOK
  <2>3. Service!Waits(s)
    BY <1>4, WaitsInside DEF NewTopicFails
  <2>4. Service!Refuse(s)
    BY <1>4, <2>1, <2>2, <2>3 DEF NewTopicFails, Service!Refuse
  <2> QED  BY <2>4 DEF Service!Next
<1>5. ASSUME NEW s \in Sessions, InsertWon(s) PROVE Service!Next
  <2>1. /\ pc[s] = "insert" /\ Search(topic[s]) = {}
        /\ hashtable' = hashtable \cup {ret[s]}
        /\ pc' = [pc EXCEPT ![s] = "purge"]
        /\ UNCHANGED <<clock, closed, rkt_name, timestamp, topic, now, ret>>
    BY <1>5 DEF InsertWon
  <2>2. ret[s] \in Handles /\ rkt_name[ret[s]] = topic[s] /\ timestamp[ret[s]] = 0
    BY <1>t, <2>1 DEF IInv, NoDangling, SessionInv, TypeOK
  <2>3. \A e \in Cached : e.name # topic[s] /\ e.handle # ret[s]
    BY <2>1 DEF Cached, Search, IInv, InsertInv
  <2>4. \A r \in Sessions : Held[r] # ret[s]
    BY <2>1, <2>2, ConstantsAssumption DEF Held, IInv, InsertInv
  <2>5. Cached' = Cached \cup {[name |-> topic[s], handle |-> ret[s], stamp |-> 0]}
    BY <2>1, <2>2 DEF Cached
  <2>6. Held' = Held
    BY <1>t, <2>1, HeldSame DEF TypeOK
  <2>7. Service!Waits(s)
    BY <2>1, WaitsInside
  <2>8. Service!Create(s, ret[s])
    BY <2>1, <2>3, <2>4, <2>5, <2>6, <2>7 DEF Service!Create
  <2> QED  BY <2>2, <2>8 DEF Service!Next
<1>6. ASSUME NEW s \in Sessions, PurgeOne(s) PROVE Service!Next
  <2>1. PICK i \in DOMAIN lru :
          /\ OlderThan(lru[i], s)
          /\ hashtable' = hashtable \ {lru[i]}
    BY <1>6 DEF PurgeOne
  <2> DEFINE h == lru[i]
  <2>2. h \in hashtable /\ h \in Handles
    <3>1. lru[i] \in Range(lru)
      BY DEF Range
    <3>2. Range(lru) \subseteq hashtable
      BY DEF IInv, LruMatchesTable
    <3> QED  BY <1>t, <3>1, <3>2 DEF TypeOK
  <2>3. UNCHANGED <<clock, closed, rkt_name, timestamp, pc, topic, now, ret>>
    BY <1>6 DEF PurgeOne, sessVars
  <2> HIDE DEF h
  <2>4. Entry(h) \in Cached /\ Cached' = Cached \ {Entry(h)}
    BY <2>1, <2>2, <2>3 DEF Cached, Entry, h
  <2>5. Held' = Held
    BY <2>3, HeldSame
  <2>6. timestamp[h] < clock - LiveTime
    <3>1. timestamp[h] < now[s] - LiveTime
      BY <2>1 DEF OlderThan, h
    <3>2. timestamp[h] \in Nat /\ now[s] \in Nat /\ clock \in Nat /\ now[s] <= clock
      BY <1>t, <2>2 DEF TypeOK, SessionInv
    <3> QED  BY <3>1, <3>2, ConstantsAssumption
  <2>7. Service!Expire(Entry(h))
    BY <2>3, <2>4, <2>5, <2>6 DEF Service!Expire, Entry
  <2> QED  BY <2>4, <2>7 DEF Service!Next
<1>7. ASSUME NEW s \in Sessions, GetTopicReturns(s) PROVE Service!Next
  <2>1. /\ pc[s] = "purge"
        /\ timestamp' = [timestamp EXCEPT ![ret[s]] = now[s]]
        /\ pc' = [pc EXCEPT ![s] = "hold"]
        /\ now' = [now EXCEPT ![s] = 0]
        /\ UNCHANGED <<clock, closed, hashtable, rkt_name, topic, ret>>
    BY <1>7 DEF GetTopicReturns
  <2> DEFINE h == ret[s]
             e == Entry(h)
  <2>2. h \in hashtable /\ h \in Handles /\ rkt_name[h] = topic[s]
    BY <1>t, <2>1 DEF IInv, PurgeInv, NoDangling, TypeOK
  <2>3. e \in Cached /\ e.name = topic[s] /\ e.handle = h
    BY <2>2 DEF Cached, Entry
  <2>4. Cached' = (Cached \ {e})
                    \cup {[name |-> e.name, handle |-> e.handle, stamp |-> now[s]]}
    <3>1. \A g \in hashtable : timestamp'[g] = IF g = h THEN now[s] ELSE timestamp[g]
      BY <1>t, <2>1 DEF TypeOK
    <3> HIDE DEF h
    <3> QED  BY <2>1, <2>2, <3>1 DEF Cached, Entry
  <2>5. Held' = [Held EXCEPT ![s] = h]
    BY <1>t, <2>1 DEF Held, TypeOK
  <2>6. Service!Waits(s)
    BY <2>1, WaitsInside
  <2>7. Service!Grant(s, e)
    <3> HIDE DEF e
    <3> QED  BY <2>1, <2>3, <2>4, <2>5, <2>6 DEF Service!Grant
  <2> QED  BY <2>3, <2>7 DEF Service!Next
<1>8. ASSUME NEW s \in Sessions, FreeSession(s) PROVE Service!Next
  <2>1. Cached' = Cached
    BY <1>8, CachedSame DEF FreeSession
  <2>2. Held[s] # NULL /\ Held' = [Held EXCEPT ![s] = NULL]
    <3>1. pc[s] = "hold" /\ ret[s] \in Handles
      BY <1>t, <1>8 DEF FreeSession, IInv, NoDangling, TypeOK
    <3> QED  BY <1>t, <1>8, <3>1, ConstantsAssumption DEF FreeSession, Held, TypeOK
  <2>3. Service!Release(s)
    BY <1>8, <2>1, <2>2 DEF FreeSession, Service!Release
  <2> QED  BY <2>3 DEF Service!Next
<1>9. CASE TopicsDbDone
  <2>1. Cached' = {}
    BY <1>9 DEF TopicsDbDone, Cached
  <2>2. Held' = Held
    BY <1>9, HeldSame DEF TopicsDbDone, sessVars
  <2>3. ASSUME NEW s \in Sessions PROVE ~Service!Waits(s)
    <3>1. CASE pc[s] = "idle"
      BY <3>1 DEF SessionInv, Service!Waits
    <3>2. CASE pc[s] = "hold"
      <4>1. ret[s] \in Handles
        BY <1>t, <3>2 DEF IInv, NoDangling, TypeOK
      <4> QED  BY <3>2, <4>1, ConstantsAssumption DEF Held, Service!Waits
    <3> QED  BY <1>9, <3>1, <3>2 DEF TopicsDbDone
  <2>4. Service!Close
    BY <1>9, <2>1, <2>2, <2>3 DEF TopicsDbDone, sessVars, Service!Close
  <2> QED  BY <2>4 DEF Service!Next
<1>10. CASE Tick
  <2>1. Cached' = Cached /\ Held' = Held
    BY <1>10, CachedSame, HeldSame DEF Tick, sessVars
  <2>2. Service!Tick
    BY <1>10, <2>1 DEF Tick, sessVars, Service!Tick
  <2> QED  BY <2>2 DEF Service!Next
<1>11. CASE UNCHANGED vars
  <2>1. Cached' = Cached /\ Held' = Held
    BY <1>11, CachedSame, HeldSame DEF vars, sessVars
  <2> QED  BY <1>11, <2>1 DEF vars, sessVars, Service!vars
<1> QED
  BY <1>1, <1>2, <1>3, <1>4, <1>5, <1>6, <1>7, <1>8, <1>9, <1>10, <1>11
     DEF Next, SessionStep

\* The topic database implements the service: whatever the sessions do and
\* however their critical sections and atomic operations are interleaved, what
\* topics_db_get_topic() returns, and when a topic is dropped or made again, is
\* what an atomic cache would do.
THEOREM Implementation == Spec => ImplementsService
<1>1. Init => Service!Init
  BY DEF Init, Service!Init, Cached, Held
<1>2. Spec => []SessionInv
  BY InitSessionInv, NextSessionInv, Invariance, PTL DEF Spec
<1> QED
  BY <1>1, <1>2, StepRefines, Invariance, PTL DEF Spec, ImplementsService, Service!Spec
=============================================================================
