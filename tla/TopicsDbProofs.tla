--------------------------- MODULE TopicsDbProofs ---------------------------
(* Proofs about TopicsDb, for any number of sessions, names and addresses. *)
EXTENDS TopicsDb, FiniteSetTheorems, SequenceTheorems, TLAPS

\* Unlinking a node from a list without duplicates (tommy_list_remove_existing)
\* removes that element and leaves the others.
LEMMA ListRemoveProperties ==
  ASSUME NEW S, NEW list \in Seq(S), NEW h, IsInjective(list)
  PROVE  /\ ListRemove(list, h) \in Seq(S)
         /\ IsInjective(ListRemove(list, h))
         /\ Range(ListRemove(list, h)) = Range(list) \ {h}
<1>1. CASE ~ \E i \in DOMAIN list : list[i] = h
  BY <1>1 DEF ListRemove, Range
<1>2. CASE \E i \in DOMAIN list : list[i] = h
  <2> DEFINE i == CHOOSE j \in DOMAIN list : list[j] = h
             n == Len(list)
             r == SubSeq(list, 1, i - 1) \o SubSeq(list, i + 1, n)
  <2>1. i \in 1..n /\ list[i] = h /\ n \in Nat /\ DOMAIN list = 1..n
    BY <1>2
  <2>2. ListRemove(list, h) = r
    BY <1>2 DEF ListRemove
  <2> HIDE DEF i
  <2>3. /\ r \in Seq(S)
        /\ Len(r) = n - 1
        /\ \A j \in 1..(n - 1) : r[j] = IF j < i THEN list[j] ELSE list[j + 1]
    <3> DEFINE a == SubSeq(list, 1, i - 1)
               b == SubSeq(list, i + 1, n)
    <3>1. a \in Seq(S) /\ Len(a) = i - 1 /\ \A j \in 1..(i - 1) : a[j] = list[j]
      BY <2>1
    <3>2. b \in Seq(S) /\ Len(b) = n - i /\ \A j \in 1..(n - i) : b[j] = list[i + j]
      <4>1. i + 1 \in Int /\ n \in Int /\ \A k \in (i + 1)..n : list[k] \in S
        BY <2>1
      <4>2. /\ b \in Seq(S)
            /\ Len(b) = IF i + 1 <= n THEN n - (i + 1) + 1 ELSE 0
            /\ \A k \in 1..(n - (i + 1) + 1) : b[k] = list[(i + 1) + k - 1]
        <5> DEFINE m == i + 1
        <5>1. b = SubSeq(list, m, n)
          OBVIOUS
        <5> HIDE DEF b, n, m
        <5>2. m \in Int /\ n \in Int /\ \A k \in m..n : list[k] \in S
          BY <4>1 DEF m
        <5>3. /\ SubSeq(list, m, n) \in Seq(S)
              /\ Len(SubSeq(list, m, n)) = IF m <= n THEN n - m + 1 ELSE 0
              /\ \A k \in 1..(n - m + 1) : SubSeq(list, m, n)[k] = list[m + k - 1]
          BY <5>2, SubSeqProperties
        <5> QED  BY <5>1, <5>3, Zenon DEF m
      <4> HIDE DEF b, n
      <4>3. Len(b) = n - i
        BY <2>1, <4>2
      <4>4. ASSUME NEW j \in 1..(n - i)
            PROVE  b[j] = list[i + j]
        <5>1. j \in 1..(n - (i + 1) + 1) /\ (i + 1) + j - 1 = i + j
          BY <2>1
        <5>2. b[j] = list[(i + 1) + j - 1]
          BY <4>2, <5>1, Zenon
        <5> QED  BY <5>1, <5>2, Zenon
      <4> QED  BY <4>2, <4>3, <4>4
    <3> HIDE DEF a, b
    <3>3. /\ a \o b \in Seq(S)
          /\ Len(a \o b) = Len(a) + Len(b)
          /\ \A j \in 1..(Len(a) + Len(b)) :
               (a \o b)[j] = IF j <= Len(a) THEN a[j] ELSE b[j - Len(a)]
      BY <3>1, <3>2, ConcatProperties, Zenon
    <3>4. r = a \o b
      BY DEF a, b
    <3> HIDE DEF r, n
    <3>5. Len(r) = n - 1
      <4>1. Len(r) = (i - 1) + (n - i)
        BY <3>1, <3>2, <3>3, <3>4, Zenon
      <4> QED  BY <2>1, <4>1
    <3>6. ASSUME NEW j \in 1..(n - 1)
          PROVE  r[j] = IF j < i THEN list[j] ELSE list[j + 1]
      <4>1. r[j] = IF j <= i - 1 THEN a[j] ELSE b[j - (i - 1)]
        <5>1. j \in 1..((i - 1) + (n - i))
          BY <2>1
        <5> QED  BY <3>1, <3>2, <3>3, <3>4, <5>1, Zenon
      <4>2. CASE j < i
        BY <2>1, <3>1, <4>1, <4>2
      <4>3. CASE ~(j < i)
        <5>1. j - (i - 1) \in 1..(n - i) /\ i + (j - (i - 1)) = j + 1
          BY <2>1, <4>3
        <5>2. b[j - (i - 1)] = list[j + 1]
          BY <3>2, <5>1
        <5> QED  BY <2>1, <4>1, <4>3, <5>2
      <4> QED  BY <4>2, <4>3
    <3> QED  BY <3>3, <3>4, <3>5, <3>6
  <2> HIDE DEF r
  <2>4. DOMAIN r = 1..(n - 1)
    BY <2>1, <2>3
  <2>5. IsInjective(r)
    <3> HIDE DEF n
    <3>1. SUFFICES ASSUME NEW j \in 1..(n - 1), NEW k \in 1..(n - 1), r[j] = r[k]
                   PROVE  j = k
      BY <2>4, Zenon DEF IsInjective
    <3> DEFINE at(m) == IF m < i THEN m ELSE m + 1
    <3>2. at(j) \in 1..n /\ at(k) \in 1..n
      BY <2>1
    <3>3. r[j] = list[at(j)] /\ r[k] = list[at(k)]
      BY <2>3
    <3>4. at(j) = at(k)
      <4> HIDE DEF at
      <4> QED  BY <2>1, <3>1, <3>2, <3>3, Zenon DEF IsInjective
    <3> QED  BY <2>1, <3>4
  <2>6. ASSUME NEW x \in Range(r) PROVE x \in Range(list) \ {h}
    <3>1. PICK j \in 1..(n - 1) : r[j] = x
      BY <2>4 DEF Range
    <3>2. \E k \in 1..n : k # i /\ list[k] = x
      BY <2>1, <2>3, <3>1
    <3> QED  BY <2>1, <3>2 DEF Range, IsInjective
  <2>7. ASSUME NEW x \in Range(list) \ {h} PROVE x \in Range(r)
    <3>1. PICK k \in 1..n : list[k] = x /\ k # i
      BY <2>1 DEF Range
    <3>2. CASE k < i
      BY <2>1, <2>3, <2>4, <3>1, <3>2 DEF Range
    <3>3. CASE k > i
      <4>1. k - 1 \in 1..(n - 1) /\ r[k - 1] = x
        BY <2>1, <2>3, <3>1, <3>3
      <4> QED  BY <2>4, <4>1 DEF Range
    <3> QED  BY <2>1, <3>1, <3>2, <3>3
  <2> QED  BY <2>2, <2>3, <2>5, <2>6, <2>7
<1> QED  BY <1>1, <1>2

-----------------------------------------------------------------------------
\* The mutex and the program counters agree.
LockInv == \A s \in Sessions : pc[s] = "purge" <=> lock = s

\* A session inside the critical section works on a topic of the table; the
\* database's reference keeps it alive.
PurgeInv == \A s \in Sessions : pc[s] = "purge" => ret[s] \in hashtable

\* A topic that is not in the table yet is its creator's alone.
InsertInv ==
  \A s \in Sessions : pc[s] = "insert" =>
    /\ ret[s] \notin hashtable
    /\ \A u \in Sessions : pc[u] \in {"insert", "hold"} /\ ret[u] = ret[s] => u = s

IInv ==
  /\ TypeOK
  /\ RefcntExact
  /\ NoDangling
  /\ OneEntryPerName
  /\ LruMatchesTable
  /\ LockInv
  /\ PurgeInv
  /\ InsertInv

-----------------------------------------------------------------------------
\* The owners of a topic can be counted.
LEMMA OwnersFinite ==
  ASSUME NEW h
  PROVE  IsFiniteSet(Owners(h)) /\ Cardinality(Owners(h)) \in Nat
<1>1. Owners(h) \in SUBSET Sessions
  BY DEF Owners
<1> QED  BY <1>1, FS_Subset, FS_CardinalityType, ConstantsAssumption

\* A reference gained by s.
LEMMA CountAdd ==
  ASSUME NEW h, NEW s, s \notin Owners(h)
  PROVE  Cardinality(Owners(h) \cup {s}) = Cardinality(Owners(h)) + 1
BY OwnersFinite, FS_AddElement

\* A reference lost by s.
LEMMA CountRemove ==
  ASSUME NEW h, NEW s, s \in Owners(h)
  PROVE  /\ Cardinality(Owners(h) \ {s}) = Cardinality(Owners(h)) - 1
         /\ Cardinality(Owners(h)) >= 1
<1>1. Cardinality(Owners(h) \ {s}) = Cardinality(Owners(h)) - 1
  BY OwnersFinite, FS_RemoveElement
<1>2. Cardinality(Owners(h)) # 0
  BY OwnersFinite, FS_EmptySet
<1> QED  BY <1>1, <1>2, OwnersFinite

\* A topic without owners is not counted.
LEMMA CountNone ==
  ASSUME NEW h, Cardinality(Owners(h)) = 0
  PROVE  Owners(h) = {}
BY OwnersFinite, FS_EmptySet

-----------------------------------------------------------------------------
LEMMA InitIInv == Init => IInv
<1> SUFFICES ASSUME Init PROVE IInv
  OBVIOUS
<1>1. TypeOK
  <2>1. closed \in BOOLEAN
    BY Zenon DEF Init
  <2>2. lru \in Seq(Handles)
    BY DEF Init
  <2>3. /\ pc \in [Sessions -> Locations]
        /\ refcnt \in [Handles -> Nat]
        /\ timestamp \in [Handles -> Nat]
        /\ now \in [Sessions -> Nat]
        /\ clock \in Nat
    BY DEF Init, Locations
  <2>4. /\ rkt_name \in [Handles -> Names \cup {NULL}]
        /\ topic \in [Sessions -> Names \cup {NULL}]
        /\ ret \in [Sessions -> Handles \cup {NULL}]
    BY DEF Init
  <2> QED  BY <2>1, <2>2, <2>3, <2>4 DEF Init, TypeOK
<1>2. RefcntExact
  <2>1. \A h \in Handles : Owners(h) = {}
    BY DEF Init, Owners
  <2>2. \A h \in Handles : Cardinality(Owners(h)) = 0
    BY <2>1, FS_EmptySet, Zenon
  <2> QED  BY <2>2 DEF Init, RefcntExact
<1>3. NoDangling /\ OneEntryPerName
  BY DEF Init, NoDangling, OneEntryPerName
<1>4. LruMatchesTable
  BY DEF Init, LruMatchesTable, IsInjective, Range
<1>5. LockInv /\ PurgeInv /\ InsertInv
  BY ConstantsAssumption DEF Init, LockInv, PurgeInv, InsertInv
<1> QED  BY <1>1, <1>2, <1>3, <1>4, <1>5 DEF IInv

LEMMA NewSessionIInv ==
  ASSUME NEW s \in Sessions, NEW name \in Names, IInv, NewSession(s, name)
  PROVE  IInv'
<1> USE DEF IInv, NewSession, Goto, dbVars, memVars
<1>1. TypeOK'
  BY DEF TypeOK, Locations
<1>2. \A h : Owners(h)' = Owners(h)
  BY DEF Owners, TypeOK
<1>3. RefcntExact'
  BY <1>2 DEF RefcntExact
<1>4. NoDangling' /\ OneEntryPerName' /\ LruMatchesTable'
  BY DEF NoDangling, OneEntryPerName, LruMatchesTable, TypeOK
<1>5. LockInv' /\ PurgeInv' /\ InsertInv'
  BY <1>2 DEF LockInv, PurgeInv, InsertInv, TypeOK
<1> QED  BY <1>1, <1>3, <1>4, <1>5

LEMMA SearchHitIInv ==
  ASSUME NEW s \in Sessions, IInv, SearchHit(s)
  PROVE  IInv'
<1> USE DEF IInv
<1>1. PICK h \in Search(topic[s]) :
        ret' = [ret EXCEPT ![s] = h] /\ lru' = ListRemove(lru, h)
  BY DEF SearchHit
<1>2. /\ pc[s] = "search" /\ lock = NULL /\ lock' = s
      /\ pc' = [pc EXCEPT ![s] = "purge"]
      /\ UNCHANGED <<clock, closed, hashtable, live, rkt_name, refcnt, timestamp,
                     topic, now>>
  BY DEF SearchHit, Goto, memVars
<1>3. h \in hashtable /\ h \in Handles /\ rkt_name[h] = topic[s]
  BY DEF Search, TypeOK
<1>4. /\ lru' \in Seq(Handles)
      /\ IsInjective(lru')
      /\ Range(lru') = Range(lru) \ {h}
  BY <1>1, <1>3, ListRemoveProperties DEF LruMatchesTable, TypeOK
<1>5. TypeOK'
  BY <1>1, <1>2, <1>3, <1>4 DEF TypeOK, Locations
<1>6. \A g : Owners(g)' = Owners(g)
  BY <1>1, <1>2 DEF Owners, TypeOK
<1>7. RefcntExact'
  BY <1>2, <1>6 DEF RefcntExact
<1>8. NoDangling'
  <2>1. \A i \in DOMAIN lru' : lru'[i] \in hashtable
    BY <1>2, <1>4 DEF LruMatchesTable, Range
  <2> QED  BY <1>1, <1>2, <1>3, <2>1 DEF NoDangling, TypeOK
<1>9. OneEntryPerName' /\ LruMatchesTable'
  <2>1. ret'[s] = h
    BY <1>1 DEF TypeOK
  <2> QED
    BY <1>2, <1>4, <2>1, ConstantsAssumption DEF OneEntryPerName, LruMatchesTable
<1>10. LockInv' /\ PurgeInv' /\ InsertInv'
  BY <1>1, <1>2, <1>3, <1>6, ConstantsAssumption
     DEF LockInv, PurgeInv, InsertInv, TypeOK
<1> QED  BY <1>5, <1>7, <1>8, <1>9, <1>10

LEMMA SearchMissIInv ==
  ASSUME NEW s \in Sessions, IInv, SearchMiss(s) \/ NewTopicFails(s)
  PROVE  IInv'
<1> USE DEF IInv, SearchMiss, NewTopicFails, Goto, dbVars, memVars
<1>1. TypeOK'
  <2>1. CASE SearchMiss(s)
    BY <2>1 DEF TypeOK, Locations
  <2>2. CASE NewTopicFails(s)
    BY <2>2 DEF TypeOK, Locations
  <2> QED  BY <2>1, <2>2
<1>2. \A h : Owners(h)' = Owners(h)
  BY DEF Owners, TypeOK
<1>3. RefcntExact'
  BY <1>2 DEF RefcntExact
<1>4. NoDangling' /\ OneEntryPerName' /\ LruMatchesTable'
  BY DEF NoDangling, OneEntryPerName, LruMatchesTable, TypeOK
<1>5. LockInv' /\ PurgeInv' /\ InsertInv'
  <2>1. LockInv' /\ PurgeInv'
    BY DEF LockInv, PurgeInv, TypeOK
  <2>2. InsertInv'
    BY DEF InsertInv, TypeOK
  <2> QED  BY <2>1, <2>2
<1> QED  BY <1>1, <1>3, <1>4, <1>5

LEMMA NewTopicIInv ==
  ASSUME NEW s \in Sessions, IInv, NewTopic(s)
  PROVE  IInv'
<1> USE DEF IInv
<1>1. PICK h \in Handles \ live :
        /\ ret' = [ret EXCEPT ![s] = h]
        /\ live' = live \cup {h}
        /\ rkt_name' = [rkt_name EXCEPT ![h] = topic[s]]
        /\ refcnt' = [refcnt EXCEPT ![h] = 1]
        /\ timestamp' = [timestamp EXCEPT ![h] = 0]
  BY DEF NewTopic
<1>2. /\ pc[s] = "new"
      /\ pc' = [pc EXCEPT ![s] = "insert"]
      /\ UNCHANGED <<clock, closed, lock, hashtable, lru, topic, now>>
  BY DEF NewTopic, Goto, dbVars
<1>3. h \notin hashtable /\ Owners(h) = {} /\ Cardinality(Owners(h)) = 0
  <2>1. refcnt[h] = 0
    BY DEF RefcntExact, TypeOK
  <2>2. h \notin hashtable
    BY DEF NoDangling
  <2>3. Cardinality(Owners(h)) = 0
    BY <2>1, <2>2, OwnersFinite DEF RefcntExact
  <2> QED  BY <2>2, <2>3, CountNone
<1>4. TypeOK'
  BY <1>1, <1>2 DEF TypeOK, Locations
<1>5. /\ Owners(h)' = Owners(h) \cup {s}
      /\ \A g \in Handles \ {h} : Owners(g)' = Owners(g)
  BY <1>1, <1>2 DEF Owners, TypeOK
<1>6. RefcntExact'
  <2> SUFFICES ASSUME NEW g \in Handles
               PROVE  /\ refcnt'[g] = Cardinality(Owners(g)')
                                      + (IF g \in hashtable' THEN 1 ELSE 0)
                      /\ g \in live' <=> refcnt'[g] > 0
    BY DEF RefcntExact
  <2>1. CASE g = h
    <3>1. Cardinality(Owners(h)') = 1
      BY <1>3, <1>5, CountAdd
    <3> QED  BY <1>1, <1>2, <1>3, <2>1, <3>1 DEF TypeOK
  <2>2. CASE g # h
    BY <1>1, <1>2, <1>5, <2>2 DEF RefcntExact, TypeOK
  <2> QED  BY <2>1, <2>2
<1>7. \A u \in Sessions : pc[u] \in {"insert", "purge", "hold"} => ret[u] # h
  BY <1>1 DEF NoDangling
<1>8. NoDangling' /\ OneEntryPerName'
  BY <1>1, <1>2, <1>3, <1>7 DEF NoDangling, OneEntryPerName, TypeOK
<1>9. LruMatchesTable'
  BY <1>1, <1>2 DEF LruMatchesTable, LockInv, TypeOK
<1>10. LockInv' /\ PurgeInv'
  BY <1>1, <1>2 DEF LockInv, PurgeInv, TypeOK
<1>11. InsertInv'
  BY <1>1, <1>2, <1>3, <1>7 DEF InsertInv, TypeOK
<1> QED  BY <1>4, <1>6, <1>8, <1>9, <1>10, <1>11

LEMMA InsertWonIInv ==
  ASSUME NEW s \in Sessions, IInv, InsertWon(s)
  PROVE  IInv'
<1> USE DEF IInv
<1> DEFINE h == ret[s]
<1>1. /\ pc[s] = "insert" /\ lock = NULL /\ lock' = s
      /\ Search(topic[s]) = {}
      /\ hashtable' = hashtable \cup {h}
      /\ pc' = [pc EXCEPT ![s] = "purge"]
      /\ UNCHANGED <<clock, closed, lru, live, rkt_name, refcnt, timestamp, topic,
                     now, ret>>
  BY DEF InsertWon, Goto, memVars
<1>2. h \in live /\ h \in Handles /\ rkt_name[h] = topic[s] /\ h \notin hashtable
  BY <1>1 DEF NoDangling, InsertInv, TypeOK
<1>3. TypeOK'
  BY <1>1, <1>2 DEF TypeOK, Locations
<1>4. /\ Owners(h)' = Owners(h) \ {s}
      /\ s \in Owners(h)
      /\ \A g \in Handles \ {h} : Owners(g)' = Owners(g)
  BY <1>1 DEF Owners, TypeOK
<1>5. RefcntExact'
  <2> SUFFICES ASSUME NEW g \in Handles
               PROVE  /\ refcnt'[g] = Cardinality(Owners(g)')
                                      + (IF g \in hashtable' THEN 1 ELSE 0)
                      /\ g \in live' <=> refcnt'[g] > 0
    BY DEF RefcntExact
  <2>1. CASE g = h
    <3>1. /\ Cardinality(Owners(h)') = Cardinality(Owners(h)) - 1
          /\ Cardinality(Owners(h)) \in Nat
      BY <1>4, CountRemove, OwnersFinite
    <3> QED  BY <1>1, <1>2, <2>1, <3>1 DEF RefcntExact, TypeOK
  <2>2. CASE g # h
    BY <1>1, <1>4, <2>2 DEF RefcntExact
  <2> QED  BY <2>1, <2>2
<1>6. NoDangling'
  BY <1>1, <1>2 DEF NoDangling, TypeOK
<1>7. OneEntryPerName'
  BY <1>1, <1>2 DEF OneEntryPerName, Search
<1>8. LruMatchesTable'
  BY <1>1, <1>2, ConstantsAssumption DEF LruMatchesTable
<1>9. LockInv' /\ PurgeInv'
  BY <1>1, ConstantsAssumption DEF LockInv, PurgeInv, TypeOK
<1>10. InsertInv'
  BY <1>1, <1>4 DEF InsertInv, TypeOK
<1> QED  BY <1>3, <1>5, <1>6, <1>7, <1>8, <1>9, <1>10

LEMMA InsertLostIInv ==
  ASSUME NEW s \in Sessions, IInv, InsertLost(s)
  PROVE  IInv'
<1> USE DEF IInv
<1>0. PICK old : old = ret[s]
  OBVIOUS
<1>1. PICK aux \in Search(topic[s]) :
        ret' = [ret EXCEPT ![s] = aux] /\ lru' = ListRemove(lru, aux)
  BY DEF InsertLost
<1>2. /\ pc[s] = "insert" /\ lock = NULL /\ lock' = s
      /\ pc' = [pc EXCEPT ![s] = "purge"]
      /\ refcnt' = [refcnt EXCEPT ![old] = @ - 1]
      /\ live' = IF refcnt[old] = 1 THEN live \ {old} ELSE live
      /\ UNCHANGED <<clock, closed, hashtable, rkt_name, timestamp, topic, now>>
  BY <1>0 DEF InsertLost, TopicDecref, Goto
<1>3. /\ aux \in hashtable /\ aux \in Handles /\ rkt_name[aux] = topic[s]
      /\ old \in Handles /\ old \notin hashtable
  BY <1>0, <1>2 DEF Search, TypeOK, NoDangling, InsertInv
<1>4. /\ lru' \in Seq(Handles)
      /\ IsInjective(lru')
      /\ Range(lru') = Range(lru) \ {aux}
  BY <1>1, <1>3, ListRemoveProperties DEF LruMatchesTable, TypeOK
<1>5. /\ Owners(old) = {s} /\ Owners(old)' = {}
      /\ \A g \in Handles \ {old} : Owners(g)' = Owners(g)
  BY <1>0, <1>1, <1>2, <1>3 DEF Owners, InsertInv, TypeOK
<1>6. Cardinality(Owners(old)) = 1 /\ Cardinality(Owners(old)') = 0
  BY <1>5, FS_Singleton, FS_EmptySet, Zenon
<1>7. refcnt[old] = 1
  BY <1>3, <1>6 DEF RefcntExact
<1>8. live' = live \ {old} /\ refcnt'[old] = 0
  BY <1>2, <1>3, <1>7 DEF TypeOK
<1>9. TypeOK'
  BY <1>1, <1>2, <1>3, <1>4, <1>7 DEF TypeOK, Locations
<1>10. RefcntExact'
  <2> SUFFICES ASSUME NEW g \in Handles
               PROVE  /\ refcnt'[g] = Cardinality(Owners(g)')
                                      + (IF g \in hashtable' THEN 1 ELSE 0)
                      /\ g \in live' <=> refcnt'[g] > 0
    BY DEF RefcntExact
  <2>1. CASE g = old
    BY <1>2, <1>3, <1>6, <1>8, <2>1
  <2>2. CASE g # old
    BY <1>2, <1>5, <1>8, <2>2 DEF RefcntExact, TypeOK
  <2> QED  BY <2>1, <2>2
<1>11. NoDangling'
  <2>1. hashtable' \subseteq live'
    BY <1>2, <1>3, <1>8 DEF NoDangling
  <2>2. \A i \in DOMAIN lru' : lru'[i] \in hashtable
    BY <1>2, <1>4 DEF LruMatchesTable, Range
  <2>3. ASSUME NEW u \in Sessions, pc'[u] \in {"insert", "purge", "hold"}
        PROVE  ret'[u] \in live' /\ rkt_name'[ret'[u]] = topic'[u]
    <3>1. CASE u = s
      BY <1>1, <1>2, <1>3, <2>1, <3>1 DEF TypeOK
    <3>2. CASE u # s
      <4>1. pc[u] \in {"insert", "hold"} /\ ret'[u] = ret[u]
        BY <1>1, <1>2, <2>3, <3>2, ConstantsAssumption DEF TypeOK, LockInv
      <4>2. ret[u] # old
        BY <1>0, <1>2, <3>2, <4>1 DEF InsertInv
      <4> QED  BY <1>2, <1>8, <4>1, <4>2 DEF NoDangling
    <3> QED  BY <3>1, <3>2
  <2> QED  BY <1>2, <2>1, <2>2, <2>3 DEF NoDangling
<1>12. OneEntryPerName' /\ LruMatchesTable'
  <2>1. ret'[s] = aux
    BY <1>1 DEF TypeOK
  <2> QED
    BY <1>2, <1>4, <2>1, ConstantsAssumption DEF OneEntryPerName, LruMatchesTable
<1>13. LockInv' /\ PurgeInv'
  BY <1>1, <1>2, <1>3, ConstantsAssumption DEF LockInv, PurgeInv, TypeOK
<1>14. InsertInv'
  BY <1>1, <1>2, <1>3 DEF InsertInv, TypeOK
<1> QED  BY <1>9, <1>10, <1>11, <1>12, <1>13, <1>14

LEMMA PurgeOneIInv ==
  ASSUME NEW s \in Sessions, IInv, PurgeOne(s)
  PROVE  IInv'
<1> USE DEF IInv
<1>1. PICK i \in DOMAIN lru :
        /\ hashtable' = hashtable \ {lru[i]}
        /\ lru' = ListRemove(lru, lru[i])
        /\ TopicDecref(lru[i])
  BY DEF PurgeOne
<1>0. PICK h : h = lru[i]
  OBVIOUS
<1>2. /\ pc[s] = "purge"
      /\ UNCHANGED <<clock, closed, lock, rkt_name, timestamp, pc, topic, now, ret>>
  BY DEF PurgeOne, sessVars
<1>3. /\ refcnt' = [refcnt EXCEPT ![h] = @ - 1]
      /\ live' = IF refcnt[h] = 1 THEN live \ {h} ELSE live
  BY <1>0, <1>1 DEF TopicDecref
<1>4. lock = s /\ lock # NULL
  BY <1>2, ConstantsAssumption DEF LockInv
<1>5. h \in hashtable /\ h # ret[s] /\ h \in Handles
  BY <1>0, <1>4 DEF LruMatchesTable, Range, TypeOK
<1>6. /\ lru' \in Seq(Handles)
      /\ IsInjective(lru')
      /\ Range(lru') = Range(lru) \ {h}
  BY <1>0, <1>1, ListRemoveProperties DEF LruMatchesTable, TypeOK
<1>7. \A g : Owners(g)' = Owners(g)
  BY <1>2 DEF Owners
<1>8. refcnt[h] = Cardinality(Owners(h)) + 1 /\ Cardinality(Owners(h)) \in Nat
  BY <1>5, OwnersFinite DEF RefcntExact
<1>9. TypeOK'
  <2>1. refcnt' \in [Handles -> Nat]
    BY <1>3, <1>5, <1>8 DEF TypeOK
  <2>2. live' \subseteq Handles /\ hashtable' \subseteq Handles
    BY <1>1, <1>3 DEF TypeOK
  <2> QED  BY <1>2, <1>6, <2>1, <2>2 DEF TypeOK
<1>10. RefcntExact'
  <2> SUFFICES ASSUME NEW g \in Handles
               PROVE  /\ refcnt'[g] = Cardinality(Owners(g))
                                      + (IF g \in hashtable' THEN 1 ELSE 0)
                      /\ g \in live' <=> refcnt'[g] > 0
    BY <1>7 DEF RefcntExact
  <2>1. CASE g = h
    <3>1. refcnt'[h] = Cardinality(Owners(h)) /\ h \notin hashtable'
      BY <1>0, <1>1, <1>3, <1>5, <1>8 DEF TypeOK
    <3>2. h \in live' <=> refcnt'[h] > 0
      BY <1>0, <1>1, <1>3, <1>5, <1>8 DEF TypeOK, RefcntExact
    <3> QED  BY <1>8, <2>1, <3>1, <3>2
  <2>2. CASE g # h
    BY <1>0, <1>1, <1>3, <2>2 DEF RefcntExact, TypeOK
  <2> QED  BY <2>1, <2>2
<1>11. NoDangling'
  <2>1. hashtable' \subseteq live'
    BY <1>0, <1>1, <1>3 DEF NoDangling
  <2>2. \A j \in DOMAIN lru' : lru'[j] \in hashtable'
    BY <1>0, <1>1, <1>4, <1>6 DEF LruMatchesTable, Range
  <2>3. ASSUME NEW u \in Sessions, pc[u] \in {"insert", "purge", "hold"}
        PROVE  ret[u] \in live'
    <3>1. CASE pc[u] = "purge"
      BY <1>2, <1>3, <1>4, <1>5, <3>1 DEF LockInv, NoDangling
    <3>2. CASE pc[u] = "insert"
      BY <1>3, <1>5, <3>2 DEF InsertInv, NoDangling
    <3>3. CASE pc[u] = "hold" /\ ret[u] = h
      <4>1. u \in Owners(h)
        BY <3>3 DEF Owners
      <4>2. refcnt[h] # 1
        <5>1. Cardinality(Owners(h)) >= 1
          BY <4>1, CountRemove
        <5> QED  BY <1>8, <5>1
      <4> QED  BY <1>3, <3>3, <4>2 DEF NoDangling
    <3>4. CASE pc[u] = "hold" /\ ret[u] # h
      BY <1>3, <3>4 DEF NoDangling
    <3> QED  BY <2>3, <3>1, <3>2, <3>3, <3>4
  <2> QED  BY <1>2, <2>1, <2>2, <2>3 DEF NoDangling
<1>12. OneEntryPerName' /\ LruMatchesTable'
  BY <1>0, <1>1, <1>2, <1>4, <1>6 DEF OneEntryPerName, LruMatchesTable
<1>13. LockInv' /\ PurgeInv' /\ InsertInv'
  BY <1>0, <1>1, <1>2, <1>4, <1>5 DEF LockInv, PurgeInv, InsertInv
<1> QED  BY <1>9, <1>10, <1>11, <1>12, <1>13

\* Inserting at the tail a topic that is not in the list
\* (topic_list_insert_tail).
LEMMA InsertTailProperties ==
  ASSUME NEW S, NEW list \in Seq(S), NEW h \in S, IsInjective(list),
         h \notin Range(list)
  PROVE  /\ Append(list, h) \in Seq(S)
         /\ IsInjective(Append(list, h))
         /\ Range(Append(list, h)) = Range(list) \cup {h}
<1> DEFINE n == Len(list)
           r == Append(list, h)
<1>1. n \in Nat /\ DOMAIN list = 1..n
  OBVIOUS
<1>2. /\ r \in Seq(S) /\ DOMAIN r = 1..(n + 1) /\ r[n + 1] = h
      /\ \A i \in 1..n : r[i] = list[i]
  OBVIOUS
<1> HIDE DEF n, r
<1>3. \A i \in 1..n : list[i] # h
  BY <1>1 DEF Range
<1>4. IsInjective(r)
  BY <1>1, <1>2, <1>3 DEF IsInjective
<1>5. Range(r) = Range(list) \cup {h}
  BY <1>1, <1>2 DEF Range
<1> QED  BY <1>2, <1>4, <1>5 DEF r

LEMMA GetTopicReturnsIInv ==
  ASSUME NEW s \in Sessions, IInv, GetTopicReturns(s)
  PROVE  IInv'
<1> USE DEF IInv
<1>0. PICK h : h = ret[s]
  OBVIOUS
<1>1. /\ pc[s] = "purge"
      /\ timestamp' = [timestamp EXCEPT ![h] = now[s]]
      /\ lru' = Append(lru, h)
      /\ refcnt' = [refcnt EXCEPT ![h] = @ + 1]
      /\ lock' = NULL
      /\ pc' = [pc EXCEPT ![s] = "hold"]
      /\ now' = [now EXCEPT ![s] = 0]
      /\ UNCHANGED <<clock, closed, hashtable, live, rkt_name, topic, ret>>
  BY <1>0 DEF GetTopicReturns, Goto
<1>2. lock = s /\ lock # NULL /\ h \in hashtable /\ h \in Handles
  BY <1>0, <1>1, ConstantsAssumption DEF LockInv, PurgeInv, TypeOK
<1>3. Range(lru) = hashtable \ {h}
  BY <1>0, <1>2 DEF LruMatchesTable
<1>4. /\ lru' \in Seq(Handles)
      /\ IsInjective(lru')
      /\ Range(lru') = hashtable
  <2>1. lru \in Seq(Handles) /\ IsInjective(lru) /\ h \notin Range(lru)
    BY <1>3 DEF LruMatchesTable, TypeOK
  <2>2. /\ Append(lru, h) \in Seq(Handles)
        /\ IsInjective(Append(lru, h))
        /\ Range(Append(lru, h)) = Range(lru) \cup {h}
    BY <1>2, <2>1, InsertTailProperties
  <2>3. Range(lru) \cup {h} = hashtable
    BY <1>2, <1>3
  <2> QED  BY <1>1, <2>2, <2>3, Zenon
<1>5. /\ s \notin Owners(h)
      /\ Owners(h)' = Owners(h) \cup {s}
      /\ \A g \in Handles \ {h} : Owners(g)' = Owners(g)
  BY <1>0, <1>1 DEF Owners, TypeOK
<1>6. TypeOK'
  <2>1. refcnt' \in [Handles -> Nat] /\ timestamp' \in [Handles -> Nat]
    BY <1>1, <1>2 DEF TypeOK
  <2> QED  BY <1>1, <1>4, <2>1 DEF TypeOK, Locations
<1>7. RefcntExact'
  <2> SUFFICES ASSUME NEW g \in Handles
               PROVE  /\ refcnt'[g] = Cardinality(Owners(g)')
                                      + (IF g \in hashtable' THEN 1 ELSE 0)
                      /\ g \in live' <=> refcnt'[g] > 0
    BY DEF RefcntExact
  <2>1. CASE g = h
    <3>1. /\ Cardinality(Owners(h)') = Cardinality(Owners(h)) + 1
          /\ Cardinality(Owners(h)) \in Nat
      BY <1>5, CountAdd, OwnersFinite
    <3> QED  BY <1>1, <1>2, <2>1, <3>1 DEF RefcntExact, TypeOK
  <2>2. CASE g # h
    BY <1>1, <1>5, <2>2 DEF RefcntExact, TypeOK
  <2> QED  BY <2>1, <2>2
<1>8. NoDangling'
  <2>1. \A i \in DOMAIN lru' : lru'[i] \in hashtable
    BY <1>4 DEF Range
  <2> QED  BY <1>1, <2>1 DEF NoDangling, TypeOK
<1>9. OneEntryPerName' /\ LruMatchesTable'
  BY <1>1, <1>4 DEF OneEntryPerName, LruMatchesTable
<1>10. LockInv' /\ PurgeInv'
  BY <1>1, <1>2, ConstantsAssumption DEF LockInv, PurgeInv, TypeOK
<1>11. InsertInv'
  BY <1>0, <1>1, <1>2 DEF InsertInv, TypeOK
<1> QED  BY <1>6, <1>7, <1>8, <1>9, <1>10, <1>11

LEMMA FreeSessionIInv ==
  ASSUME NEW s \in Sessions, IInv, FreeSession(s)
  PROVE  IInv'
<1> USE DEF IInv
<1>0. PICK h : h = ret[s]
  OBVIOUS
<1>1. /\ pc[s] = "hold"
      /\ pc' = [pc EXCEPT ![s] = "idle"]
      /\ topic' = [topic EXCEPT ![s] = NULL]
      /\ ret' = [ret EXCEPT ![s] = NULL]
      /\ refcnt' = [refcnt EXCEPT ![h] = @ - 1]
      /\ live' = IF refcnt[h] = 1 THEN live \ {h} ELSE live
      /\ UNCHANGED <<clock, closed, lock, hashtable, lru, rkt_name, timestamp, now>>
  BY <1>0 DEF FreeSession, TopicDecref, Goto, dbVars
<1>2. h \in live /\ h \in Handles
  BY <1>0, <1>1 DEF NoDangling, TypeOK
<1>3. /\ s \in Owners(h)
      /\ Owners(h)' = Owners(h) \ {s}
      /\ \A g \in Handles \ {h} : Owners(g)' = Owners(g)
  BY <1>0, <1>1 DEF Owners, TypeOK
<1>4. /\ Cardinality(Owners(h)') = Cardinality(Owners(h)) - 1
      /\ Cardinality(Owners(h)) >= 1
      /\ Cardinality(Owners(h)) \in Nat
  BY <1>3, CountRemove, OwnersFinite
<1>5. refcnt[h] = Cardinality(Owners(h)) + (IF h \in hashtable THEN 1 ELSE 0)
  BY <1>2 DEF RefcntExact
<1>6. TypeOK'
  <2>1. refcnt' \in [Handles -> Nat]
    BY <1>1, <1>2, <1>4, <1>5 DEF TypeOK
  <2>2. live' \subseteq Handles
    BY <1>1 DEF TypeOK
  <2> QED  BY <1>1, <2>1, <2>2 DEF TypeOK, Locations
<1>7. RefcntExact'
  <2> SUFFICES ASSUME NEW g \in Handles
               PROVE  /\ refcnt'[g] = Cardinality(Owners(g)')
                                      + (IF g \in hashtable' THEN 1 ELSE 0)
                      /\ g \in live' <=> refcnt'[g] > 0
    BY DEF RefcntExact
  <2>1. CASE g = h
    BY <1>1, <1>2, <1>4, <1>5, <2>1 DEF TypeOK
  <2>2. CASE g # h
    BY <1>1, <1>3, <2>2 DEF RefcntExact, TypeOK
  <2> QED  BY <2>1, <2>2
<1>8. NoDangling'
  <2>1. hashtable \subseteq live'
    BY <1>1, <1>4, <1>5 DEF NoDangling
  <2>2. \A i \in DOMAIN lru : lru[i] \in live'
    BY <2>1 DEF LruMatchesTable, Range
  <2>3. ASSUME NEW u \in Sessions, u # s, pc[u] \in {"insert", "purge", "hold"}
        PROVE  ret[u] \in live'
    <3>1. CASE pc[u] = "purge"
      BY <2>1, <3>1 DEF PurgeInv
    <3>2. CASE pc[u] \in {"insert", "hold"} /\ ret[u] = h
      <4>1. u \in Owners(h)'
        BY <1>3, <2>3, <3>2 DEF Owners
      <4>2. Cardinality(Owners(h)') # 0
        <5>1. IsFiniteSet(Owners(h)')
          BY <1>3, OwnersFinite, FS_RemoveElement
        <5> QED  BY <4>1, <5>1, FS_EmptySet
      <4> QED  BY <1>1, <1>2, <1>4, <1>5, <3>2, <4>2
    <3>3. CASE pc[u] \in {"insert", "hold"} /\ ret[u] # h
      BY <1>1, <3>3 DEF NoDangling
    <3> QED  BY <2>3, <3>1, <3>2, <3>3
  <2> QED  BY <1>1, <2>1, <2>2, <2>3 DEF NoDangling, TypeOK
<1>9. OneEntryPerName' /\ LruMatchesTable'
  BY <1>1, ConstantsAssumption DEF OneEntryPerName, LruMatchesTable, LockInv, TypeOK
<1>10. LockInv' /\ PurgeInv'
  BY <1>1 DEF LockInv, PurgeInv, TypeOK
<1>11. InsertInv'
  BY <1>1 DEF InsertInv, TypeOK
<1> QED  BY <1>6, <1>7, <1>8, <1>9, <1>10, <1>11

LEMMA TopicsDbDoneIInv ==
  ASSUME IInv, TopicsDbDone
  PROVE  IInv'
<1> USE DEF IInv
<1>1. /\ \A s \in Sessions : pc[s] \in {"idle", "hold"}
      /\ closed' = TRUE /\ hashtable' = {} /\ lru' = <<>>
      /\ refcnt' = [h \in Handles |->
                      IF h \in hashtable THEN refcnt[h] - 1 ELSE refcnt[h]]
      /\ live' = live \ {h \in hashtable : refcnt[h] = 1}
      /\ UNCHANGED <<clock, lock, rkt_name, timestamp, pc, topic, now, ret>>
  BY DEF TopicsDbDone, sessVars
<1>2. lock = NULL
  BY <1>1 DEF LockInv, TypeOK
<1>3. \A g : Owners(g)' = Owners(g)
  BY <1>1 DEF Owners
<1>4. \A g \in Handles :
        /\ Cardinality(Owners(g)) \in Nat
        /\ refcnt[g] = Cardinality(Owners(g)) + (IF g \in hashtable THEN 1 ELSE 0)
        /\ g \in live <=> refcnt[g] > 0
  BY OwnersFinite DEF RefcntExact
<1>5. TypeOK'
  <2>1. refcnt' \in [Handles -> Nat]
    BY <1>1, <1>4 DEF TypeOK
  <2>2. closed' \in BOOLEAN
    BY <1>1, Zenon
  <2>3. lru' \in Seq(Handles) /\ hashtable' \subseteq Handles /\ live' \subseteq Handles
    BY <1>1 DEF TypeOK
  <2> QED  BY <1>1, <2>1, <2>2, <2>3 DEF TypeOK
<1>6. RefcntExact'
  <2> SUFFICES ASSUME NEW g \in Handles
               PROVE  /\ refcnt'[g] = Cardinality(Owners(g))
                      /\ g \in live' <=> refcnt'[g] > 0
    BY <1>1, <1>3, <1>4 DEF RefcntExact
  <2> QED  BY <1>1, <1>4
<1>7. NoDangling'
  <2>1. ASSUME NEW u \in Sessions, pc[u] = "hold" PROVE ret[u] \in live'
    <3>1. ret[u] \in live /\ ret[u] \in Handles /\ u \in Owners(ret[u])
      BY <2>1 DEF NoDangling, Owners, TypeOK
    <3>2. Cardinality(Owners(ret[u])) >= 1
      BY <3>1, CountRemove
    <3> QED  BY <1>1, <1>4, <3>1, <3>2
  <2> QED  BY <1>1, <2>1 DEF NoDangling
<1>8. OneEntryPerName' /\ LruMatchesTable'
  BY <1>1, <1>2 DEF OneEntryPerName, LruMatchesTable, IsInjective, Range
<1>9. LockInv' /\ PurgeInv' /\ InsertInv'
  BY <1>1 DEF LockInv, PurgeInv, InsertInv
<1> QED  BY <1>5, <1>6, <1>7, <1>8, <1>9

LEMMA UnchangedIInv ==
  ASSUME IInv, UNCHANGED <<lock, dbVars, memVars, sessVars>>,
         clock' \in Nat, closed' = closed
  PROVE  IInv'
<1> USE DEF IInv, dbVars, memVars, sessVars
<1>1. TypeOK'
  BY DEF TypeOK
<1>2. \A h : Owners(h)' = Owners(h)
  BY DEF Owners
<1>3. RefcntExact'
  BY <1>2 DEF RefcntExact
<1>4. NoDangling' /\ OneEntryPerName' /\ LruMatchesTable'
  BY DEF NoDangling, OneEntryPerName, LruMatchesTable
<1>5. LockInv' /\ PurgeInv' /\ InsertInv'
  BY DEF LockInv, PurgeInv, InsertInv
<1> QED  BY <1>1, <1>3, <1>4, <1>5

LEMMA NextIInv == IInv /\ [Next]_vars => IInv'
<1> SUFFICES ASSUME IInv, [Next]_vars PROVE IInv'
  OBVIOUS
<1>1. ASSUME NEW s \in Sessions, NEW name \in Names, NewSession(s, name)
      PROVE  IInv'
  BY <1>1, NewSessionIInv
<1>2. ASSUME NEW s \in Sessions, SessionStep(s) PROVE IInv'
  BY <1>2, SearchHitIInv, SearchMissIInv, NewTopicIInv, InsertLostIInv,
     InsertWonIInv, PurgeOneIInv, GetTopicReturnsIInv, FreeSessionIInv
     DEF SessionStep
<1>3. CASE TopicsDbDone
  BY <1>3, TopicsDbDoneIInv
<1>4. CASE Tick
  <2>1. clock' \in Nat
    BY <1>4 DEF Tick, IInv, TypeOK
  <2> QED  BY <1>4, <2>1, UnchangedIInv DEF Tick
<1>5. CASE UNCHANGED vars
  <2>1. clock' \in Nat
    BY <1>5 DEF vars, IInv, TypeOK
  <2> QED  BY <1>5, <2>1, UnchangedIInv DEF vars
<1> QED  BY <1>1, <1>2, <1>3, <1>4, <1>5 DEF Next

\* The inductive invariant: in every reachable state of the database, for any
\* number of sessions, names and addresses.
THEOREM Invariance == Spec => []IInv
BY InitIInv, NextIInv, PTL DEF Spec

\* The variables keep their types; in particular no topic_decref() takes a
\* reference count below zero.
THEOREM TypeCorrect == Spec => []TypeOK
<1>1. IInv => TypeOK
  BY DEF IInv
<1> QED  BY <1>1, Invariance, PTL

\* Every topic_decref() drops a reference that was taken, and a topic is
\* destroyed exactly when the last one is dropped.
THEOREM CountsAreExact == Spec => []RefcntExact
<1>1. IInv => RefcntExact
  BY DEF IInv
<1> QED  BY <1>1, Invariance, PTL

\* No session, search or purge ever meets a destroyed topic.
THEOREM NoUseAfterFree == Spec => []NoDangling
<1>1. IInv => NoDangling
  BY DEF IInv
<1> QED  BY <1>1, Invariance, PTL

\* The hash table never has two topics of one name, and the LRU list always
\* has the topics of the hash table.
THEOREM TableIsConsistent == Spec => [](OneEntryPerName /\ LruMatchesTable)
<1>1. IInv => OneEntryPerName /\ LruMatchesTable
  BY DEF IInv
<1> QED  BY <1>1, Invariance, PTL
=============================================================================
