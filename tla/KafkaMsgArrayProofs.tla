------------------------ MODULE KafkaMsgArrayProofs ------------------------
(* Proofs about KafkaMsgArray, for any number of threads, arrays and messages. *)
EXTENDS KafkaMsgArray, FiniteSetTheorems, TLAPS

\* The failures that the loop has not come to.
Unseen(t) == {k \in failed[t] : k >= i[t]}

\* What a thread knows of its batch: how many messages were queued and how many
\* failed, and that the loop has to see exactly size - msgs_ok failures more.
BatchInv(t) ==
  /\ pc[t] = "build" => i[t] = 1 /\ failed[t] = {} /\ queued[t] = 0
  /\ pc[t] = "batch" => /\ karray[t] \in Arrays
                        /\ i[t] \in 1..size[t]
                        /\ failed[t] \subseteq 1..(i[t] - 1)
                        /\ queued[t] + Cardinality(failed[t]) = i[t] - 1
  /\ pc[t] = "loop" => /\ karray[t] \in Arrays
                       /\ i[t] >= 1
                       /\ failed[t] \subseteq 1..size[t]
                       /\ msgs_ok[t] + Cardinality(Unseen(t)) = size[t]

ThreadInv == \A t \in Threads : BatchInv(t)

\* Only one thread has something to do with an array.  (Another one may have its
\* old address.)
OwnInv ==
  \A t, u \in Threads : \A k, l \in 1..MaxMsgs :
    Owes(t, k) /\ Owes(u, l) /\ karray[t] = karray[u] => t = u

\* librdkafka has no message of the batch that was not given to it.
FreshInv ==
  \A t \in Threads : pc[t] = "batch" =>
    \A m \in inflight : m[1] = karray[t] => m[2] < i[t]

IInv == TypeOK /\ ThreadInv /\ OwnInv /\ FreshInv /\ CountExact
-----------------------------------------------------------------------------
\* All sets that are counted are finite.
LEMMA CountedFinite ==
  ASSUME TypeOK, NEW a \in Arrays
  PROVE  /\ IsFiniteSet(Owed(a)) /\ Cardinality(Owed(a)) \in Nat
         /\ Cardinality(Owed(a)) = 0 <=> Owed(a) = {}
         /\ IsFiniteSet(InFlight(a)) /\ Cardinality(InFlight(a)) \in Nat
         /\ Cardinality(InFlight(a)) = 0 <=> InFlight(a) = {}
<1>1. IsFiniteSet(1..MaxMsgs)
  BY ConstantsAssumption, FS_Interval
<1>2. IsFiniteSet(Threads \X (1..MaxMsgs)) /\ IsFiniteSet(Arrays \X (1..MaxMsgs))
  BY <1>1, ConstantsAssumption, FS_Product
<1>3. Owed(a) \subseteq Threads \X (1..MaxMsgs)
  BY DEF Owed
<1>4. InFlight(a) \subseteq Arrays \X (1..MaxMsgs)
  BY DEF InFlight, TypeOK
<1>5. IsFiniteSet(Owed(a)) /\ IsFiniteSet(InFlight(a))
  BY <1>2, <1>3, <1>4, FS_Subset
<1> QED  BY <1>5, FS_CardinalityType, FS_EmptySet

LEMMA FiniteFailures ==
  ASSUME NEW n \in Nat, NEW S \in SUBSET (1..n)
  PROVE  /\ IsFiniteSet(S) /\ Cardinality(S) \in Nat
         /\ Cardinality(S) = 0 <=> S = {}
<1>1. IsFiniteSet(1..n)
  BY FS_Interval
<1>2. IsFiniteSet(S)
  BY <1>1, FS_Subset
<1> QED  BY <1>2, FS_CardinalityType, FS_EmptySet

\* No thread but t does something.
Others(t) ==
  \A u \in Threads : u # t =>
    /\ pc'[u] = pc[u] /\ size'[u] = size[u] /\ karray'[u] = karray[u]
    /\ i'[u] = i[u] /\ failed'[u] = failed[u] /\ msgs_ok'[u] = msgs_ok[u]
    /\ queued'[u] = queued[u]

\* What the others know and owe stays the same.
LEMMA OthersSame ==
  ASSUME NEW t \in Threads, Others(t), NEW u \in Threads, u # t
  PROVE  /\ BatchInv(u)' <=> BatchInv(u)
         /\ \A k \in 1..MaxMsgs : Owes(u, k)' <=> Owes(u, k)
<1>1. Unseen(u)' = Unseen(u)
  BY DEF Others, Unseen
<1> QED  BY <1>1 DEF Others, BatchInv, Owes

LEMMA ThreadStepInv ==
  ASSUME ThreadInv, NEW t \in Threads, Others(t), BatchInv(t)'
  PROVE  ThreadInv'
BY OthersSame DEF ThreadInv

\* A thread that takes no new array does not disturb the owners.
LEMMA OwnSame ==
  ASSUME OwnInv, NEW t \in Threads, Others(t),
         \A k \in 1..MaxMsgs : Owes(t, k)' => Owes(t, k) /\ karray'[t] = karray[t]
  PROVE  OwnInv'
<1>1. \A u \in Threads : \A k \in 1..MaxMsgs :
        Owes(u, k)' => Owes(u, k) /\ karray'[u] = karray[u]
  BY OthersSame DEF Others
<1> QED  BY <1>1 DEF OwnInv

\* t owes what it owed.
LEMMA OwedSame ==
  ASSUME NEW t \in Threads, Others(t),
         \A k \in 1..MaxMsgs :
           /\ Owes(t, k)' <=> Owes(t, k)
           /\ Owes(t, k) => karray'[t] = karray[t],
         NEW a \in Arrays
  PROVE  Owed(a)' = Owed(a)
<1>1. \A u \in Threads : \A k \in 1..MaxMsgs :
        karray'[u] = a /\ Owes(u, k)' <=> karray[u] = a /\ Owes(u, k)
  BY OthersSame DEF Others
<1> QED  BY <1>1 DEF Owed

\* t no longer owes message j.
LEMMA OwedLess ==
  ASSUME NEW t \in Threads, Others(t), NEW j \in 1..MaxMsgs, Owes(t, j),
         karray'[t] = karray[t],
         \A k \in 1..MaxMsgs : Owes(t, k)' <=> Owes(t, k) /\ k # j,
         NEW a \in Arrays
  PROVE  /\ a = karray[t] => <<t, j>> \in Owed(a)
         /\ Owed(a)' = IF a = karray[t] THEN Owed(a) \ {<<t, j>>} ELSE Owed(a)
<1>1. \A u \in Threads : \A k \in 1..MaxMsgs :
        karray'[u] = a /\ Owes(u, k)' <=>
          karray[u] = a /\ Owes(u, k) /\ <<u, k>> # <<t, j>>
  BY OthersSame DEF Others
<1> QED  BY <1>1 DEF Owed
-----------------------------------------------------------------------------
\* One lemma per action.

\* kafka_msg_array_add() and the start of a new chunk: nothing is owed.
LEMMA BuildStep ==
  ASSUME IInv, NEW t \in Threads, AddMessage(t) \/ NextChunk(t)
  PROVE  IInv'
<1>t. TypeOK /\ ThreadInv /\ OwnInv /\ FreshInv /\ CountExact
  BY DEF IInv
<1> USE DEF AddMessage, NextChunk, memVars
<1>1. TypeOK'
  <2>1. CASE AddMessage(t)
    BY <1>t, <2>1, ConstantsAssumption DEF TypeOK
  <2>2. CASE NextChunk(t)
    BY <1>t, <2>2, ConstantsAssumption DEF TypeOK, Locations
  <2> QED  BY <2>1, <2>2
<1>2. Others(t)
  BY <1>t DEF Others, TypeOK
<1>3. pc[t] \in {"build", "done"} /\ pc'[t] = "build" /\ UNCHANGED memVars
  BY <1>t DEF TypeOK
<1>4. \A k \in 1..MaxMsgs : ~Owes(t, k) /\ ~Owes(t, k)'
  BY <1>3 DEF Owes
<1>5. ThreadInv'
  <2>1. BatchInv(t)
    BY <1>t DEF ThreadInv
  <2>2. i'[t] = 1 /\ failed'[t] = {} /\ queued'[t] = 0
    BY <1>t, <2>1 DEF BatchInv, TypeOK
  <2>3. BatchInv(t)'
    BY <1>3, <2>2 DEF BatchInv
  <2> QED  BY <1>t, <1>2, <2>3, ThreadStepInv
<1>6. OwnInv'
  BY <1>t, <1>2, <1>4, OwnSame
<1>7. FreshInv'
  BY <1>t, <1>2, <1>3 DEF FreshInv, Others
<1>8. CountExact'
  <2>1. \A a \in Arrays : Owed(a)' = Owed(a) /\ InFlight(a)' = InFlight(a)
    BY <1>2, <1>3, <1>4, OwedSame DEF InFlight
  <2> QED  BY <1>t, <1>3, <2>1 DEF CountExact
<1> QED  BY <1>1, <1>5, <1>6, <1>7, <1>8 DEF IInv

\* kafka_message_array_produce() takes an array: one reference for each message.
LEMMA StealStep ==
  ASSUME IInv, NEW t \in Threads, Steal(t)
  PROVE  IInv'
<1>t. TypeOK /\ ThreadInv /\ OwnInv /\ FreshInv /\ CountExact
  BY DEF IInv
<1>a. PICK a \in Arrays \ live :
        /\ karray' = [karray EXCEPT ![t] = a]
        /\ live' = live \cup {a}
        /\ count' = [count EXCEPT ![a] = size[t]]
  BY DEF Steal
<1>b. /\ pc[t] = "build" /\ size[t] > 0 /\ pc' = [pc EXCEPT ![t] = "batch"]
      /\ UNCHANGED <<size, i, failed, msgs_ok, queued, inflight>>
  BY DEF Steal
<1>c. size[t] \in 1..MaxMsgs /\ pc'[t] = "batch" /\ karray'[t] = a
  BY <1>t, <1>a, <1>b, ConstantsAssumption DEF TypeOK
<1>d. i[t] = 1 /\ failed[t] = {} /\ queued[t] = 0
  BY <1>t, <1>b DEF ThreadInv, BatchInv
<1>e. Owed(a) = {} /\ InFlight(a) = {}
  BY <1>t, CountedFinite DEF CountExact, TypeOK
<1>1. TypeOK'
  BY <1>t, <1>a, <1>b DEF TypeOK, Locations
<1>2. Others(t)
  BY <1>t, <1>a, <1>b DEF Others, TypeOK
<1>3. \A k \in 1..MaxMsgs : ~Owes(t, k) /\ (Owes(t, k)' <=> k \in 1..size[t])
  BY <1>b, <1>c, <1>d DEF Owes
<1>4. ThreadInv'
  <2>1. BatchInv(t)'
    BY <1>b, <1>c, <1>d, FS_EmptySet, ConstantsAssumption DEF BatchInv
  <2> QED  BY <1>t, <1>2, <2>1, ThreadStepInv
<1>f. \A u \in Threads : \A k \in 1..MaxMsgs : Owes(u, k) => karray[u] # a
  <2> SUFFICES ASSUME NEW u \in Threads, NEW k \in 1..MaxMsgs, Owes(u, k),
                      karray[u] = a
               PROVE  FALSE
    OBVIOUS
  <2>1. <<u, k>> \in Owed(a)
    BY DEF Owed
  <2> QED  BY <1>e, <2>1
<1>5. OwnInv'
  <2>1. \A u \in Threads : \A k \in 1..MaxMsgs :
          u # t /\ Owes(u, k)' =>
            karray'[u] # a /\ Owes(u, k) /\ karray'[u] = karray[u]
    BY <1>2, <1>f, OthersSame DEF Others
  <2> QED  BY <1>t, <1>c, <2>1 DEF OwnInv
<1>6. FreshInv'
  <2>1. \A m \in inflight : m[1] # a
    BY <1>e DEF InFlight
  <2> QED  BY <1>t, <1>2, <1>b, <1>c, <2>1 DEF FreshInv, Others
<1>7. ASSUME NEW b \in Arrays
      PROVE  (count[b] = Cardinality(InFlight(b)) + Cardinality(Owed(b))
                /\ (b \in live <=> count[b] > 0))'
  <2>1. InFlight(b)' = InFlight(b)
    BY <1>b DEF InFlight
  <2>2. CASE b # a
    <3>1. \A u \in Threads : \A k \in 1..MaxMsgs :
            karray'[u] = b /\ Owes(u, k)' <=> karray[u] = b /\ Owes(u, k)
      BY <1>2, <1>3, <1>c, <2>2, OthersSame DEF Others
    <3>2. Owed(b)' = Owed(b)
      BY <3>1 DEF Owed
    <3> QED  BY <1>t, <1>a, <2>1, <2>2, <3>2 DEF CountExact, TypeOK
  <2>3. CASE b = a
    <3>1. \A u \in Threads : \A k \in 1..MaxMsgs :
            karray'[u] = a /\ Owes(u, k)' <=> u = t /\ k \in 1..size[t]
      BY <1>2, <1>3, <1>c, <1>f, OthersSame DEF Others
    <3>2. Owed(a)' = {t} \X (1..size[t])
      BY <1>c, <3>1, ConstantsAssumption DEF Owed
    <3>3. Cardinality({t} \X (1..size[t])) = size[t]
      <4>1. IsFiniteSet({t}) /\ Cardinality({t}) = 1
        BY FS_Singleton
      <4>2. IsFiniteSet(1..size[t]) /\ Cardinality(1..size[t]) = size[t]
        BY <1>c, FS_Interval
      <4>3. Cardinality({t} \X (1..size[t])) =
              Cardinality({t}) * Cardinality(1..size[t])
        BY <4>1, <4>2, FS_Product, Zenon
      <4> QED  BY <1>c, <4>1, <4>2, <4>3
    <3>4. Cardinality(InFlight(a)') = 0 /\ Cardinality(Owed(a)') = size[t]
      BY <1>e, <2>1, <2>3, <3>2, <3>3, FS_EmptySet
    <3> QED  BY <1>t, <1>a, <1>c, <2>3, <3>4 DEF TypeOK
  <2> QED  BY <2>2, <2>3
<1>8. CountExact'
  BY <1>7 DEF CountExact
<1> QED  BY <1>1, <1>4, <1>5, <1>6, <1>8 DEF IInv

\* What every step inside rd_kafka_produce_batch() knows.
LEMMA InBatchFacts ==
  ASSUME IInv, NEW t \in Threads, pc[t] = "batch"
  PROVE  /\ karray[t] \in Arrays
         /\ size[t] \in Nat /\ size[t] <= MaxMsgs
         /\ i[t] \in 1..size[t] /\ i[t] \in 1..MaxMsgs
         /\ failed[t] \subseteq 1..(i[t] - 1)
         /\ queued[t] \in Nat
         /\ IsFiniteSet(failed[t]) /\ Cardinality(failed[t]) \in Nat
         /\ queued[t] + Cardinality(failed[t]) = i[t] - 1
         /\ Cardinality(failed[t]) = 0 <=> failed[t] = {}
         /\ \A k \in 1..MaxMsgs : Owes(t, k) <=> k \in failed[t] \/ k \in i[t]..size[t]
<1>1. TypeOK /\ BatchInv(t)
  BY DEF IInv, ThreadInv
<1>2. /\ karray[t] \in Arrays /\ i[t] \in 1..size[t]
      /\ failed[t] \subseteq 1..(i[t] - 1)
      /\ queued[t] + Cardinality(failed[t]) = i[t] - 1
  BY <1>1 DEF BatchInv
<1>3. /\ size[t] \in Nat /\ size[t] <= MaxMsgs /\ i[t] \in Nat /\ queued[t] \in Nat
      /\ i[t] \in 1..MaxMsgs /\ i[t] - 1 \in Nat
  BY <1>1, <1>2, ConstantsAssumption DEF TypeOK
<1>4. /\ IsFiniteSet(failed[t]) /\ Cardinality(failed[t]) \in Nat
      /\ Cardinality(failed[t]) = 0 <=> failed[t] = {}
  BY <1>2, <1>3, FiniteFailures
<1>5. \A k \in 1..MaxMsgs : Owes(t, k) <=> k \in failed[t] \/ k \in i[t]..size[t]
  BY DEF Owes
<1> QED  BY <1>2, <1>3, <1>4, <1>5

\* rd_kafka_produce_batch() takes a message: its reference passes to librdkafka.
LEMMA QueueStep ==
  ASSUME IInv, NEW t \in Threads, Queue(t)
  PROVE  IInv'
<1>t. TypeOK /\ ThreadInv /\ OwnInv /\ FreshInv /\ CountExact
  BY DEF IInv
<1> DEFINE a == karray[t]
           j == i[t]
<1>a. /\ pc[t] = "batch" /\ inflight' = inflight \cup {<<a, j>>}
      /\ queued' = [queued EXCEPT ![t] = @ + 1]
      /\ UNCHANGED <<size, karray, failed, live, count>>
      /\ pc' = [pc EXCEPT ![t] = IF i[t] < size[t] THEN "batch"
                 ELSE IF queued[t] + 1 = size[t] THEN "done" ELSE "loop"]
      /\ i' = [i EXCEPT ![t] = IF i[t] < size[t] THEN @ + 1 ELSE 1]
      /\ msgs_ok' = [msgs_ok EXCEPT ![t] = IF i[t] < size[t] THEN @ ELSE queued[t] + 1]
  BY DEF Queue, AfterMessage
<1>b. /\ a \in Arrays /\ size[t] \in Nat /\ size[t] <= MaxMsgs
      /\ j \in 1..size[t] /\ j \in 1..MaxMsgs
      /\ failed[t] \subseteq 1..(j - 1) /\ queued[t] \in Nat
      /\ IsFiniteSet(failed[t]) /\ Cardinality(failed[t]) \in Nat
      /\ queued[t] + Cardinality(failed[t]) = j - 1
      /\ Cardinality(failed[t]) = 0 <=> failed[t] = {}
  BY <1>a, InBatchFacts
<1>o. \A k \in 1..MaxMsgs : Owes(t, k) <=> k \in failed[t] \/ k \in j..size[t]
  BY <1>a, InBatchFacts
<1>1. TypeOK'
  BY <1>t, <1>a, <1>b DEF TypeOK, Locations
<1>2. Others(t)
  BY <1>t, <1>a DEF Others, TypeOK
<1> HIDE DEF a, j
<1>3. Owes(t, j) /\ \A k \in 1..MaxMsgs : Owes(t, k)' <=> Owes(t, k) /\ k # j
  <2>1. Owes(t, j)
    BY <1>o, <1>b
  <2>2. CASE j < size[t]
    <3>1. pc'[t] = "batch" /\ i'[t] = j + 1 /\ failed'[t] = failed[t] /\ size'[t] = size[t]
      BY <1>t, <1>a, <2>2 DEF TypeOK, j
    <3> QED  BY <1>o, <1>b, <2>1, <3>1 DEF Owes
  <2>3. CASE ~(j < size[t])
    <3>1. /\ pc'[t] = IF queued[t] + 1 = size[t] THEN "done" ELSE "loop"
          /\ i'[t] = 1 /\ failed'[t] = failed[t] /\ size'[t] = size[t]
      BY <1>t, <1>a, <2>3 DEF TypeOK, j
    <3>2. j = size[t] /\ (queued[t] + 1 = size[t] <=> failed[t] = {})
      BY <1>b, <2>3
    <3>3. \A k \in 1..MaxMsgs : Owes(t, k)' <=> k \in failed[t]
      BY <1>b, <3>1, <3>2 DEF Owes
    <3> QED  BY <1>o, <1>b, <2>1, <3>2, <3>3
  <2> QED  BY <2>2, <2>3
<1>4. ThreadInv'
  <2>1. CASE j < size[t]
    <3>1. /\ pc'[t] = "batch" /\ i'[t] = j + 1 /\ failed'[t] = failed[t]
          /\ size'[t] = size[t] /\ queued'[t] = queued[t] + 1 /\ karray'[t] = a
      BY <1>t, <1>a, <2>1 DEF TypeOK, a, j
    <3>2. BatchInv(t)'
      BY <1>b, <2>1, <3>1 DEF BatchInv
    <3> QED  BY <1>t, <1>2, <3>2, ThreadStepInv
  <2>2. CASE ~(j < size[t])
    <3>1. /\ pc'[t] \in {"done", "loop"} /\ i'[t] = 1 /\ failed'[t] = failed[t]
          /\ size'[t] = size[t] /\ msgs_ok'[t] = queued[t] + 1 /\ karray'[t] = a
      BY <1>t, <1>a, <2>2 DEF TypeOK, a, j
    <3>2. Unseen(t)' = failed[t]
      BY <1>b, <3>1 DEF Unseen
    <3>3. BatchInv(t)'
      BY <1>b, <2>2, <3>1, <3>2 DEF BatchInv
    <3> QED  BY <1>t, <1>2, <3>3, ThreadStepInv
  <2> QED  BY <2>1, <2>2
<1>5. OwnInv'
  BY <1>t, <1>a, <1>2, <1>3, OwnSame
<1>6. FreshInv'
  <2> SUFFICES ASSUME NEW u \in Threads, pc'[u] = "batch", NEW m \in inflight',
                      m[1] = karray'[u]
               PROVE  m[2] < i'[u]
    BY DEF FreshInv
  <2>1. CASE u = t
    <3>1. j < size[t] /\ i'[t] = j + 1 /\ karray'[t] = a
      BY <1>t, <1>a, <2>1 DEF TypeOK, a, j
    <3>2. CASE m \in inflight
      BY <1>t, <1>a, <1>b, <2>1, <3>1, <3>2 DEF FreshInv, TypeOK, a, j
    <3>3. CASE m = <<a, j>>
      BY <1>b, <2>1, <3>1, <3>3
    <3> QED  BY <1>a, <3>2, <3>3
  <2>2. CASE u # t
    <3>1. pc[u] = "batch" /\ karray'[u] = karray[u] /\ i'[u] = i[u]
      BY <1>2, <2>2 DEF Others
    <3>2. karray[u] # a
      <4>1. Owes(u, i[u]) /\ i[u] \in 1..MaxMsgs
        BY <3>1, InBatchFacts
      <4> QED  BY <1>t, <1>b, <1>3, <2>2, <4>1 DEF OwnInv, a
    <3> QED  BY <1>t, <1>a, <3>1, <3>2 DEF FreshInv
  <2> QED  BY <2>1, <2>2
<1>7. <<a, j>> \notin inflight
  BY <1>t, <1>a, <1>b DEF FreshInv, a, j
<1>8. ASSUME NEW b \in Arrays
      PROVE  (count[b] = Cardinality(InFlight(b)) + Cardinality(Owed(b))
                /\ (b \in live <=> count[b] > 0))'
  <2>1. /\ count[b] = Cardinality(InFlight(b)) + Cardinality(Owed(b))
        /\ b \in live <=> count[b] > 0
        /\ count' = count /\ live' = live
    BY <1>t, <1>a DEF CountExact
  <2>2. /\ b = a => <<t, j>> \in Owed(b)
        /\ Owed(b)' = IF b = a THEN Owed(b) \ {<<t, j>>} ELSE Owed(b)
    BY <1>a, <1>b, <1>2, <1>3, OwedLess DEF a
  <2>3. CASE b = a
    <3>1. InFlight(b)' = InFlight(b) \cup {<<a, j>>} /\ <<a, j>> \notin InFlight(b)
      BY <1>a, <1>7, <2>3 DEF InFlight
    <3>2. Cardinality(InFlight(b)') = Cardinality(InFlight(b)) + 1
      BY <1>t, <3>1, CountedFinite, FS_AddElement
    <3>3. Cardinality(Owed(b)') = Cardinality(Owed(b)) - 1
      <4>1. <<t, j>> \in Owed(b) /\ Owed(b)' = Owed(b) \ {<<t, j>>}
        BY <2>2, <2>3
      <4>2. IsFiniteSet(Owed(b))
        BY <1>t, CountedFinite
      <4> QED  BY <4>1, <4>2, FS_RemoveElement
    <3>4. Cardinality(InFlight(b)) \in Nat /\ Cardinality(Owed(b)) \in Nat
      BY <1>t, CountedFinite
    <3> QED  BY <2>1, <3>2, <3>3, <3>4
  <2>4. CASE b # a
    <3>1. InFlight(b)' = InFlight(b)
      <4>1. \A m \in inflight' : m[1] = b => m \in inflight
        BY <1>a, <2>4
      <4>2. inflight \subseteq inflight'
        BY <1>a
      <4> QED  BY <4>1, <4>2 DEF InFlight
    <3> QED  BY <2>1, <2>2, <2>4, <3>1
  <2> QED  BY <2>3, <2>4
<1>9. CountExact'
  BY <1>8 DEF CountExact
<1> QED  BY <1>1, <1>4, <1>5, <1>6, <1>9 DEF IInv

\* rd_kafka_produce_batch() refuses a message: its reference stays with the loop.
LEMMA QueueFailsStep ==
  ASSUME IInv, NEW t \in Threads, QueueFails(t)
  PROVE  IInv'
<1>t. TypeOK /\ ThreadInv /\ OwnInv /\ FreshInv /\ CountExact
  BY DEF IInv
<1> DEFINE j == i[t]
           F == failed[t] \cup {j}
<1>a. /\ pc[t] = "batch"
      /\ failed' = [failed EXCEPT ![t] = @ \cup {j}]
      /\ UNCHANGED <<size, karray, queued, live, count, inflight>>
      /\ pc' = [pc EXCEPT ![t] = IF i[t] < size[t] THEN "batch"
                 ELSE IF queued[t] = size[t] THEN "done" ELSE "loop"]
      /\ i' = [i EXCEPT ![t] = IF i[t] < size[t] THEN @ + 1 ELSE 1]
      /\ msgs_ok' = [msgs_ok EXCEPT ![t] = IF i[t] < size[t] THEN @ ELSE queued[t]]
  BY DEF QueueFails, AfterMessage, memVars
<1>b. /\ karray[t] \in Arrays /\ size[t] \in Nat /\ size[t] <= MaxMsgs
      /\ j \in 1..size[t] /\ j \in 1..MaxMsgs
      /\ failed[t] \subseteq 1..(j - 1) /\ queued[t] \in Nat
      /\ IsFiniteSet(failed[t]) /\ Cardinality(failed[t]) \in Nat
      /\ queued[t] + Cardinality(failed[t]) = j - 1
  BY <1>a, InBatchFacts
<1>o. \A k \in 1..MaxMsgs : Owes(t, k) <=> k \in failed[t] \/ k \in j..size[t]
  BY <1>a, InBatchFacts
<1>1. TypeOK'
  BY <1>t, <1>a, <1>b DEF TypeOK, Locations
<1>2. Others(t)
  BY <1>t, <1>a DEF Others, TypeOK
<1>3. /\ F \subseteq 1..j /\ Cardinality(F) = Cardinality(failed[t]) + 1
      /\ failed'[t] = F /\ size'[t] = size[t] /\ karray'[t] = karray[t]
      /\ queued'[t] = queued[t]
  <2>1. j \notin failed[t]
    BY <1>b
  <2>2. Cardinality(F) = Cardinality(failed[t]) + 1
    BY <1>b, <2>1, FS_AddElement
  <2> QED  BY <1>t, <1>a, <1>b, <2>2 DEF TypeOK
<1>4. \/ j < size[t] /\ pc'[t] = "batch" /\ i'[t] = j + 1
      \/ j = size[t] /\ pc'[t] = "loop" /\ i'[t] = 1 /\ msgs_ok'[t] = queued[t]
  BY <1>t, <1>a, <1>b DEF TypeOK
<1> HIDE DEF j, F
<1>5. \A k \in 1..MaxMsgs : Owes(t, k)' <=> Owes(t, k)
  <2>1. \A k \in 1..MaxMsgs : Owes(t, k) <=> k \in F \/ k \in (j + 1)..size[t]
    BY <1>o, <1>b DEF F
  <2>2. CASE j < size[t]
    BY <1>b, <1>3, <1>4, <2>1, <2>2 DEF Owes
  <2>3. CASE j = size[t]
    BY <1>b, <1>3, <1>4, <2>1, <2>3 DEF Owes
  <2> QED  BY <1>b, <2>2, <2>3
<1>6. ThreadInv'
  <2>1. CASE j < size[t]
    <3>1. BatchInv(t)'
      BY <1>b, <1>3, <1>4, <2>1 DEF BatchInv
    <3> QED  BY <1>t, <1>2, <3>1, ThreadStepInv
  <2>2. CASE j = size[t]
    <3>1. Unseen(t)' = F
      BY <1>b, <1>3, <1>4, <2>2 DEF Unseen
    <3>2. F \subseteq 1..size[t] /\ queued[t] + Cardinality(F) = size[t]
      BY <1>b, <1>3, <2>2
    <3>3. /\ pc'[t] = "loop" /\ i'[t] = 1 /\ msgs_ok'[t] = queued[t]
          /\ karray'[t] \in Arrays
      BY <1>b, <1>3, <1>4, <2>2
    <3>4. BatchInv(t)'
      BY <1>3, <3>1, <3>2, <3>3 DEF BatchInv
    <3> QED  BY <1>t, <1>2, <3>4, ThreadStepInv
  <2> QED  BY <1>b, <2>1, <2>2
<1>7. OwnInv'
  BY <1>t, <1>2, <1>3, <1>5, OwnSame
<1>8. FreshInv'
  <2> SUFFICES ASSUME NEW u \in Threads, pc'[u] = "batch", NEW m \in inflight,
                      m[1] = karray'[u]
               PROVE  m[2] < i'[u]
    BY <1>a DEF FreshInv
  <2>1. m[2] < i[u]
    BY <1>t, <1>2, <1>a DEF FreshInv, Others
  <2>2. CASE u = t
    BY <1>t, <1>b, <1>4, <2>1, <2>2 DEF j, TypeOK
  <2>3. CASE u # t
    BY <1>2, <2>1, <2>3 DEF Others
  <2> QED  BY <2>2, <2>3
<1>9. CountExact'
  <2>1. \A b \in Arrays : Owed(b)' = Owed(b) /\ InFlight(b)' = InFlight(b)
    BY <1>a, <1>2, <1>3, <1>5, OwedSame DEF InFlight
  <2> QED  BY <1>t, <1>a, <2>1 DEF CountExact
<1> QED  BY <1>1, <1>6, <1>7, <1>8, <1>9 DEF IInv

\* kafka_message_array_internal_decref(), of an array that loses one of the
\* references that are owed or in librdkafka.
LEMMA DecrefExact ==
  ASSUME TypeOK, CountExact, NEW a \in Arrays, Decref(a), count[a] > 0,
         \A b \in Arrays :
           Cardinality(InFlight(b)') + Cardinality(Owed(b)') =
             IF b = a THEN count[b] - 1 ELSE count[b]
  PROVE  CountExact' /\ count' \in [Arrays -> Nat] /\ live' \subseteq Arrays
<1>1. /\ count' = [count EXCEPT ![a] = count[a] - 1]
      /\ live' = IF count[a] = 1 THEN live \ {a} ELSE live
  BY DEF Decref
<1>2. count \in [Arrays -> Nat] /\ live \subseteq Arrays
  BY DEF TypeOK
<1>3. count' \in [Arrays -> Nat] /\ live' \subseteq Arrays
  BY <1>1, <1>2
<1>4. \A b \in Arrays : count'[b] = Cardinality(InFlight(b)') + Cardinality(Owed(b)')
  BY <1>1, <1>2
<1>5. \A b \in Arrays : b \in live' <=> count'[b] > 0
  BY <1>1, <1>2 DEF CountExact
<1> QED  BY <1>3, <1>4, <1>5 DEF CountExact

\* One turn of the loop over the failures.
LEMMA LoopStepStep ==
  ASSUME IInv, NEW t \in Threads, LoopStep(t)
  PROVE  IInv'
<1>t. TypeOK /\ ThreadInv /\ OwnInv /\ FreshInv /\ CountExact
  BY DEF IInv
<1> DEFINE j == i[t]
<1>a. /\ pc[t] = "loop" /\ j <= size[t] /\ msgs_ok[t] < size[t]
      /\ IF j \in failed[t]
         THEN msgs_ok' = [msgs_ok EXCEPT ![t] = @ + 1] /\ Decref(karray[t])
         ELSE UNCHANGED <<msgs_ok, live, count>>
      /\ i' = [i EXCEPT ![t] = @ + 1]
      /\ UNCHANGED <<pc, size, karray, failed, queued, inflight>>
  BY DEF LoopStep, LoopGoesOn
<1>b. /\ karray[t] \in Arrays /\ j \in Nat /\ j >= 1 /\ size[t] \in Nat
      /\ j \in 1..MaxMsgs /\ failed[t] \subseteq 1..size[t] /\ msgs_ok[t] \in Nat
      /\ msgs_ok[t] + Cardinality(Unseen(t)) = size[t]
  BY <1>t, <1>a, ConstantsAssumption DEF ThreadInv, BatchInv, TypeOK
<1>p. PICK a \in Arrays : a = karray[t]
  BY <1>b
<1>c. IsFiniteSet(Unseen(t)) /\ Cardinality(Unseen(t)) \in Nat
  BY <1>b, FiniteFailures DEF Unseen
<1>2. Others(t)
  BY <1>t, <1>a DEF Others, Decref, TypeOK
<1>3. /\ pc'[t] = "loop" /\ i'[t] = j + 1 /\ failed'[t] = failed[t]
      /\ size'[t] = size[t] /\ karray'[t] = karray[t] /\ pc' = pc
      /\ karray' = karray /\ inflight' = inflight
  BY <1>t, <1>a DEF TypeOK
<1>4. Unseen(t)' = Unseen(t) \ {j}
  BY <1>b, <1>3 DEF Unseen
<1>o. /\ Owes(t, j) <=> j \in failed[t]
      /\ \A k \in 1..MaxMsgs : Owes(t, k)' <=> Owes(t, k) /\ k # j
  <2>1. \A k : Owes(t, k) <=> k \in failed[t] /\ k >= j
    BY <1>a DEF Owes
  <2>2. \A k : Owes(t, k)' <=> k \in failed[t] /\ k >= j + 1
    BY <1>3 DEF Owes
  <2>3. \A k \in 1..MaxMsgs : k >= j + 1 <=> k >= j /\ k # j
    BY <1>b, ConstantsAssumption
  <2> QED  BY <1>b, <2>1, <2>2, <2>3
<1> HIDE DEF j
<1>5. OwnInv'
  <2>1. \A k \in 1..MaxMsgs : Owes(t, k)' => Owes(t, k)
    BY <1>o
  <2> QED  BY <1>t, <1>2, <1>3, <2>1, OwnSame
<1>6. FreshInv'
  BY <1>t, <1>a, <1>2, <1>3 DEF FreshInv, Others
<1>7. CASE j \in failed[t]
  <2>1. Owes(t, j) /\ \A k \in 1..MaxMsgs : Owes(t, k)' <=> Owes(t, k) /\ k # j
    BY <1>o, <1>7
  <2>2. \A b \in Arrays :
          /\ b = a => <<t, j>> \in Owed(b)
          /\ Owed(b)' = IF b = a THEN Owed(b) \ {<<t, j>>} ELSE Owed(b)
    BY <1>b, <1>p, <1>2, <1>3, <2>1, OwedLess
  <2>3. \A b \in Arrays : InFlight(b)' = InFlight(b)
    BY <1>3 DEF InFlight
  <2>4. /\ Cardinality(Owed(a)') = Cardinality(Owed(a)) - 1
        /\ count[a] > 0
    <3>1. /\ <<t, j>> \in Owed(a)
          /\ Owed(a)' = Owed(a) \ {<<t, j>>}
      BY <2>2
    <3>2. Cardinality(Owed(a)') = Cardinality(Owed(a)) - 1
      <4>1. IsFiniteSet(Owed(a))
        BY <1>t, CountedFinite
      <4> QED  BY <3>1, <4>1, FS_RemoveElement
    <3>3. Cardinality(Owed(a)) \in Nat \ {0}
      BY <1>t, <3>1, CountedFinite
    <3>4. Cardinality(InFlight(a)) \in Nat
      BY <1>t, CountedFinite
    <3> QED  BY <1>t, <3>2, <3>3, <3>4 DEF CountExact
  <2>5. ASSUME NEW b \in Arrays
        PROVE  Cardinality(InFlight(b)') + Cardinality(Owed(b)') =
                 IF b = a THEN count[b] - 1 ELSE count[b]
    <3>1. /\ count[b] = Cardinality(InFlight(b)) + Cardinality(Owed(b))
          /\ Cardinality(InFlight(b)) \in Nat /\ Cardinality(Owed(b)) \in Nat
      BY <1>t, CountedFinite DEF CountExact
    <3>2. CASE b = a
      BY <2>3, <2>4, <3>1, <3>2
    <3>3. CASE b # a
      BY <2>2, <2>3, <3>1, <3>3
    <3> QED  BY <3>2, <3>3
  <2>6. CountExact' /\ count' \in [Arrays -> Nat] /\ live' \subseteq Arrays
    BY <1>t, <1>a, <1>p, <1>7, <2>4, <2>5, DecrefExact DEF j
  <2>7. TypeOK'
    BY <1>t, <1>a, <1>7, <2>6 DEF TypeOK, j
  <2>8. BatchInv(t)'
    <3>1. msgs_ok'[t] = msgs_ok[t] + 1
      BY <1>t, <1>a, <1>7 DEF TypeOK, j
    <3>2. Cardinality(Unseen(t)') = Cardinality(Unseen(t)) - 1
      <4>1. j \in Unseen(t)
        BY <1>b, <1>7 DEF Unseen, j
      <4> QED  BY <1>c, <1>4, <4>1, FS_RemoveElement
    <3>3. msgs_ok'[t] + Cardinality(Unseen(t)') = size[t] /\ j + 1 >= 1
      BY <1>b, <1>c, <3>1, <3>2
    <3> QED  BY <1>b, <1>3, <3>3 DEF BatchInv
  <2> QED  BY <1>t, <1>2, <1>5, <1>6, <2>6, <2>7, <2>8, ThreadStepInv DEF IInv
<1>8. CASE j \notin failed[t]
  <2>1. UNCHANGED <<msgs_ok, live, count>>
    BY <1>a, <1>8 DEF j
  <2>2. \A k \in 1..MaxMsgs : Owes(t, k)' <=> Owes(t, k)
    BY <1>o, <1>8
  <2>3. CountExact'
    <3>1. \A b \in Arrays : Owed(b)' = Owed(b) /\ InFlight(b)' = InFlight(b)
      BY <1>2, <1>3, <2>2, OwedSame DEF InFlight
    <3> QED  BY <1>t, <2>1, <3>1 DEF CountExact
  <2>4. TypeOK'
    BY <1>t, <1>a, <2>1 DEF TypeOK
  <2>5. BatchInv(t)'
    <3>1. Unseen(t)' = Unseen(t)
      BY <1>4, <1>8 DEF Unseen
    <3>2. msgs_ok'[t] + Cardinality(Unseen(t)') = size[t] /\ j + 1 >= 1
      BY <1>b, <2>1, <3>1
    <3> QED  BY <1>b, <1>3, <3>2 DEF BatchInv
  <2> QED  BY <1>t, <1>2, <1>5, <1>6, <2>3, <2>4, <2>5, ThreadStepInv DEF IInv
<1> QED  BY <1>7, <1>8

\* The loop stops: all failures have been seen.
LEMMA LoopEndsStep ==
  ASSUME IInv, NEW t \in Threads, LoopEnds(t)
  PROVE  IInv'
<1>t. TypeOK /\ ThreadInv /\ OwnInv /\ FreshInv /\ CountExact
  BY DEF IInv
<1>a. /\ pc[t] = "loop" /\ ~(i[t] <= size[t] /\ msgs_ok[t] < size[t])
      /\ pc' = [pc EXCEPT ![t] = "done"]
      /\ UNCHANGED <<size, karray, i, failed, msgs_ok, queued>>
      /\ UNCHANGED <<live, count, inflight>>
  BY DEF LoopEnds, LoopGoesOn, memVars
<1>b. /\ i[t] \in Nat /\ size[t] \in Nat /\ msgs_ok[t] \in Nat
      /\ failed[t] \subseteq 1..size[t]
      /\ msgs_ok[t] + Cardinality(Unseen(t)) = size[t]
  BY <1>t, <1>a, ConstantsAssumption DEF ThreadInv, BatchInv, TypeOK
<1>1. TypeOK'
  BY <1>t, <1>a DEF TypeOK, Locations
<1>2. Others(t) /\ pc'[t] = "done"
  BY <1>t, <1>a DEF Others, TypeOK
<1>3. Unseen(t) = {}
  <2>1. /\ Cardinality(Unseen(t)) \in Nat
        /\ Cardinality(Unseen(t)) = 0 <=> Unseen(t) = {}
    BY <1>b, FiniteFailures DEF Unseen
  <2>2. CASE i[t] > size[t]
    BY <1>b, <2>2 DEF Unseen
  <2>3. CASE ~(msgs_ok[t] < size[t])
    BY <1>b, <2>1, <2>3
  <2> QED  BY <1>a, <1>b, <2>2, <2>3
<1>4. \A k \in 1..MaxMsgs : ~Owes(t, k) /\ ~Owes(t, k)'
  BY <1>a, <1>2, <1>3 DEF Owes, Unseen
<1>5. ThreadInv'
  <2>1. BatchInv(t)'
    BY <1>2 DEF BatchInv
  <2> QED  BY <1>t, <1>2, <2>1, ThreadStepInv
<1>6. OwnInv'
  BY <1>t, <1>2, <1>4, OwnSame
<1>7. FreshInv'
  BY <1>t, <1>a, <1>2 DEF FreshInv, Others
<1>8. CountExact'
  <2>1. \A b \in Arrays : Owed(b)' = Owed(b) /\ InFlight(b)' = InFlight(b)
    BY <1>a, <1>2, <1>4, OwedSame DEF InFlight
  <2> QED  BY <1>t, <1>a, <2>1 DEF CountExact
<1> QED  BY <1>1, <1>5, <1>6, <1>7, <1>8 DEF IInv

\* Without a step of a thread, what the threads know and owe stays the same.
LEMMA ThreadsSame ==
  ASSUME ThreadInv, OwnInv, UNCHANGED threadVars
  PROVE  ThreadInv' /\ OwnInv'
<1>1. /\ pc' = pc /\ size' = size /\ karray' = karray /\ i' = i
      /\ failed' = failed /\ msgs_ok' = msgs_ok /\ queued' = queued
  BY DEF threadVars
<1>2. ASSUME NEW t \in Threads PROVE BatchInv(t)'
  <2>1. Unseen(t)' = Unseen(t)
    BY <1>1 DEF Unseen
  <2> QED  BY <1>1, <2>1 DEF ThreadInv, BatchInv
<1>3. \A t \in Threads : \A k \in 1..MaxMsgs : Owes(t, k)' <=> Owes(t, k)
  BY <1>1 DEF Owes
<1>4. OwnInv'
  BY <1>1, <1>3 DEF OwnInv
<1> QED  BY <1>2, <1>4 DEF ThreadInv

\* msg_delivered(), at any moment.
LEMMA MsgDeliveredStep ==
  ASSUME IInv, NEW m \in inflight, MsgDelivered(m)
  PROVE  IInv'
<1>t. TypeOK /\ ThreadInv /\ OwnInv /\ FreshInv /\ CountExact
  BY DEF IInv
<1>a. /\ inflight' = inflight \ {m} /\ Decref(m[1])
      /\ UNCHANGED <<pc, size, karray, i, failed, msgs_ok, queued>>
  BY DEF MsgDelivered, threadVars
<1>b. m[1] \in Arrays /\ m \in InFlight(m[1])
  BY <1>t DEF TypeOK, InFlight
<1>p. PICK a \in Arrays : a = m[1]
  BY <1>b
<1>1. \A b \in Arrays : Owed(b)' = Owed(b)
  BY <1>a DEF Owed, Owes
<1>2. \A b \in Arrays :
        InFlight(b)' = IF b = a THEN InFlight(b) \ {m} ELSE InFlight(b)
  BY <1>a, <1>p DEF InFlight
<1>3. /\ Cardinality(InFlight(a)') = Cardinality(InFlight(a)) - 1
      /\ count[a] > 0
  <2>1. m \in InFlight(a) /\ InFlight(a)' = InFlight(a) \ {m}
    BY <1>b, <1>p, <1>2
  <2>2. Cardinality(InFlight(a)') = Cardinality(InFlight(a)) - 1
    BY <1>t, <2>1, CountedFinite, FS_RemoveElement
  <2>3. Cardinality(InFlight(a)) \in Nat \ {0} /\ Cardinality(Owed(a)) \in Nat
    BY <1>t, <2>1, CountedFinite
  <2> QED  BY <1>t, <2>2, <2>3 DEF CountExact
<1>4. ASSUME NEW b \in Arrays
      PROVE  Cardinality(InFlight(b)') + Cardinality(Owed(b)') =
               IF b = a THEN count[b] - 1 ELSE count[b]
  <2>1. /\ count[b] = Cardinality(InFlight(b)) + Cardinality(Owed(b))
        /\ Cardinality(InFlight(b)) \in Nat /\ Cardinality(Owed(b)) \in Nat
    BY <1>t, CountedFinite DEF CountExact
  <2>2. CASE b = a
    BY <1>1, <1>3, <2>1, <2>2
  <2>3. CASE b # a
    BY <1>1, <1>2, <2>1, <2>3
  <2> QED  BY <2>2, <2>3
<1>5. CountExact' /\ count' \in [Arrays -> Nat] /\ live' \subseteq Arrays
  BY <1>t, <1>a, <1>p, <1>3, <1>4, DecrefExact
<1>6. TypeOK'
  BY <1>t, <1>a, <1>5 DEF TypeOK
<1>7. ThreadInv' /\ OwnInv'
  BY <1>t, ThreadsSame DEF MsgDelivered
<1>8. FreshInv'
  BY <1>t, <1>a DEF FreshInv
<1> QED  BY <1>5, <1>6, <1>7, <1>8 DEF IInv
-----------------------------------------------------------------------------
LEMMA InitIInv == Init => IInv
<1> SUFFICES ASSUME Init PROVE IInv
  OBVIOUS
<1> USE DEF Init
<1>1. TypeOK
  BY ConstantsAssumption DEF TypeOK, Locations
<1>2. ThreadInv /\ OwnInv /\ FreshInv
  BY DEF ThreadInv, BatchInv, OwnInv, Owes, FreshInv
<1>3. \A a \in Arrays : Owed(a) = {} /\ InFlight(a) = {}
  BY DEF Owed, Owes, InFlight
<1>4. CountExact
  BY <1>3, FS_EmptySet DEF CountExact
<1> QED  BY <1>1, <1>2, <1>4 DEF IInv

LEMMA NextIInv == IInv /\ [Next]_vars => IInv'
<1> SUFFICES ASSUME IInv, [Next]_vars PROVE IInv'
  OBVIOUS
<1>1. CASE UNCHANGED vars
  <2>1. \A a \in Arrays : Owed(a)' = Owed(a) /\ InFlight(a)' = InFlight(a)
    BY <1>1 DEF vars, threadVars, memVars, Owed, Owes, InFlight
  <2>2. CountExact'
    BY <1>1, <2>1 DEF IInv, CountExact, vars, memVars
  <2>3. ThreadInv' /\ OwnInv'
    BY <1>1, ThreadsSame DEF vars, IInv
  <2>4. TypeOK' /\ FreshInv'
    BY <1>1 DEF vars, threadVars, memVars, IInv, TypeOK, FreshInv
  <2> QED  BY <2>2, <2>3, <2>4 DEF IInv
<1> QED
  BY <1>1, BuildStep, StealStep, QueueStep, QueueFailsStep, LoopStepStep,
     LoopEndsStep, MsgDeliveredStep DEF Next, ThreadStep

\* IInv holds in every interleaving of the threads that produce and the one that
\* polls, whatever librdkafka takes or refuses.
THEOREM Invariance == Spec => []IInv
BY InitIInv, NextIInv, PTL DEF Spec

\* karray->count is exact, and the buffers live exactly while it is not zero.
THEOREM CountsAreExact == Spec => [](TypeOK /\ CountExact)
<1>1. IInv => TypeOK /\ CountExact
  BY DEF IInv
<1> QED  BY Invariance, <1>1, PTL

\* Neither librdkafka nor the loop of kafka_message_array_produce() sees a freed
\* array or payload.
THEOREM FreedIsNotUsed == Spec => []NoUseAfterFree
<1>1. ASSUME IInv PROVE NoUseAfterFree
  <2>t. TypeOK /\ ThreadInv /\ OwnInv /\ CountExact
    BY <1>1 DEF IInv
  <2>1. ASSUME NEW m \in inflight PROVE m[1] \in live
    <3>1. m[1] \in Arrays /\ m \in InFlight(m[1])
      BY <2>t DEF TypeOK, InFlight
    <3>2. /\ Cardinality(InFlight(m[1])) \in Nat \ {0}
          /\ Cardinality(Owed(m[1])) \in Nat
      BY <2>t, <3>1, CountedFinite
    <3> QED  BY <2>t, <3>1, <3>2 DEF CountExact
  <2>2. ASSUME NEW t \in Threads, Reads(t)
        PROVE  karray[t] \in Arrays /\ \E k \in 1..MaxMsgs : Owes(t, k)
    <3>1. CASE pc[t] = "batch"
      BY <1>1, <3>1, InBatchFacts
    <3>2. CASE pc[t] = "loop" /\ LoopGoesOn(t)
      <4>1. /\ karray[t] \in Arrays /\ size[t] \in 0..MaxMsgs
            /\ failed[t] \subseteq 1..size[t] /\ msgs_ok[t] \in Nat
            /\ msgs_ok[t] + Cardinality(Unseen(t)) = size[t]
            /\ msgs_ok[t] < size[t]
        BY <2>t, <3>2 DEF ThreadInv, BatchInv, TypeOK, LoopGoesOn
      <4>2. Unseen(t) # {}
        BY <4>1, FS_EmptySet
      <4>3. PICK k \in failed[t] : k >= i[t]
        BY <4>2 DEF Unseen
      <4>4. k \in 1..MaxMsgs
        BY <4>1, <4>3, ConstantsAssumption
      <4> QED  BY <3>2, <4>1, <4>3, <4>4 DEF Owes
    <3> QED  BY <2>2, <3>1, <3>2 DEF Reads
  <2>3. ASSUME NEW t \in Threads, Reads(t) PROVE karray[t] \in live
    <3>1. PICK k \in 1..MaxMsgs : Owes(t, k)
      BY <2>2, <2>3
    <3>2. karray[t] \in Arrays /\ <<t, k>> \in Owed(karray[t])
      BY <2>2, <2>3, <3>1 DEF Owed
    <3>3. /\ Cardinality(Owed(karray[t])) \in Nat \ {0}
          /\ Cardinality(InFlight(karray[t])) \in Nat
      BY <2>t, <3>2, CountedFinite
    <3> QED  BY <2>t, <3>2, <3>3 DEF CountExact
  <2>4. ASSUME NEW t \in Threads, NEW u \in Threads,
               Reads(t), Reads(u), karray[t] = karray[u]
        PROVE  t = u
    BY <2>t, <2>2, <2>4 DEF OwnInv
  <2> QED  BY <2>1, <2>3, <2>4 DEF NoUseAfterFree
<1> QED  BY Invariance, <1>1, PTL
=============================================================================
