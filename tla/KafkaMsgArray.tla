---------------------------- MODULE KafkaMsgArray ----------------------------
(***************************************************************************)
(* The kafka message array (util/kafka_message_array.[ch]): the messages   *)
(* that one call of a decoder extracts from a chunk of a request.  They    *)
(* share one payload buffer, and the array itself is the reference count   *)
(* of that buffer: every message is one reference, dropped either by the   *)
(* delivery report callback (msg_delivered, run by the main thread in      *)
(* kafka_poll) or, if librdkafka did not take the message, by the loop at  *)
(* the end of kafka_message_array_produce (run by the thread of the        *)
(* request).  The two threads run concurrently: librdkafka may report the  *)
(* first messages of a batch while the last ones are still being queued.   *)
(***************************************************************************)
EXTENDS Integers, FiniteSets

CONSTANTS
  Threads,  \* threads that call zz_decode()
  Arrays,   \* addresses where a karray can be allocated
  MaxMsgs,  \* bound of the messages found in one chunk
  NULL

ASSUME ConstantsAssumption ==
  /\ IsFiniteSet(Threads) /\ IsFiniteSet(Arrays)
  /\ MaxMsgs \in Nat
  /\ NULL \notin Arrays

VARIABLES
  pc,        \* where each thread is
  size,      \* messages in session->kafka_msgs; messages_in_batch afterwards
  karray,    \* the array a thread produces
  i,         \* next message: of produce_batch, then of the loop of failures
  failed,    \* messages of the batch whose err is set
  msgs_ok,   \* local variable msgs_ok; the returned value afterwards
  queued,    \* messages of the batch that librdkafka took
  live,      \* arrays (and payload buffers) allocated and handed over
  count,     \* karray->count
  inflight   \* messages in librdkafka: pairs of an array and an index

threadVars == <<pc, size, karray, i, failed, msgs_ok, queued>>
memVars == <<live, count, inflight>>
vars == <<threadVars, memVars>>

\* "build": the parser adds messages.  "batch": in rd_kafka_produce_batch().
\* "loop": in the loop over the failed messages.  "done": has returned.
Locations == {"build", "batch", "loop", "done"}

Init ==
  /\ pc = [t \in Threads |-> "build"]
  /\ size = [t \in Threads |-> 0]
  /\ karray = [t \in Threads |-> NULL]
  /\ i = [t \in Threads |-> 1]
  /\ failed = [t \in Threads |-> {}]
  /\ msgs_ok = [t \in Threads |-> 0]
  /\ queued = [t \in Threads |-> 0]
  /\ live = {}
  /\ count = [a \in Arrays |-> 0]
  /\ inflight = {}
-----------------------------------------------------------------------------
\* Mutant of Decref: the reference count is ignored.
DecrefFrees(a) ==
  /\ count' = [count EXCEPT ![a] = @ - 1]
  /\ live' = live \ {a}

\* kafka_message_array_internal_decref(): atomic decrement; whoever reaches
\* zero frees the payload buffer and the array.
Decref(a) ==
  /\ count' = [count EXCEPT ![a] = @ - 1]
  /\ live' = IF count[a] = 1 THEN live \ {a} ELSE live

\* kafka_msg_array_add().  If there is no memory nothing changes, and the caller
\* logs the error and goes on: string_append() allocates enough for the header
\* and the first messages at once, so the header is never there without them.
AddMessage(t) ==
  /\ pc[t] = "build"
  /\ size[t] < MaxMsgs
  /\ size' = [size EXCEPT ![t] = @ + 1]
  /\ UNCHANGED <<pc, karray, i, failed, msgs_ok, queued, memVars>>

\* Mutant of Steal: one reference for the whole batch.
StealOnce(t) ==
  /\ pc[t] = "build"
  /\ size[t] > 0
  /\ \E a \in Arrays \ live :
       /\ karray' = [karray EXCEPT ![t] = a]
       /\ live' = live \cup {a}
       /\ count' = [count EXCEPT ![a] = 1]
  /\ pc' = [pc EXCEPT ![t] = "batch"]
  /\ UNCHANGED <<size, i, failed, msgs_ok, queued, inflight>>

\* The chunk is parsed, its buffer is given to the array and
\* kafka_message_array_produce() takes the array from the session: from here
\* on the address of the array is fixed and known to the messages.
Steal(t) ==
  /\ pc[t] = "build"
  /\ size[t] > 0
  /\ \E a \in Arrays \ live :
       /\ karray' = [karray EXCEPT ![t] = a]
       /\ live' = live \cup {a}
       /\ count' = [count EXCEPT ![a] = size[t]]
  /\ pc' = [pc EXCEPT ![t] = "batch"]
  /\ UNCHANGED <<size, i, failed, msgs_ok, queued, inflight>>

\* Where the thread goes after the i-th message of the batch, ok of them taken.
AfterMessage(t, ok) ==
  /\ pc' = [pc EXCEPT ![t] = IF i[t] < size[t] THEN "batch"
                             ELSE IF ok = size[t] THEN "done" ELSE "loop"]
  /\ i' = [i EXCEPT ![t] = IF i[t] < size[t] THEN @ + 1 ELSE 1]
  /\ msgs_ok' = [msgs_ok EXCEPT ![t] = IF i[t] < size[t] THEN @ ELSE ok]

\* rd_kafka_produce_batch() takes a message.
Queue(t) ==
  /\ pc[t] = "batch"
  /\ inflight' = inflight \cup {<<karray[t], i[t]>>}
  /\ queued' = [queued EXCEPT ![t] = @ + 1]
  /\ AfterMessage(t, queued[t] + 1)
  /\ UNCHANGED <<size, karray, failed, live, count>>

\* rd_kafka_produce_batch() does not take a message: the queue is full, the
\* message is too large, the topic or the partition is unknown.
QueueFails(t) ==
  /\ pc[t] = "batch"
  /\ failed' = [failed EXCEPT ![t] = @ \cup {i[t]}]
  /\ AfterMessage(t, queued[t])
  /\ UNCHANGED <<size, karray, queued, memVars>>

\* The condition of the loop over the failed messages; it does not look at the
\* array.  Its mutant goes through the whole batch.
InBatch(t) == i[t] <= size[t]

LoopGoesOn(t) == i[t] <= size[t] /\ msgs_ok[t] < size[t]

\* Mutant of LoopStep: a failed message keeps its reference.
LoopCounts(t) ==
  /\ pc[t] = "loop"
  /\ LoopGoesOn(t)
  /\ IF i[t] \in failed[t]
     THEN msgs_ok' = [msgs_ok EXCEPT ![t] = @ + 1]
     ELSE UNCHANGED msgs_ok
  /\ i' = [i EXCEPT ![t] = @ + 1]
  /\ UNCHANGED <<pc, size, karray, failed, queued, memVars>>

\* One turn of that loop: the reference of a failed message is dropped.  The
\* array may be freed from here on, as soon as the last failure has been seen.
LoopStep(t) ==
  /\ pc[t] = "loop"
  /\ LoopGoesOn(t)
  /\ IF i[t] \in failed[t]
     THEN /\ msgs_ok' = [msgs_ok EXCEPT ![t] = @ + 1]
          /\ Decref(karray[t])
     ELSE UNCHANGED <<msgs_ok, live, count>>
  /\ i' = [i EXCEPT ![t] = @ + 1]
  /\ UNCHANGED <<pc, size, karray, failed, queued, inflight>>

LoopEnds(t) ==
  /\ pc[t] = "loop"
  /\ ~LoopGoesOn(t)
  /\ pc' = [pc EXCEPT ![t] = "done"]
  /\ UNCHANGED <<size, karray, i, failed, msgs_ok, queued, memVars>>

\* zz_decode() returns, and the thread gets another chunk.  (A chunk
\* without messages changes nothing.)
NextChunk(t) ==
  /\ pc[t] = "done"
  /\ pc' = [pc EXCEPT ![t] = "build"]
  /\ size' = [size EXCEPT ![t] = 0]
  /\ karray' = [karray EXCEPT ![t] = NULL]
  /\ i' = [i EXCEPT ![t] = 1]
  /\ failed' = [failed EXCEPT ![t] = {}]
  /\ msgs_ok' = [msgs_ok EXCEPT ![t] = 0]
  /\ queued' = [queued EXCEPT ![t] = 0]
  /\ UNCHANGED memVars

\* librdkafka is done with a message, delivered or not, and kafka_poll() runs
\* msg_delivered() on it.
MsgDelivered(m) ==
  /\ m \in inflight
  /\ inflight' = inflight \ {m}
  /\ Decref(m[1])
  /\ UNCHANGED threadVars

\* What thread t does once it has the messages of a chunk.
ThreadStep(t) ==
  \/ Steal(t)
  \/ Queue(t)
  \/ QueueFails(t)
  \/ LoopStep(t)
  \/ LoopEnds(t)
  \/ NextChunk(t)

Next ==
  \/ \E t \in Threads : AddMessage(t) \/ ThreadStep(t)
  \/ \E m \in inflight : MsgDelivered(m)

Spec == Init /\ [][Next]_vars

\* Threads run.  The main thread polls until librdkafka has no message left, and
\* librdkafka reports every message it took, as a timeout in the worst case.
FairSpec ==
  /\ Spec
  /\ \A t \in Threads : WF_vars(ThreadStep(t))
  /\ \A m \in Arrays \X (1..MaxMsgs) : WF_vars(MsgDelivered(m))
-----------------------------------------------------------------------------
\* The references of array a that librdkafka holds.
InFlight(a) == {m \in inflight : m[1] = a}

\* Thread t still has to hand message k over or to drop its reference.
Owes(t, k) ==
  \/ pc[t] = "batch" /\ (k \in failed[t] \/ k \in i[t]..size[t])
  \/ pc[t] = "loop" /\ k \in failed[t] /\ k >= i[t]

Owed(a) == {tk \in Threads \X (1..MaxMsgs) :
              karray[tk[1]] = a /\ Owes(tk[1], tk[2])}

\* The next step of thread t reads the array.
Reads(t) == pc[t] = "batch" \/ (pc[t] = "loop" /\ LoopGoesOn(t))

\* Every variable has the type of the field it stands for; no count wraps.
TypeOK ==
  /\ pc \in [Threads -> Locations]
  /\ size \in [Threads -> 0..MaxMsgs]
  /\ karray \in [Threads -> Arrays \cup {NULL}]
  /\ i \in [Threads -> Nat]
  /\ failed \in [Threads -> SUBSET (1..MaxMsgs)]
  /\ msgs_ok \in [Threads -> Nat]
  /\ queued \in [Threads -> Nat]
  /\ live \subseteq Arrays
  /\ count \in [Arrays -> Nat]
  /\ inflight \subseteq Arrays \X (1..MaxMsgs)

\* karray->count is the number of messages that librdkafka has not reported
\* plus the number of those that kafka_message_array_produce() still has to
\* queue or to drop, and the buffers are freed exactly when it is zero: every
\* message is released once, whichever thread does it and however many fail.
CountExact ==
  \A a \in Arrays :
    /\ count[a] = Cardinality(InFlight(a)) + Cardinality(Owed(a))
    /\ a \in live <=> count[a] > 0

\* No use after free.  The payload of a message that librdkafka has is
\* allocated; and so is the array when kafka_message_array_produce() reads it,
\* although msg_delivered() may drop all the references of the queued messages
\* meanwhile: the loop stops at the last failure, the one whose reference may
\* have been the last, and not at the end of the batch.  Nor is it then the
\* array of another thread at the same address.
NoUseAfterFree ==
  /\ \A m \in inflight : m[1] \in live
  /\ \A t \in Threads : Reads(t) => karray[t] \in live
  /\ \A t, u \in Threads :
       Reads(t) /\ Reads(u) /\ karray[t] = karray[u] => t = u

\* Every payload buffer is freed in the end, when all the messages of its array
\* have been processed (kafka_message_array.h:128).
PayloadFreed == \A a \in Arrays : a \in live ~> a \notin live

\* "Number of messages effectively queued" (kafka_message_array.h:167): what
\* kafka_message_array_produce() returns.
ReturnsQueued == \A t \in Threads : pc[t] = "done" => msgs_ok[t] = queued[t]
==============================================================================
