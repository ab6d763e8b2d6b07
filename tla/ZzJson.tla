------------------------------- MODULE ZzJson -------------------------------
(***************************************************************************)
(* The JSON side of the zz_http2k decoder (zz_http2k_parser_json.c and     *)
(* zz_decode): it cuts a request body, which arrives in chunks split at    *)
(* any byte, into its top-level JSON objects and hands each one to         *)
(* librdkafka as a message.  An object inside one chunk is a slice of the  *)
(* copy of that chunk and goes with the batch of the call; an object that  *)
(* spans chunks is gathered in last_object and goes on its own, at once.   *)
(*                                                                         *)
(* A byte opens an object, closes one, is one that yajl refuses, or is any *)
(* other byte.  Bytes are told apart by their position in the body, so a   *)
(* message is the sequence of the positions of its bytes.                  *)
(***************************************************************************)
EXTENDS Integers, Sequences, FiniteSets, Functions

CONSTANTS
  MaxLen   \* bound of the length of a body

ASSUME ConstantsAssumption == MaxLen \in Nat

\* The brackets of objects, a byte that yajl refuses, and any other byte.
Bodies == UNION {[1..n -> {"open", "close", "other", "bad"}] : n \in 0..MaxLen}

\* A pointer that is not into the body.
NULL == 0

VARIABLES
  body,          \* the bytes of the request, the ones to come included
  pc,            \* "idle": no session.  "wait": between chunks.  "parse": in
                 \* yajl_parse().  "failed": zz_decode() returned an error
  pos,           \* bytes of the body that yajl has consumed
  chunk,         \* first and last position of the chunk being parsed
  stack_pos,     \* json_session.stack_pos
  last_open_map, \* json_session.http_chunk.last_open_map
  last_object,   \* json_session.http_prev_chunk.last_object
  kafka_msgs,    \* session->kafka_msgs
  offered,       \* messages given to rd_kafka_produce_batch(), in order
  rc,            \* what zz_decode() returned last
  spoiled        \* where the objects start for which an allocation failed

sessVars == <<stack_pos, last_open_map, last_object, kafka_msgs>>
vars == <<body, pc, pos, chunk, sessVars, offered, rc, spoiled>>

Init ==
  /\ body = <<>>
  /\ pc = "idle"
  /\ pos = 0
  /\ chunk = [first |-> 1, last |-> 0]
  /\ stack_pos = 0
  /\ last_open_map = NULL
  /\ last_object = <<>>
  /\ kafka_msgs = <<>>
  /\ offered = <<>>
  /\ rc = "OK"
  /\ spoiled = {}
-----------------------------------------------------------------------------
\* The bytes from position lo to position hi.  A slice that starts at NULL is
\* memory that is not the request's.
Slice(lo, hi) == IF lo = NULL THEN <<NULL, hi>>
                 ELSE [k \in 1..(hi - lo + 1) |-> lo + k - 1]

\* The nesting depth of body b after its first k bytes, as yajl counts it.
Depth(b, k) == Cardinality({j \in 1..k : b[j] = "open"})
                 - Cardinality({j \in 1..k : b[j] = "close"})

\* The top-level objects that end within the first k bytes of b.
Objects(b, k) ==
  {o \in (1..k) \X (1..k) :
     /\ o[1] < o[2]
     /\ b[o[1]] = "open" /\ Depth(b, o[1] - 1) = 0
     /\ b[o[2]] = "close" /\ Depth(b, o[2]) = 0
     /\ \A j \in o[1]..(o[2] - 1) : Depth(b, j) > 0}

\* Where the top-level object that is open after k bytes of b starts.
OpenObject(b, k) ==
  CHOOSE lo \in 1..k : /\ Depth(b, lo - 1) = 0
                       /\ \A j \in lo..k : Depth(b, j) > 0

\* yajl reports a syntax error at the next byte.
Refuses == \/ body[pos + 1] = "bad"
           \/ body[pos + 1] = "close" /\ Depth(body, pos) = 0

\* yajl consumes the next byte of the chunk, which is c.
Consume(c) ==
  /\ pc = "parse"
  /\ pos < chunk.last
  /\ body[pos + 1] = c
  /\ pos' = pos + 1
  /\ UNCHANGED <<body, pc, chunk, rc>>

\* An allocation for the object that is open succeeds or, if it does not, the
\* object is spoiled.
Allocation(ok, lo) == spoiled' = IF ok THEN spoiled ELSE spoiled \cup {lo}

\* A request arrives: new_zz_session_json().
NewSession(b) ==
  /\ pc = "idle"
  /\ pc' = "wait"
  /\ body' = b
  /\ UNCHANGED <<pos, chunk, sessVars, offered, rc, spoiled>>

\* zz_decode() is called with the next bytes of the body, and
\* process_json_buffer() copies them.
ReceiveChunk(n) ==
  /\ pc = "wait"
  /\ pos + n <= Len(body)
  /\ pc' = "parse"
  /\ chunk' = [first |-> pos + 1, last |-> pos + n]
  /\ UNCHANGED <<body, pos, sessVars, offered, rc, spoiled>>

\* There is no memory for the copy.
ReceiveNoMemory ==
  /\ pc = "wait"
  /\ pos < Len(body)
  /\ pc' = "failed"
  /\ rc' = "MEMORY_ERROR"
  /\ UNCHANGED <<body, pos, chunk, sessVars, offered, spoiled>>

\* Mutant of StartMap: every object, nested or not, starts a message.
StartAnyMap ==
  /\ Consume("open")
  /\ stack_pos' = stack_pos + 1
  /\ last_open_map' = pos + 1
  /\ UNCHANGED <<last_object, kafka_msgs, offered, spoiled>>

\* zz_parse_start_json_map().
StartMap ==
  /\ Consume("open")
  /\ stack_pos' = stack_pos + 1
  /\ last_open_map' = IF stack_pos = 0 THEN pos + 1 ELSE last_open_map
  /\ UNCHANGED <<last_object, kafka_msgs, offered, spoiled>>

\* Mutant of EndInnerMap: the level is counted twice.
EndInnerMapTwice ==
  /\ Consume("close")
  /\ ~Refuses
  /\ stack_pos # 1
  /\ stack_pos' = stack_pos - 2
  /\ UNCHANGED <<last_open_map, last_object, kafka_msgs, offered, spoiled>>

\* zz_parse_end_json_map() of a nested object.
EndInnerMap ==
  /\ Consume("close")
  /\ ~Refuses
  /\ stack_pos # 1
  /\ stack_pos' = stack_pos - 1
  /\ UNCHANGED <<last_open_map, last_object, kafka_msgs, offered, spoiled>>

\* zz_parse_end_json_map0(): the object is a slice of this chunk.  Without
\* memory for the message (ok is FALSE) the object is dropped.
EndMap0(ok) ==
  /\ Consume("close")
  /\ ~Refuses
  /\ stack_pos = 1
  /\ last_object = <<>>
  /\ stack_pos' = 0
  /\ kafka_msgs' = IF ok THEN Append(kafka_msgs, Slice(last_open_map, pos + 1))
                   ELSE kafka_msgs
  /\ last_open_map' = NULL
  /\ Allocation(ok, OpenObject(body, pos))
  /\ UNCHANGED <<last_object, offered>>

\* zz_parse_end_json_map_split(): the object started in an earlier chunk.
\* Whether librdkafka takes the message or not, last_object is empty afterwards.
EndMapSplit(ok) ==
  /\ Consume("close")
  /\ ~Refuses
  /\ stack_pos = 1
  /\ last_object # <<>>
  /\ stack_pos' = 0
  /\ offered' = IF ok THEN Append(offered, last_object \o
                                             Slice(chunk.first, pos + 1))
                ELSE offered
  /\ last_object' = <<>>
  /\ Allocation(ok, OpenObject(body, pos))
  /\ UNCHANGED <<last_open_map, kafka_msgs>>

\* A byte without a callback.
OtherByte == Consume("other") /\ UNCHANGED <<sessVars, offered, spoiled>>

\* Mutant of EndOfCall: what a call found goes before what is already sent.
EndOfCallFirst ==
  /\ offered' = kafka_msgs \o offered
  /\ kafka_msgs' = <<>>
  /\ last_open_map' = NULL
  /\ UNCHANGED <<body, pos, chunk, stack_pos>>

\* The end of process_json_buffer() and of zz_decode(): the batch is produced
\* and what belongs to the chunk is forgotten.
EndOfCall ==
  /\ offered' = offered \o kafka_msgs
  /\ kafka_msgs' = <<>>
  /\ last_open_map' = NULL
  /\ UNCHANGED <<body, pos, chunk, stack_pos>>

\* yajl_parse() fails.  The objects that ended before the error are sent.
ParseError ==
  /\ pc = "parse"
  /\ pos < chunk.last
  /\ Refuses
  /\ pc' = "failed"
  /\ rc' = "INVALID_REQUEST"
  /\ EndOfCall
  /\ UNCHANGED <<last_object, spoiled>>

\* Mutant of LastObject: an object is thought to span two chunks at most.
LastObjectOfTwo ==
  IF last_open_map # NULL
  THEN last_object \o Slice(last_open_map, chunk.last)
  ELSE last_object

\* What last_object becomes at the end of a chunk: the start of an object that
\* is not closed, or one more piece of the object it already has.
LastObject ==
  IF last_open_map # NULL
  THEN last_object \o Slice(last_open_map, chunk.last)
  ELSE IF last_object # <<>>
  THEN last_object \o Slice(chunk.first, chunk.last)
  ELSE <<>>

\* yajl_parse() has consumed the chunk.
EndChunk(ok) ==
  /\ pc = "parse"
  /\ pos = chunk.last
  /\ pc' = "wait"
  /\ rc' = "OK"
  /\ ok \/ LastObject # last_object
  /\ last_object' = IF ok THEN LastObject ELSE last_object
  /\ Allocation(ok, OpenObject(body, pos))
  /\ EndOfCall

\* The request ends, complete or not: free_zz_session_json().
FreeSession ==
  /\ pc \in {"wait", "failed"}
  /\ pc' = "idle"
  /\ body' = <<>>
  /\ pos' = 0
  /\ chunk' = [first |-> 1, last |-> 0]
  /\ stack_pos' = 0
  /\ last_object' = <<>>
  /\ offered' = <<>>
  /\ rc' = "OK"
  /\ spoiled' = {}
  /\ UNCHANGED <<last_open_map, kafka_msgs>>

Next ==
  \/ \E b \in Bodies : NewSession(b)
  \/ \E n \in 1..MaxLen : ReceiveChunk(n)
  \/ ReceiveNoMemory
  \/ StartMap \/ EndInnerMap \/ OtherByte \/ ParseError
  \/ \E ok \in BOOLEAN : EndMap0(ok) \/ EndMapSplit(ok) \/ EndChunk(ok)
  \/ FreeSession

Spec == Init /\ [][Next]_vars
-----------------------------------------------------------------------------
\* All the messages that come out of a session, in the order librdkafka gets
\* them; the last ones are still in the batch of the current call.
Messages == offered \o kafka_msgs

\* Every variable has the type of the field it stands for; stack_pos does not
\* wrap below zero.
TypeOK ==
  /\ body \in Bodies
  /\ pc \in {"idle", "wait", "parse", "failed"}
  /\ pos \in 0..Len(body)
  /\ stack_pos \in 0..MaxLen
  /\ last_open_map \in 0..pos
  /\ last_object \in Seq(Nat)
  /\ \A k \in DOMAIN Messages : Messages[k] \in Seq(Nat)
  /\ rc \in {"OK", "INVALID_REQUEST", "MEMORY_ERROR"}
  /\ spoiled \subseteq 1..MaxLen

\* Wherever the body is cut into chunks, the messages are its top-level objects,
\* byte by byte, each one once: all those that have ended, also before a syntax
\* error, and nothing else.  When an allocation fails, zz_parse_end_json_map0(),
\* zz_parse_end_json_map_split() and process_json_buffer() log it and go on, and
\* only the object they were working on is lost or damaged.
EveryObjectOnce ==
  /\ \A o \in Objects(body, pos) :
       o[1] \notin spoiled =>
         \E k \in DOMAIN Messages : Messages[k] = Slice(o[1], o[2])
  /\ \A k \in DOMAIN Messages :
       LET m == Messages[k] IN
       \E o \in Objects(body, pos) :
         m[Len(m)] = o[2] /\ (o[1] \notin spoiled => m = Slice(o[1], o[2]))

\* librdkafka gets the messages in the order of the body, although an object
\* that spans chunks is produced before the batch of its call.
BodyOrder ==
  \A j, k \in DOMAIN Messages : j < k =>
    Messages[j][Len(Messages[j])] < Messages[k][Len(Messages[k])]

\* What is kept between two chunks is the start of the object that is open, and
\* nothing is kept when none is: the test of zz_parse_end_json_map() for a
\* split object depends on it.
LastObjectIsOpen ==
  pc = "wait" /\ spoiled = {} =>
    last_object = IF Depth(body, pos) > 0 THEN Slice(OpenObject(body, pos), pos)
                  ELSE <<>>
=============================================================================
