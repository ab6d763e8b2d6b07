-------------------------------- MODULE ZzXml --------------------------------
(***************************************************************************)
(* The XML side of the zz_http2k decoder (zz_http2k_parser_xml.c and       *)
(* zz_decode): it turns each XML document of a request body, which arrives *)
(* in chunks, into a JSON object and hands it to librdkafka as a message.  *)
(* expat calls back for each tag and text; the callbacks write JSON with   *)
(* yajl into yajl_gen_buf, where a message is an offset and a length; at   *)
(* the end of a document the parser is stopped and started again behind it.*)
(*                                                                         *)
(* A body is a sequence of tokens: an opening tag without ("open") or with *)
(* attributes ("open@"), a closing tag, a piece of text, something that is *)
(* read without a callback ("space": a comment, a processing instruction,  *)
(* or white space outside of the documents), and something that is no XML  *)
(* ("bad").  The output is a sequence of JSON pieces.  A piece is a        *)
(* sequence itself: its kind and the positions of the tokens whose text is *)
(* in it.  Memory may run out, but not for the text of an error.           *)
(***************************************************************************)
EXTENDS Integers, Sequences, FiniteSets

CONSTANTS
  YAJL_MAX_DEPTH, \* of the JSON generator, and of stack_boolean_info
  MaxLen          \* bound of the tokens of a body

ASSUME ConstantsAssumption ==
  /\ MaxLen \in Nat
  /\ YAJL_MAX_DEPTH \in Nat /\ YAJL_MAX_DEPTH > 2
  /\ YAJL_MAX_DEPTH % 2 = 0 \* it is 128

Tokens == {"open", "open@", "close", "text", "space", "bad"}

NO_JSON_LAST_OPEN_MAP == -1

VARIABLES
  pc,            \* "idle": no session.  "wait": between chunks.  "parse": in
                 \* XML_Parse() or the loop around it.  "epilog": the same,
                 \* stopped behind a document.  "stopped": XML_Parse()
                 \* returned because a callback stopped it.  "failed":
                 \* zz_decode() returned an error.  "freed".  "crashed"
  body,          \* the tokens of the request so far
  chunk,         \* the body before XML_Parse()'s buffer, and at its end
  fed,           \* bytes that the parser got in earlier calls, since its reset
  level,         \* open elements, as expat counts them
  offset,        \* XML_GetCurrentByteIndex() of a stopped parser
  finished,      \* XML_Parse() returned OK from a stopped parser: it takes no more
  depth,         \* open maps and arrays, as yajl counts them
  yajl_gen_buf, last_open_map, stack_pos, \* xml_session.json_buf
  stack_boolean_info,                     \* two bits for each of its frames
  http_response, \* it is not empty: an error was queued
  rc,            \* xml_session.rc
  kafka_msgs,    \* session->kafka_msgs, while they are offsets
  offered,       \* messages given to rd_kafka_produce_batch(), in order
  ahead,         \* some chunk was given to a parser that had read something
                 \* since its last reset
  oom            \* some allocation failed

expatVars == <<chunk, fed, level, offset, finished>>
genVars == <<depth, yajl_gen_buf, last_open_map, stack_pos, stack_boolean_info>>
errVars == <<http_response, rc>>
vars == <<pc, body, expatVars, genVars, errVars, kafka_msgs, offered, ahead, oom>>

Bits == 0..(2 * YAJL_MAX_DEPTH - 1)

Init ==
  /\ pc = "idle"
  /\ body = <<>>
  /\ chunk = [from |-> 0, to |-> 0]
  /\ fed = 0
  /\ level = 0
  /\ offset = 0
  /\ finished = FALSE
  /\ depth = 0
  /\ yajl_gen_buf = <<>>
  /\ last_open_map = NO_JSON_LAST_OPEN_MAP
  /\ stack_pos = 0
  /\ stack_boolean_info = [b \in Bits |-> FALSE]
  /\ http_response = FALSE
  /\ rc = "OK"
  /\ kafka_msgs = <<>>
  /\ offered = <<>>
  /\ ahead = FALSE
  /\ oom = FALSE
-----------------------------------------------------------------------------
\* The next token of XML_Parse()'s buffer is c.
Take(c) ==
  /\ Len(body) < chunk.to
  /\ body' = Append(body, c)

\* XML_Parse() comes to it.
Consume(c) ==
  /\ pc = "parse"
  /\ ~http_response
  /\ ~finished
  /\ Take(c)

\* Where the parser is behind the token that is being consumed, counted from its
\* last reset.
IndexAfter == fed + Len(body) + 1 - chunk.from

\* Mutant of expat_err2code: no error but that of the memory has a code.
expat_err2ok == [NONE |-> "OK", NO_MEMORY |-> "MEMORY_ERROR",
                 FINISHED |-> "OK", SYNTAX |-> "OK"]

\* expat_err2codestr() and yajl_gen_err2codestr(), by the classes of errors that
\* can come here.  SYNTAX is any error of the text of the document.
expat_err2code == [NONE |-> "OK", NO_MEMORY |-> "MEMORY_ERROR",
                   FINISHED |-> "GENERIC_ERROR", SYNTAX |-> "INVALID_REQUEST"]
yajl_gen_err2code == [ok |-> "OK", max_depth_exceeded |-> "INVALID_REQUEST"]

\* The error text is written, which makes every later callback return at once,
\* and the parser is stopped.
queue_xml_error(gen_status, xml_err) ==
  /\ http_response' = TRUE
  /\ rc' = IF yajl_gen_err2code[gen_status] # "OK" THEN yajl_gen_err2code[gen_status]
           ELSE expat_err2code[xml_err]

\* The pieces of s but those at the positions in lost.
Without(s, lost) ==
  LET kept == SelectSeq([k \in DOMAIN s |-> k], LAMBDA k : k \notin lost)
  IN [j \in DOMAIN kept |-> s[kept[j]]]

\* yajl_print_callback() for the pieces s.  Without memory some are lost, and
\* the error that is queued has the code that expat has for it: none, unless
\* the parser was already stopped more than once.
PrintTo(buf, s) ==
  \/ /\ yajl_gen_buf' = buf \o s
     /\ UNCHANGED <<errVars, oom>>
  \/ /\ \E lost \in (SUBSET DOMAIN s) \ {{}} :
          yajl_gen_buf' = buf \o Without(s, lost)
     /\ \E e \in {"NONE", "FINISHED"} : queue_xml_error("ok", e)
     /\ oom' = TRUE

\* After a callback XML_Parse() goes on, or stops if an error was queued.
GoOn ==
  /\ pc' = IF http_response' THEN "stopped" ELSE "parse"
  /\ offset' = IndexAfter

\* The bits of a frame of the stack.
text_printed_bit(p) == 2 * p
children_printed_bit(p) == 2 * p + 1

text_printed == stack_boolean_info[text_printed_bit(stack_pos)]
children_printed == stack_boolean_info[children_printed_bit(stack_pos)]

bit_set(v, b) == [v EXCEPT ![b] = TRUE]
bit_clear(v, b) == [v EXCEPT ![b] = FALSE]

\* Mutant of ClearFrame: the bits of the element that had this frame stay.
ClearNothing(v, p) == v

\* The frame of a new element has no text and no children yet.
ClearFrame(v, p) ==
  bit_clear(bit_clear(v, text_printed_bit(p)), children_printed_bit(p))

\* Mutant of OpenedAt: the frame is counted before the root is looked for.
OpenedAtNone == last_open_map

\* Mutant of OpenedAt: every message starts where the buffer does.
OpenedAtStart == IF stack_pos = 0 THEN 0 ELSE last_open_map

\* The message of a root element starts at the end of the buffer.
OpenedAt == IF stack_pos = 0 THEN Len(yajl_gen_buf) ELSE last_open_map

\* What zz_parse_start_xml_element() prints before a child: the array of its
\* parent's children, or the end of the child before it.
OpensChild ==
  IF children_printed THEN <<<<"map_close">>>>
  ELSE <<<<"children">>, <<"array_open">>>>

\* What it prints of the element itself, the n-th token: the attributes are a
\* map, which is closed.
Tag(c, n) == <<<<"map_open">>, <<"tag", n>>>> \o
             (IF c = "open@" THEN <<<<"attributes", n>>>> ELSE <<>>)

\* The depth of the generator inside a new element, and in its attributes.
NewDepth == IF stack_pos = 0 THEN 1
            ELSE IF children_printed THEN depth ELSE depth + 2
AttrDepth(c) == IF c = "open@" THEN NewDepth + 1 ELSE NewDepth

\* The parent has children from now on, and the element has its frame.
MarkElement(v) ==
  ClearFrame(IF stack_pos = 0 THEN v ELSE bit_set(v, children_printed_bit(stack_pos)),
             stack_pos + 1)

\* zz_parse_start_xml_element().
StartElement(c) ==
  /\ c \in {"open", "open@"}
  /\ Consume(c)
  /\ AttrDepth(c) < YAJL_MAX_DEPTH
  /\ level' = level + 1
  /\ stack_pos' = stack_pos + 1
  /\ depth' = NewDepth
  /\ last_open_map' = OpenedAt
  /\ stack_boolean_info' = MarkElement(stack_boolean_info)
  /\ PrintTo(yajl_gen_buf, (IF stack_pos = 0 THEN <<>> ELSE OpensChild)
                             \o Tag(c, Len(body')))
  /\ GoOn
  /\ UNCHANGED <<chunk, fed, finished, kafka_msgs, offered, ahead>>

\* zz_parse_start_xml_element() with a generator that is at its maximum depth
\* before the array of the children or the map of the attributes is open (an
\* array takes an even level, so there is one left for a map in it): what is
\* before it is printed, the error is queued, and the session is over.
StartTooDeep(c) ==
  /\ c \in {"open", "open@"}
  /\ Consume(c)
  /\ AttrDepth(c) >= YAJL_MAX_DEPTH
  /\ level' = level + 1
  /\ depth' = YAJL_MAX_DEPTH
  /\ last_open_map' = NO_JSON_LAST_OPEN_MAP
  /\ IF NewDepth >= YAJL_MAX_DEPTH
     THEN /\ yajl_gen_buf' = Append(yajl_gen_buf, <<"children">>)
          /\ UNCHANGED <<stack_pos, stack_boolean_info>>
     ELSE /\ yajl_gen_buf' = yajl_gen_buf \o OpensChild
                                \o Tag("open", Len(body')) \o <<<<"attributes">>>>
          /\ stack_pos' = stack_pos + 1
          /\ stack_boolean_info' = MarkElement(stack_boolean_info)
  /\ queue_xml_error("max_depth_exceeded", "NONE")
  /\ GoOn
  /\ UNCHANGED <<chunk, fed, finished, kafka_msgs, offered, ahead, oom>>

\* expat has no callback of the decoder for this token.
NoCallback ==
  /\ Consume("space")
  /\ UNCHANGED <<pc, expatVars, genVars, errVars, kafka_msgs, offered, ahead,
                 oom>>

\* zz_parse_xml_character_data(), first call for this element: the text is a new
\* member of the map that is open, which is the element's own or that of its
\* last child.
FirstText ==
  /\ Consume("text")
  /\ level > 0
  /\ ~text_printed
  /\ stack_boolean_info' = bit_set(stack_boolean_info, text_printed_bit(stack_pos))
  /\ PrintTo(yajl_gen_buf,
             <<<<IF children_printed THEN "tail" ELSE "text",
                 Len(body')>>>>)
  /\ GoOn
  /\ UNCHANGED <<chunk, fed, level, finished, depth, last_open_map, stack_pos,
                 kafka_msgs, offered, ahead>>

\* Later calls: the last byte of the buffer, which should be the quote of the
\* text before, is taken off and the new text goes there.  string_pop_back()
\* asserts that there is one.  If string_append() fails, nobody looks at it; if
\* the temporary generator cannot be allocated, the code of the error is OK.
MoreText ==
  /\ Consume("text")
  /\ level > 0
  /\ text_printed
  /\ \/ /\ yajl_gen_buf = <<>>
        /\ pc' = "crashed"
        /\ UNCHANGED <<offset, yajl_gen_buf, errVars, oom>>
     \/ /\ yajl_gen_buf # <<>>
        /\ yajl_gen_buf' = [yajl_gen_buf EXCEPT ![Len(yajl_gen_buf)] =
                               Append(@, Len(body'))]
        /\ UNCHANGED <<errVars, oom>>
        /\ GoOn
     \/ /\ yajl_gen_buf # <<>>
        /\ yajl_gen_buf' = [yajl_gen_buf EXCEPT ![Len(yajl_gen_buf)] =
                               Append(@, "unquoted")]
        /\ oom' = TRUE
        /\ UNCHANGED errVars
        /\ GoOn
     \/ /\ queue_xml_error("ok", "NONE")
        /\ oom' = TRUE
        /\ GoOn
        /\ UNCHANGED yajl_gen_buf
  /\ UNCHANGED <<chunk, fed, level, finished, depth, last_open_map, stack_pos,
                 stack_boolean_info, kafka_msgs, offered, ahead>>


\* The last child and the array of the children end.
ClosesChildren ==
  IF children_printed THEN <<<<"map_close">>, <<"array_close">>>> ELSE <<>>

\* Mutant of ClosedDepth: an array of children that was never open is closed.
ClosedDepthAlways == depth - 2

\* The depth of the generator after that.
ClosedDepth == IF children_printed THEN depth - 2 ELSE depth

\* zz_parse_end_xml_element() of a child, whose map stays open for its tail.
EndElement ==
  /\ Consume("close")
  /\ level > 1
  /\ level' = level - 1
  /\ depth' = ClosedDepth
  /\ stack_pos' = stack_pos - 1
  /\ PrintTo(yajl_gen_buf, ClosesChildren)
  /\ GoOn
  /\ UNCHANGED <<chunk, fed, finished, last_open_map, stack_boolean_info,
                 kafka_msgs, offered, ahead>>

\* zz_parse_end_xml_element() of the root: a message is added, if there is
\* memory for it, the generator is reset and the parser stopped.  A failed
\* kafka_msg_array_add() is an error with the code OK.  From expat 2.2.8 on the
\* parser stops at once.  Before, it looks at what follows, and stops here if
\* that is more than white space, a comment or a processing instruction.
EndRoot(added) ==
  /\ Consume("close")
  /\ level = 1
  /\ level' = 0
  /\ stack_pos' = 0
  /\ depth' = 0
  /\ \E s \in {ClosesChildren \o <<<<"map_close">>>>} :
       \/ added /\ PrintTo(yajl_gen_buf, s)
       \/ /\ ~added
          /\ yajl_gen_buf' = yajl_gen_buf \o s
          /\ queue_xml_error("ok", "NONE")
          /\ oom' = TRUE
  /\ last_open_map' = NO_JSON_LAST_OPEN_MAP
  /\ IF last_open_map >= 0 /\ Len(yajl_gen_buf') > last_open_map
     THEN /\ pc' \in {"stopped", "epilog"}
          /\ kafka_msgs' = IF added
                           THEN Append(kafka_msgs,
                                       [payload |-> last_open_map,
                                        len |-> Len(yajl_gen_buf')
                                                  - last_open_map])
                           ELSE kafka_msgs
     ELSE pc' = "crashed" /\ UNCHANGED kafka_msgs
  /\ offset' = IndexAfter
  /\ UNCHANGED <<chunk, fed, finished, stack_boolean_info, offered, ahead>>

\* What expat before 2.2.8 does with nothing, or with such a token, behind the
\* document: it stops behind the token; but at the end of the buffer (or with a
\* carriage return there) XML_Parse() returns XML_STATUS_OK, and nobody resets
\* the parser.
Epilog ==
  /\ pc = "epilog"
  /\ \/ Len(body) = chunk.to /\ UNCHANGED body
     \/ Take("space")
  /\ \/ /\ body' # body
        /\ pc' = "stopped"
        /\ offset' = IndexAfter
        /\ UNCHANGED finished
     \/ /\ Len(body') = chunk.to
        /\ pc' = "parse"
        /\ finished' = TRUE
        /\ UNCHANGED offset
  /\ UNCHANGED <<chunk, fed, level, genVars, errVars, kafka_msgs, offered,
                 ahead, oom>>

\* XML_Parse() fails, because the parser is finished, and so does the request.
ParseFinished ==
  /\ pc = "parse"
  /\ ~http_response
  /\ finished
  /\ Len(body) < chunk.to
  /\ queue_xml_error("ok", "FINISHED")
  /\ UNCHANGED <<pc, body, expatVars, genVars, kafka_msgs, offered, ahead, oom>>

\* XML_Parse() fails, because of a token that no document may have here or for
\* want of memory, and process_xml_buffer() queues the error.
ParseError(c) ==
  /\ Consume(c)
  /\ \/ /\ c = "bad" \/ (c \in {"close", "text"} /\ level = 0)
        /\ queue_xml_error("ok", "SYNTAX")
        /\ UNCHANGED oom
     \/ /\ queue_xml_error("ok", "NO_MEMORY")
        /\ oom' = TRUE
  /\ pc' = "parse"
  /\ UNCHANGED <<expatVars, genVars, kafka_msgs, offered, ahead>>

\* The parser forgets everything; its callbacks are set again.
zz_reset_xml_handler == fed' = 0 /\ level' = 0 /\ finished' = FALSE

\* Tokens that the parser skips, or that are left when it has failed: nobody
\* looks at them.
Unseen(n) == [k \in 1..n |-> "?"]

\* process_xml_buffer() after a stop: the buffer goes on at the offset, and the
\* parser is reset.  The offset must not be behind the end of the buffer.
Restart ==
  /\ pc = "stopped"
  /\ IF offset > chunk.to - chunk.from
     THEN pc' = "crashed" /\ UNCHANGED <<body, chunk, fed, level, finished>>
     ELSE /\ pc' = "parse"
          /\ chunk' = [from |-> chunk.from + offset, to |-> chunk.to]
          /\ body' = body \o Unseen(chunk.from + offset - Len(body))
          /\ zz_reset_xml_handler
  /\ UNCHANGED <<offset, genVars, errVars, kafka_msgs, offered, ahead, oom>>
-----------------------------------------------------------------------------
\* new_zz_session_xml().
NewSession ==
  /\ pc = "idle"
  /\ pc' = "wait"
  /\ UNCHANGED <<body, expatVars, genVars, errVars, kafka_msgs, offered, ahead,
                 oom>>

\* There is no memory for the parser, or for the generator.  In the latter case
\* the parser is freed twice, and the process goes on or does not.
NewSessionFails ==
  /\ pc = "idle"
  /\ pc' \in {"idle", "crashed"}
  /\ oom' = (pc' = "crashed")
  /\ UNCHANGED <<body, expatVars, genVars, errVars, kafka_msgs, offered, ahead>>

\* zz_decode() is called with the next n tokens of the body.
ReceiveChunk(n) ==
  /\ pc = "wait"
  /\ Len(body) + n <= MaxLen
  /\ pc' = "parse"
  /\ chunk' = [from |-> Len(body), to |-> Len(body) + n]
  /\ ahead' = (ahead \/ fed > 0)
  /\ UNCHANGED <<body, fed, level, offset, finished, genVars, errVars,
                 kafka_msgs, offered, oom>>

\* Mutant of Payloads: the last message is forgotten.
PayloadsButLast ==
  [k \in 1..(Len(kafka_msgs) - 1) |->
     SubSeq(yajl_gen_buf, kafka_msgs[k].payload + 1,
            kafka_msgs[k].payload + kafka_msgs[k].len)]

\* The payload of each message, once the offsets are added to the buffer.
Payloads ==
  [k \in DOMAIN kafka_msgs |->
     SubSeq(yajl_gen_buf, kafka_msgs[k].payload + 1,
            kafka_msgs[k].payload + kafka_msgs[k].len)]

\* The end of process_xml_buffer() and of zz_decode(): at the end of the chunk,
\* or as soon as an error is queued, the buffer is given to the messages, or
\* freed, and the batch is produced.  An element may be open.
EndChunk ==
  /\ pc = "parse"
  /\ http_response \/ Len(body) = chunk.to
  /\ pc' = IF rc = "OK" THEN "wait" ELSE "failed"
  /\ offered' = offered \o Payloads
  /\ kafka_msgs' = <<>>
  /\ yajl_gen_buf' = <<>>
  /\ fed' = fed + chunk.to - chunk.from
  /\ body' = body \o Unseen(chunk.to - Len(body))
  /\ UNCHANGED <<chunk, level, offset, finished, depth, last_open_map,
                 stack_pos, stack_boolean_info, errVars, ahead, oom>>

\* The request ends, complete or not: free_zz_session_xml().
FreeSession ==
  /\ pc \in {"wait", "failed"}
  /\ pc' = "freed"
  /\ UNCHANGED <<body, expatVars, genVars, errVars, kafka_msgs, offered, ahead,
                 oom>>

Next ==
  \/ NewSession \/ NewSessionFails \/ FreeSession
  \/ \E n \in 1..MaxLen : ReceiveChunk(n)
  \/ \E c \in Tokens : StartElement(c) \/ StartTooDeep(c) \/ ParseError(c)
  \/ NoCallback \/ FirstText \/ MoreText \/ EndElement
  \/ \E added \in BOOLEAN : EndRoot(added)
  \/ Epilog \/ ParseFinished \/ Restart \/ EndChunk

Spec == Init /\ [][Next]_vars
-----------------------------------------------------------------------------
(* What is right and wrong in a body.                                      *)

Opens(b, k) == b[k] \in {"open", "open@"}

\* The elements that are open after the first k tokens of b.
Level(b, k) == Cardinality({j \in 1..k : Opens(b, j)})
                 - Cardinality({j \in 1..k : b[j] = "close"})

\* The n-th token of b is an error: it is no XML, or outside of the documents, or an
\* element that has no place in the JSON generator.
Wrong(b, n) ==
  \/ b[n] = "bad"
  \/ b[n] \in {"text", "close"} /\ Level(b, n - 1) = 0
  \/ Opens(b, n) /\ 2 * Level(b, n) - (IF b[n] = "open@" THEN 0 ELSE 1)
                       >= YAJL_MAX_DEPTH

\* The closing tags of b that end a document.
Ends(b) == {n \in DOMAIN b : b[n] = "close" /\ Level(b, n) = 0}

\* Where the messages that were added end in the buffer.
Filled ==
  IF kafka_msgs = <<>> THEN 0
  ELSE kafka_msgs[Len(kafka_msgs)].payload + kafka_msgs[Len(kafka_msgs)].len
-----------------------------------------------------------------------------
\* Every variable has the type of the field it stands for.
TypeOK ==
  /\ pc \in {"idle", "wait", "parse", "epilog", "stopped", "failed", "freed",
             "crashed"}
  /\ body \in Seq(Tokens \cup {"?"})
  /\ {chunk.from, chunk.to, fed, level, offset, depth, stack_pos} \subseteq Nat
  /\ last_open_map \in Nat \cup {NO_JSON_LAST_OPEN_MAP}
  /\ stack_boolean_info \in [Bits -> BOOLEAN]
  /\ {http_response, finished, ahead, oom} \subseteq BOOLEAN
  /\ rc \in {"OK", "INVALID_REQUEST", "GENERIC_ERROR", "MEMORY_ERROR"}

\* The code works on a condition, which is part of the properties below: ~ahead.
\* Every chunk but the last of a request ends where the parser is reset: from
\* expat 2.2.8 on right behind a document, before that only behind the white
\* space that follows one.  The last chunk, which may be the only one, ends
\* anywhere: in a document, in text, behind a comment, or with none at all.  What
\* comes in a chunk that is given to a parser which has read even a line feed
\* since its last reset may be lost, refused, or stop the process.

\* A request is answered with INVALID_REQUEST if, and only if, something in it
\* is not XML or too deep for the JSON generator (process_xml_buffer: "if
\* request was invalid"), whatever documents, white space and comments are before
\* it, in the same chunk or in an earlier one.
InvalidIsReported ==
  pc \in {"wait", "failed"} /\ ~ahead /\ ~oom =>
    /\ rc = IF \E n \in DOMAIN body : Wrong(body, n)
            THEN "INVALID_REQUEST" ELSE "OK"
    /\ pc = "failed" <=> rc # "OK"

\* The three stacks of a session agree whenever a callback can run: the elements
\* that expat has open, the frames of the session, and the maps and arrays of
\* the generator, which has the map of the last child open too.  The frames
\* stay inside stack_boolean_info, which has as many as the generator levels.
\* This is so however the chunks end.
StacksAgree ==
  /\ stack_pos < YAJL_MAX_DEPTH
  /\ pc = "parse" /\ ~http_response =>
       /\ stack_pos = level
       /\ depth = IF level = 0 THEN 0
                  ELSE IF children_printed THEN 2 * level + 1
                  ELSE 2 * level - 1

\* Every document that ended has been made a message, and nothing else: those of
\* earlier chunks were offered to librdkafka, those of this chunk are in
\* kafka_msgs, also when an error follows them (zz_parse_end_xml_element,
\* zz_decode).
OneMessagePerDocument ==
  ~ahead /\ ~oom => Len(offered) + Len(kafka_msgs) = Cardinality(Ends(body))

\* process_xml_buffer() is running.
Parsing == pc \in {"parse", "epilog", "stopped"}

\* The messages of a chunk, which are offsets into one buffer until
\* kafka_message_array_set_payload_buffer0(), lie in it one behind the other:
\* none is empty, no two share a byte, and none is lost between them.  The next
\* one begins where the last one ends, as long as the buffer is there.
MessagesTile ==
  ~ahead /\ ~oom =>
    /\ \A k \in DOMAIN kafka_msgs :
         /\ kafka_msgs[k].len > 0
         /\ kafka_msgs[k].payload =
              IF k = 1 THEN 0 ELSE kafka_msgs[k - 1].payload + kafka_msgs[k - 1].len
    /\ Filled <= Len(yajl_gen_buf)
    /\ Parsing /\ ~http_response =>
         Filled = IF level > 0 THEN last_open_map ELSE Len(yajl_gen_buf)

\* None of the assertions of the callbacks, of string_pop_back() and of
\* process_xml_buffer() fails, whatever is in the documents and behind them, and
\* wherever the last chunk ends.
AssertionsHold == pc = "crashed" => ahead \/ oom

\* "assert((size_t)offset <= bsize)" (zz_http2k_parser_xml.c:903): after a
\* document, the parser is inside the buffer it was given.
OffsetInBuffer == pc = "stopped" /\ ~oom => offset <= chunk.to - chunk.from
==============================================================================
