---------------------------- MODULE HttpRequest ----------------------------
(***************************************************************************)
(* One request of the HTTP listener (listener/http/http.c), from the first *)
(* call that libmicrohttpd (MHD) makes of handle_request() until it calls  *)
(* request_completed().  MHD calls the handler with the headers, once per  *)
(* chunk of the body and once at its end; it stops as soon as a response   *)
(* is queued, and it may give the connection up between any two calls.     *)
(* What is left at the end, and who owns what meanwhile (the connection    *)
(* information, the decoder session inside it, the zlib stream, the text   *)
(* of the response) is the subject of this module.                         *)
(***************************************************************************)
EXTENDS Integers, FiniteSetsExt

CONSTANTS
  ZLIB_CHUNK,  \* size of the decompression buffer
  MaxInflated, \* bound of what one chunk of a body inflates to
  MaxChunks    \* bound of the chunks of a body

ASSUME ConstantsAssumption ==
  ZLIB_CHUNK \in Nat \ {0} /\ MaxInflated \in Nat /\ MaxChunks \in Nat

Methods == {"POST", "GET", "PUT"}

\* The errors of a decoder, by what decoder_err2http() tells apart.
DecoderErrors == {"BUFFER_FULL", "INVALID_REQUEST", "MSG_TOO_LARGE",
                  "METHOD_NOT_ALLOWED", "RESOURCE_NOT_FOUND", "GENERIC_ERROR"}

VARIABLES
  listener,  \* tls_ca, htpasswd: configured; stream: decoder->new_session
  request,   \* method; zlib: Content-Encoding is gzip or deflate;
             \* certificate, password: the client has a good one
  pc,        \* "idle": no request.  "headers", "body": MHD has called the
             \* handler zero, one or more times.  "inflate": in
             \* compressed_callback().  "answer": a response is queued.
             \* "closing": MHD gives up.  "crashed": a pointer that is none
  con_cls,   \* "NULL"; "mark": the 1 of handle_get(); "info": a conn_info
  sess,      \* the decoder session exists
  strm,      \* the zlib stream of the request: "none", "open", or "leaked": its
             \* con_info was freed and inflateEnd() was not called
  refused,   \* the decoder has refused the session of the request
  http_error,\* http_error.code, and where its text is
  str,       \* chunks in con_info->str
  chunks,    \* chunks received
  z,         \* zlib: unread input, output to come, end of stream seen, bad input
  total,     \* what the chunks received so far inflate to
  decoded,   \* how much of it the decoder got
  answer,    \* code of the response, and where its text is
  decodes    \* return values of the decoder calls made for this request

zVars == <<z, total, decoded>>
vars == <<listener, request, pc, con_cls, sess, strm, refused, http_error, str,
          chunks, zVars, answer, decodes>>

NoAnswer == [code |-> 0, text |-> "none"]
NoInput == [input |-> FALSE, output |-> 0, ended |-> FALSE, bad |-> FALSE]

Init ==
  /\ listener \in [tls_ca : BOOLEAN, htpasswd : BOOLEAN, stream : BOOLEAN]
  /\ request = [method |-> "POST", zlib |-> FALSE, certificate |-> FALSE,
                password |-> FALSE]
  /\ pc = "idle"
  /\ con_cls = "NULL"
  /\ sess = FALSE
  /\ strm = "none"
  /\ refused = FALSE
  /\ http_error = NoAnswer
  /\ str = 0
  /\ chunks = 0
  /\ z = NoInput
  /\ total = 0
  /\ decoded = 0
  /\ answer = NoAnswer
  /\ decodes = {}
-----------------------------------------------------------------------------
\* decoder_err2http().
DecoderErr2Http(rc) ==
  CASE rc = "OK" -> 200
    [] rc = "BUFFER_FULL" -> 503
    [] rc = "INVALID_REQUEST" -> 400
    [] rc = "MSG_TOO_LARGE" -> 413
    [] rc = "METHOD_NOT_ALLOWED" -> 405
    [] rc = "RESOURCE_NOT_FOUND" -> 404
    [] OTHER -> 500

\* The handler returns what queueing the response returned: it is queued, or MHD
\* gives the connection up.
Respond(code, text) ==
  \/ pc' = "answer" /\ answer' = [code |-> code, text |-> text]
  \/ pc' = "closing" /\ UNCHANGED answer

\* The handler returns MHD_YES whatever queueing the response returned: without
\* response, MHD calls the handler again.
RespondUnchecked(code, text) ==
  \/ pc' = "answer" /\ answer' = [code |-> code, text |-> text]
  \/ UNCHANGED <<pc, answer>>

\* The headers of a request have arrived.
NewRequest ==
  /\ pc = "idle"
  /\ pc' = "headers"
  /\ request' \in [method : Methods, zlib : BOOLEAN, certificate : BOOLEAN,
                   password : BOOLEAN]
  /\ strm' = "none"
  /\ refused' = FALSE
  /\ UNCHANGED <<listener, con_cls, sess, http_error, str, chunks, zVars,
                 answer, decodes>>

\* Another method than POST and GET.
HandleOtherMethod ==
  /\ pc = "headers"
  /\ request.method \notin {"POST", "GET"}
  /\ Respond(405, "static")
  /\ UNCHANGED <<listener, request, refused, con_cls, sess, strm, http_error,
                 str, chunks, zVars, decodes>>

\* handle_http_post_init() turns a client away: 403 without a valid certificate,
\* 401 without a valid user and password.
PostRefused ==
  /\ pc = "headers"
  /\ request.method = "POST"
  /\ \/ /\ listener.tls_ca /\ ~request.certificate
        /\ RespondUnchecked(403, "static")
     \/ /\ listener.tls_ca => request.certificate
        /\ listener.htpasswd /\ ~request.password
        /\ Respond(401, "static")
  /\ UNCHANGED <<listener, request, refused, con_cls, sess, strm, http_error,
                 str, chunks, zVars, decodes>>

\* The client has passed both checks.
Allowed == /\ listener.tls_ca => request.certificate
           /\ listener.htpasswd => request.password

\* handle_http_post_init() has no memory for the connection information.
PostNoMemory ==
  /\ pc = "headers"
  /\ request.method = "POST"
  /\ Allowed
  /\ Respond(500, "static")
  /\ UNCHANGED <<listener, request, refused, con_cls, sess, strm, http_error,
                 str, chunks, zVars, decodes>>

\* The decoder refuses the session: con_info is freed, and with it the only
\* pointer to its zlib stream, which is not ended.
PostNoSession ==
  /\ pc = "headers"
  /\ request.method = "POST"
  /\ Allowed
  /\ listener.stream
  /\ pc' = "closing"
  /\ strm' = IF request.zlib THEN "leaked" ELSE "none"
  /\ refused' = TRUE
  /\ UNCHANGED <<listener, request, con_cls, sess, http_error, str, chunks,
                 zVars, answer, decodes>>

\* handle_http_post_init() succeeds.
PostInit ==
  /\ pc = "headers"
  /\ request.method = "POST"
  /\ Allowed
  /\ pc' = "body"
  /\ con_cls' = "info"
  /\ sess' = listener.stream
  /\ strm' = IF request.zlib THEN "open" ELSE "none"
  /\ UNCHANGED <<listener, request, refused, http_error, str, chunks, zVars,
                 answer, decodes>>

\* A decoder call returns rc.  The text of an error is the session's.
Decode(rc) == decodes' = decodes \cup {rc}

\* conn_info_queue_response() for rc, or nothing when it is OK.
QueueResponse(rc, text) ==
  http_error' = IF rc = "OK" THEN http_error
                ELSE [code |-> DecoderErr2Http(rc), text |-> text]

\* A chunk arrives.
Chunk ==
  /\ pc = "body"
  /\ con_cls = "info"
  /\ chunks < MaxChunks
  /\ chunks' = chunks + 1

\* handle_http_post_chunk() after an error: the chunk is not looked at.
SkipChunk ==
  /\ Chunk
  /\ http_error.code # 0
  /\ UNCHANGED <<listener, request, refused, pc, con_cls, sess, strm,
                 http_error, str, zVars, answer, decodes>>

\* handle_http_post_chunk() for a decoder without sessions: the body is
\* gathered, compressed or not.
BufferChunk ==
  /\ Chunk
  /\ http_error.code = 0
  /\ ~listener.stream
  /\ \E rc \in {"OK", "GENERIC_ERROR"} :
       /\ str' = IF rc = "OK" THEN str + 1 ELSE str
       /\ QueueResponse(rc, "none")
  /\ UNCHANGED <<listener, request, refused, pc, con_cls, sess, strm, zVars,
                 answer, decodes>>

\* Mutant of DecodeChunk: an error does not stop the request.
DecodeChunkAnyway ==
  /\ Chunk
  /\ listener.stream
  /\ strm # "open"
  /\ \E rc \in DecoderErrors \cup {"OK"} : Decode(rc) /\ QueueResponse(rc, "session")
  /\ UNCHANGED <<listener, request, refused, pc, con_cls, sess, strm, str,
                 zVars, answer>>

\* handle_http_post_chunk() for a decoder with sessions.
DecodeChunk ==
  /\ Chunk
  /\ http_error.code = 0
  /\ listener.stream
  /\ strm # "open"
  /\ \E rc \in DecoderErrors \cup {"OK"} :
       Decode(rc) /\ QueueResponse(rc, "session")
  /\ UNCHANGED <<listener, request, refused, pc, con_cls, sess, strm, str,
                 zVars, answer>>

\* The same for a compressed body: compressed_callback() starts, on a chunk that
\* inflates to some amount and may be the last one of the stream.  Once the
\* stream has ended, nothing comes out of it.
CompressedChunk ==
  /\ Chunk
  /\ http_error.code = 0
  /\ listener.stream
  /\ strm = "open"
  /\ pc' = "inflate"
  /\ \E n \in 0..MaxInflated, last \in BOOLEAN :
       /\ z.ended => n = 0 /\ last
       /\ z' = [input |-> TRUE, output |-> z.output + n, ended |-> last,
                bad |-> z.bad]
       /\ total' = total + n
  /\ UNCHANGED <<listener, request, refused, con_cls, sess, strm, http_error,
                 str, decoded, answer, decodes>>

\* compressed_callback() returns rc to handle_http_post_chunk().
InflateReturns(rc, text) ==
  /\ pc' = "body"
  /\ QueueResponse(rc, text)

\* inflate() fails: on input that it cannot inflate or, with Z_BUF_ERROR, because
\* it has nothing left to read and nothing to write.
InflateFails ==
  /\ pc = "inflate"
  /\ \/ /\ z.input \/ z.output > 0
        /\ z' = [input |-> FALSE, output |-> 0, ended |-> z.ended, bad |-> TRUE]
        /\ \E rc \in {"INVALID_REQUEST", "GENERIC_ERROR"} :
             InflateReturns(rc, "static")
     \/ /\ ~z.input /\ z.output = 0 /\ ~z.ended
        /\ InflateReturns("GENERIC_ERROR", "static")
        /\ UNCHANGED z
  /\ UNCHANGED <<listener, request, refused, con_cls, sess, strm, str, chunks,
                 total, decoded, answer, decodes>>

\* Mutant of LoopGoesOn: one buffer per chunk.
LoopNever(n) == FALSE

\* The condition of the loop of compressed_callback(): the buffer got full.
LoopGoesOn(n) == n = ZLIB_CHUNK

\* Mutant of Inflate: avail_out is not looked at, the buffer is always full.
InflateWholeBuffer ==
  /\ pc = "inflate"
  /\ z.input \/ z.output > 0 \/ z.ended
  /\ z' = [input |-> FALSE, output |-> z.output - ZLIB_CHUNK, ended |-> z.ended,
           bad |-> z.bad]
  /\ decoded' = decoded + ZLIB_CHUNK
  /\ \E rc \in DecoderErrors \cup {"OK"} :
       Decode(rc) /\ InflateReturns(rc, "session")
  /\ UNCHANGED <<listener, request, refused, con_cls, sess, strm, str, chunks,
                 total, answer>>

\* inflate() succeeds, and what it wrote is decoded.
Inflate ==
  /\ pc = "inflate"
  /\ z.input \/ z.output > 0 \/ z.ended
  /\ LET n == Min({ZLIB_CHUNK, z.output}) IN
     /\ z' = [input |-> FALSE, output |-> z.output - n, ended |-> z.ended,
              bad |-> z.bad]
     /\ decoded' = decoded + n
     /\ \E rc \in IF n > 0 THEN DecoderErrors \cup {"OK"} ELSE {"OK"} :
          /\ IF n > 0 THEN Decode(rc) ELSE UNCHANGED decodes
          /\ IF rc = "OK" /\ LoopGoesOn(n)
             THEN UNCHANGED <<pc, http_error>>
             ELSE InflateReturns(rc, "session")
  /\ UNCHANGED <<listener, request, refused, con_cls, sess, strm, str, chunks,
                 total, answer>>

\* Mutant of PostEnd: the session is deleted as soon as the body has ended.
PostEndDeletes ==
  /\ pc = "body"
  /\ con_cls = "info"
  /\ IF http_error.code # 0 THEN Respond(http_error.code, http_error.text)
                            ELSE Respond(200, "static")
  /\ sess' = FALSE
  /\ UNCHANGED <<listener, request, refused, con_cls, strm, http_error, str,
                 chunks, zVars, decodes>>

\* handle_post_end().  A decoder without sessions gets the body now, and what it
\* returns is ignored.
PostEnd ==
  /\ pc = "body"
  /\ con_cls = "info"
  /\ IF http_error.code # 0
     THEN Respond(http_error.code, http_error.text) /\ UNCHANGED decodes
     ELSE /\ IF listener.stream THEN UNCHANGED decodes
             ELSE \E rc \in DecoderErrors \cup {"OK"} : Decode(rc)
          /\ RespondUnchecked(200, "static")
  /\ UNCHANGED <<listener, request, refused, con_cls, sess, strm, http_error,
                 str, chunks, zVars>>

\* handle_get(), first call: wait for the next one.
GetInit ==
  /\ pc = "headers"
  /\ request.method = "GET"
  /\ pc' = "body"
  /\ con_cls' = "mark"
  /\ UNCHANGED <<listener, request, refused, sess, strm, http_error, str,
                 chunks, zVars, answer, decodes>>

\* handle_get(), second call.
GetEnd ==
  /\ pc = "body"
  /\ con_cls = "mark"
  /\ con_cls' = "NULL"
  /\ \E rc \in DecoderErrors \cup {"OK"} :
       Decode(rc) /\ Respond(DecoderErr2Http(rc), "static")
  /\ UNCHANGED <<listener, request, refused, sess, strm, http_error, str,
                 chunks, zVars>>

\* The client goes away, or the connection times out, before the end of the
\* body.
Abort ==
  /\ pc = "body"
  /\ pc' = "closing"
  /\ UNCHANGED <<listener, request, refused, con_cls, sess, strm, http_error,
                 str, chunks, zVars, answer, decodes>>

\* Nothing of the request is left in the listener.
Forget ==
  /\ pc' = "idle"
  /\ con_cls' = "NULL"
  /\ http_error' = NoAnswer
  /\ str' = 0
  /\ chunks' = 0
  /\ z' = NoInput
  /\ total' = 0
  /\ decoded' = 0
  /\ answer' = NoAnswer
  /\ decodes' = {}
  /\ UNCHANGED <<listener, request, refused>>

\* Mutant of RequestCompleted: only a request that was answered has something to
\* clean up.
CompletedIfAnswered ==
  /\ pc \in {"answer", "closing"}
  /\ con_cls # "mark"
  /\ Forget
  /\ IF con_cls = "info" /\ pc = "answer"
     THEN sess' = FALSE /\ strm' = "none"
     ELSE UNCHANGED <<sess, strm>>

\* request_completed(): the session, the zlib stream and con_info are freed.
RequestCompleted ==
  /\ pc \in {"answer", "closing"}
  /\ con_cls # "mark"
  /\ Forget
  /\ IF con_cls = "info"
     THEN sess' = FALSE /\ strm' = "none"
     ELSE UNCHANGED <<sess, strm>>

\* request_completed() for a GET whose second call never came: the mark is used
\* as the address of a conn_info.
MarkCompleted ==
  /\ pc = "closing"
  /\ con_cls = "mark"
  /\ pc' = "crashed"
  /\ UNCHANGED <<listener, request, refused, con_cls, sess, strm, http_error,
                 str, chunks, zVars, answer, decodes>>

Next ==
  \/ NewRequest \/ HandleOtherMethod
  \/ PostRefused \/ PostNoMemory \/ PostNoSession \/ PostInit
  \/ SkipChunk \/ BufferChunk \/ DecodeChunk
  \/ CompressedChunk \/ InflateFails \/ Inflate
  \/ PostEnd \/ GetInit \/ GetEnd \/ Abort
  \/ RequestCompleted \/ MarkCompleted

Spec == Init /\ [][Next]_vars
-----------------------------------------------------------------------------
\* Every variable has the type of the field it stands for.
TypeOK ==
  /\ listener \in [tls_ca : BOOLEAN, htpasswd : BOOLEAN, stream : BOOLEAN]
  /\ request \in [method : Methods, zlib : BOOLEAN, certificate : BOOLEAN,
                  password : BOOLEAN]
  /\ pc \in {"idle", "headers", "body", "inflate", "answer", "closing", "crashed"}
  /\ con_cls \in {"NULL", "mark", "info"}
  /\ sess \in BOOLEAN
  /\ strm \in {"none", "open", "leaked"} /\ refused \in BOOLEAN
  /\ {http_error, answer} \subseteq
       [code : {0, 200, 400, 401, 403, 404, 405, 413, 500, 503},
        text : {"none", "static", "session"}]
  /\ str \in 0..MaxChunks
  /\ chunks \in 0..MaxChunks
  /\ z \in [input : BOOLEAN, output : Nat, ended : BOOLEAN, bad : BOOLEAN]
  /\ total \in Nat /\ decoded \in Nat
  /\ decodes \subseteq DecoderErrors \cup {"OK"}

\* The errors of the decoder calls made so far.
Failures == decodes \ {"OK"}

\* "If !0, further request chunks will not be processed" (http.c:86): however
\* the body is cut and compressed, the decoder is not called again after it has
\* failed once, and the response is the one of that failure; a body that a
\* decoder with sessions accepted whole is answered with 200.
AnswerTellsFailure ==
  con_cls = "info" /\ listener.stream =>
    /\ \A e, f \in Failures : e = f
    /\ pc = "answer" =>
         /\ \A e \in Failures : answer.code = DecoderErr2Http(e)
         /\ Failures = {} /\ http_error.code = 0 <=> answer.code = 200

\* A compressed body that is answered with 200 was decoded to its last byte:
\* compressed_callback() leaves nothing in zlib between two chunks.
NothingLeftInflated ==
  pc = "answer" /\ answer.code = 200 /\ sess => decoded = total

\* The response is not copied (MHD_RESPMEM_PERSISTENT): its text must outlive
\* the transmission, and it is inside the decoder session.
AnswerTextLives == "session" \in {answer.text, http_error.text} => sess

\* When a request is over, however it ended (refused, answered, or given up by
\* MHD in the middle), its session has been deleted, and its zlib stream has been
\* ended, with one exception that is a leak of the code: a compressed request
\* whose session the decoder refuses always leaves its stream behind
\* (http.c:576-580).
ReleasedUnlessRefused ==
  pc = "idle" => /\ ~sess
                 /\ strm # "none" <=> refused /\ request.zlib

\* "run inflate until output buffer not full" (http.c:430): a chunk that zlib
\* inflates without complaint, and that the decoder accepts, is not an error.
GoodChunkAccepted ==
  sess /\ strm = "open" /\ ~z.bad /\ Failures = {} => http_error.code = 0

\* "Wait until next call" (http.c:777): the mark that handle_get() leaves is for
\* its own second call, and nobody else uses it as a conn_info.
MarkIsForHandleGet == pc # "crashed"
=============================================================================
