-------------------------- MODULE HttpRequestProofs --------------------------
(* Proofs about HttpRequest, for every size of the buffer of zlib, of what a  *)
(* chunk inflates to and every number of chunks.                              *)
EXTENDS HttpRequest, TLAPS

\* The session and an open zlib stream are those of the con_info in *con_cls; a
\* stream without con_info is that of a request whose session was refused.
OwnerInv ==
  /\ sess <=> con_cls = "info" /\ listener.stream
  /\ strm = "open" => con_cls = "info"
  /\ strm = "leaked" <=> refused /\ request.zlib
  /\ refused => pc \in {"closing", "idle"} /\ con_cls = "NULL"

\* A request begins with nothing from the one before.
FreshInv ==
  pc \in {"idle", "headers"} =>
    /\ con_cls = "NULL" /\ http_error = NoAnswer /\ answer = NoAnswer
    /\ z = NoInput /\ total = 0 /\ decoded = 0 /\ decodes = {}

\* con_info->http_error is that of the only call of the decoder that failed, and
\* with the session the answer is made of it.
ErrorInv ==
  /\ http_error.code # 200
  /\ "session" \in {answer.text, http_error.text} => sess
  /\ sess => \A e, f \in Failures : e = f
  /\ sess => \A e \in Failures : http_error.code = DecoderErr2Http(e)
  /\ sess /\ pc = "answer" =>
       answer.code = IF http_error.code = 0 THEN 200 ELSE http_error.code

\* As long as nothing failed, zlib has what was not decoded, and it has nothing
\* when compressed_callback() has returned.
InflateInv ==
  /\ pc = "inflate" => sess /\ http_error.code = 0
  /\ sess /\ http_error.code = 0 => decoded + z.output = total
  /\ sess /\ http_error.code = 0 /\ pc # "inflate" => z.output = 0

IInv == /\ TypeOK /\ OwnerInv /\ FreshInv /\ ErrorInv /\ InflateInv
        /\ str <= chunks
-----------------------------------------------------------------------------
\* The codes of decoder_err2http(): no error is answered with 200.
LEMMA ErrorCodes ==
  /\ \A rc \in DecoderErrors : DecoderErr2Http(rc) \in {400, 404, 405, 413, 500, 503}
  /\ DecoderErr2Http("OK") = 200
  /\ "OK" \notin DecoderErrors
BY DEF DecoderErrors, DecoderErr2Http

LEMMA InitIInv == Init => IInv
<1> SUFFICES ASSUME Init PROVE IInv
  OBVIOUS
<1> USE DEF Init, NoAnswer, NoInput
<1>1. TypeOK
  <2>1. /\ http_error \in [code : {0}, text : {"none"}] /\ answer = http_error
        /\ z \in [input : BOOLEAN, output : Nat, ended : BOOLEAN, bad : BOOLEAN]
        /\ request \in [method : Methods, zlib : BOOLEAN, certificate : BOOLEAN,
                        password : BOOLEAN]
    BY DEF Methods
  <2>2. str \in 0..MaxChunks /\ chunks \in 0..MaxChunks
    BY ConstantsAssumption
  <2>3. listener \in [tls_ca : BOOLEAN, htpasswd : BOOLEAN, stream : BOOLEAN]
    OBVIOUS
  <2>4. /\ pc = "idle" /\ con_cls = "NULL" /\ sess \in BOOLEAN /\ strm = "none"
        /\ refused \in BOOLEAN
        /\ total \in Nat /\ decoded \in Nat /\ decodes = {}
    OBVIOUS
  <2> HIDE DEF Init, NoAnswer, NoInput
  <2> QED  BY <2>1, <2>2, <2>3, <2>4 DEF TypeOK
<1>2. OwnerInv /\ FreshInv /\ InflateInv
  BY DEF OwnerInv, FreshInv, InflateInv
<1>3. ErrorInv
  BY DEF ErrorInv, Failures
<1> QED  BY <1>1, <1>2, <1>3 DEF IInv

\* The headers arrive, and a request that is answered at once or not at all.
LEMMA HeadersStep ==
  ASSUME IInv, NewRequest \/ HandleOtherMethod \/ PostRefused \/ PostNoMemory
               \/ PostNoSession
  PROVE  IInv'
<1>t. TypeOK /\ OwnerInv /\ FreshInv /\ ErrorInv /\ InflateInv /\ str <= chunks
  BY DEF IInv
<1>1. /\ pc \in {"idle", "headers"} /\ pc' \in {"headers", "answer", "closing"}
      /\ UNCHANGED <<listener, con_cls, sess, http_error, str, chunks, z, total,
                     decoded, decodes>>
      /\ request' \in [method : Methods, zlib : BOOLEAN, certificate : BOOLEAN,
                       password : BOOLEAN]
      /\ \/ strm' = "none" /\ refused' = FALSE
         \/ UNCHANGED <<strm, refused, request>> /\ pc = "headers"
         \/ /\ strm' = (IF request.zlib THEN "leaked" ELSE "none") /\ refused' = TRUE
            /\ pc' = "closing" /\ request' = request
      /\ \/ answer' = answer
         \/ pc' = "answer" /\ \E c \in {401, 403, 405, 500} :
                                answer' = [code |-> c, text |-> "static"]
  BY <1>t DEF NewRequest, HandleOtherMethod, PostRefused, PostNoMemory,
     PostNoSession, Respond, RespondUnchecked, zVars, TypeOK
<1>2. con_cls = "NULL" /\ ~sess
  BY <1>t, <1>1 DEF FreshInv, OwnerInv
<1>3. TypeOK'
  <2>1. strm' \in {"none", "open", "leaked"} /\ refused' \in BOOLEAN
    <3>1. strm \in {"none", "open", "leaked"} /\ refused \in BOOLEAN
      BY <1>t DEF TypeOK
    <3>2. \/ strm' = "none" \/ strm' = strm \/ strm' = "leaked"
      BY <1>1, Zenon
    <3>3. \/ refused' = FALSE \/ refused' = TRUE \/ refused' = refused
      BY <1>1, Zenon
    <3> QED  BY <3>1, <3>2, <3>3
  <2>2. answer' \in [code : {0, 200, 400, 401, 403, 404, 405, 413, 500, 503},
                    text : {"none", "static", "session"}]
    BY <1>t, <1>1 DEF TypeOK
  <2> QED  BY <1>t, <1>1, <2>1, <2>2 DEF TypeOK
<1>4. OwnerInv' /\ InflateInv'
  <2>1. CASE strm' = "none" /\ refused' = FALSE
    BY <1>t, <1>1, <1>2, <2>1 DEF OwnerInv, InflateInv
  <2>2. CASE UNCHANGED <<strm, refused, request>> /\ pc = "headers"
    BY <1>t, <1>1, <1>2, <2>2 DEF OwnerInv, InflateInv
  <2>3. CASE /\ strm' = (IF request.zlib THEN "leaked" ELSE "none") /\ refused' = TRUE
             /\ pc' = "closing" /\ request' = request
    BY <1>t, <1>1, <1>2, <2>3 DEF OwnerInv, InflateInv
  <2> QED  BY <1>1, <2>1, <2>2, <2>3
<1>5. FreshInv'
  BY <1>t, <1>1 DEF FreshInv
<1>6. ErrorInv'
  <2>1. http_error.text # "session" /\ answer'.text # "session"
    BY <1>t, <1>1 DEF FreshInv, NoAnswer
  <2> QED  BY <1>t, <1>1, <1>2, <2>1 DEF ErrorInv
<1> QED  BY <1>t, <1>1, <1>3, <1>4, <1>5, <1>6 DEF IInv

\* handle_http_post_init() makes the con_info, handle_get() leaves its mark.
LEMMA FirstCallStep ==
  ASSUME IInv, PostInit \/ GetInit
  PROVE  IInv'
<1>t. TypeOK /\ OwnerInv /\ FreshInv /\ ErrorInv /\ InflateInv /\ str <= chunks
  BY DEF IInv
<1>1. /\ pc = "headers" /\ pc' = "body"
      /\ UNCHANGED <<listener, request, refused, http_error, str, chunks, z,
                     total, decoded, answer, decodes>>
      /\ \/ /\ con_cls' = "info" /\ sess' = listener.stream
            /\ strm' \in {"open", "none"}
         \/ con_cls' = "mark" /\ sess' = sess /\ strm' = strm
  BY DEF PostInit, GetInit, zVars
<1>2. /\ con_cls = "NULL" /\ ~sess /\ http_error = NoAnswer /\ answer = NoAnswer
      /\ z = NoInput /\ total = 0 /\ decoded = 0 /\ decodes = {} /\ strm # "open"
  BY <1>t, <1>1 DEF FreshInv, OwnerInv
<1>3. TypeOK'
  <2>1. sess' \in BOOLEAN
    BY <1>t, <1>1 DEF TypeOK
  <2> QED  BY <1>t, <1>1, <2>1 DEF TypeOK
<1>4. OwnerInv'
  BY <1>t, <1>1, <1>2 DEF OwnerInv
<1>5. FreshInv' /\ InflateInv'
  BY <1>1, <1>2 DEF FreshInv, InflateInv, NoInput
<1>6. ErrorInv'
  BY <1>1, <1>2 DEF ErrorInv, Failures, NoAnswer
<1> QED  BY <1>t, <1>1, <1>3, <1>4, <1>5, <1>6 DEF IInv

\* After the decoder returned rc: http_error is there if and only if rc is one, and
\* it is that of the only failure.
Decoded(rc) ==
  /\ decodes' \subseteq DecoderErrors \cup {"OK"}
  /\ http_error' \in [code : {0, 400, 404, 405, 413, 500, 503},
                      text : {"none", "static", "session"}]
  /\ http_error'.code = 0 <=> rc = "OK"
  /\ \A e, f \in Failures' : e = f
  /\ \A e \in Failures' : http_error'.code = DecoderErr2Http(e)

\* The decoder is called for a request without error.
LEMMA DecodeEffect ==
  ASSUME TypeOK, ErrorInv, sess, http_error.code = 0,
         NEW rc \in DecoderErrors \cup {"OK"},
         decodes' = decodes \cup {rc} \/ (rc = "OK" /\ decodes' = decodes),
         QueueResponse(rc, "session")
  PROVE  Decoded(rc)
<1>1. Failures = {}
  BY ErrorCodes DEF ErrorInv, Failures, TypeOK
<1>2. decodes' \subseteq DecoderErrors \cup {"OK"}
  BY DEF TypeOK
<1>3. Failures' = IF rc = "OK" THEN {} ELSE {rc}
  BY <1>1 DEF Failures
<1>4. CASE rc = "OK"
  <2>1. http_error' = http_error
    BY <1>4 DEF QueueResponse
  <2> QED  BY <1>2, <1>3, <1>4, <2>1 DEF Decoded, TypeOK
<1>5. CASE rc # "OK"
  <2>1. http_error' = [code |-> DecoderErr2Http(rc), text |-> "session"]
    BY <1>5 DEF QueueResponse
  <2>2. DecoderErr2Http(rc) \in {400, 404, 405, 413, 500, 503}
    BY <1>5, ErrorCodes
  <2> QED  BY <1>2, <1>3, <1>5, <2>1, <2>2 DEF Decoded
<1> QED  BY <1>4, <1>5

\* A chunk that is passed over, gathered or given to the decoder.
LEMMA ChunkStep ==
  ASSUME IInv, SkipChunk \/ BufferChunk \/ DecodeChunk
  PROVE  IInv'
<1>t. TypeOK /\ OwnerInv /\ FreshInv /\ ErrorInv /\ InflateInv /\ str <= chunks
  BY DEF IInv
<1>1. /\ pc = "body" /\ con_cls = "info" /\ chunks < MaxChunks
      /\ chunks' = chunks + 1
      /\ UNCHANGED <<listener, request, refused, pc, con_cls, sess, strm, z,
                     total, decoded, answer>>
  BY DEF SkipChunk, BufferChunk, DecodeChunk, Chunk, zVars
<1>2. chunks' \in 0..MaxChunks
  BY <1>t, <1>1, ConstantsAssumption DEF TypeOK
<1>3. CASE SkipChunk
  <2>1. UNCHANGED <<http_error, str, decodes>>
    BY <1>3 DEF SkipChunk
  <2>2. TypeOK' /\ str' <= chunks'
    BY <1>t, <1>1, <1>2, <2>1 DEF TypeOK
  <2>3. OwnerInv' /\ FreshInv' /\ ErrorInv' /\ InflateInv'
    BY <1>t, <1>1, <2>1 DEF OwnerInv, FreshInv, ErrorInv, Failures, InflateInv
  <2> QED  BY <2>2, <2>3 DEF IInv
<1>4. CASE BufferChunk
  <2>1. /\ ~listener.stream /\ decodes' = decodes
        /\ \/ str' = str + 1 /\ http_error' = http_error
           \/ str' = str /\ http_error' = [code |-> 500, text |-> "none"]
    BY <1>4 DEF BufferChunk, QueueResponse, DecoderErr2Http
  <2>2. str' \in 0..MaxChunks /\ str' <= chunks'
    BY <1>t, <1>1, <2>1, ConstantsAssumption DEF TypeOK
  <2>3. TypeOK'
    BY <1>t, <1>1, <1>2, <2>1, <2>2 DEF TypeOK
  <2>4. ~sess
    BY <1>t, <2>1 DEF OwnerInv
  <2>5. OwnerInv' /\ FreshInv' /\ InflateInv'
    BY <1>t, <1>1, <2>4 DEF OwnerInv, FreshInv, InflateInv
  <2>6. ErrorInv'
    BY <1>t, <1>1, <2>1, <2>4 DEF ErrorInv
  <2> QED  BY <2>2, <2>3, <2>5, <2>6 DEF IInv
<1>5. CASE DecodeChunk
  <2>1. PICK rc \in DecoderErrors \cup {"OK"} :
          decodes' = decodes \cup {rc} /\ QueueResponse(rc, "session")
    BY <1>5 DEF DecodeChunk, Decode
  <2>2. listener.stream /\ str' = str /\ http_error.code = 0
    BY <1>5 DEF DecodeChunk
  <2>3. sess
    BY <1>t, <1>1, <2>2 DEF OwnerInv
  <2>4. Decoded(rc)
    BY <1>t, <2>1, <2>2, <2>3, DecodeEffect
  <2>5. TypeOK' /\ str' <= chunks'
    BY <1>t, <1>1, <1>2, <2>2, <2>4 DEF TypeOK, Decoded
  <2>6. OwnerInv' /\ FreshInv'
    BY <1>t, <1>1 DEF OwnerInv, FreshInv
  <2>7. ErrorInv'
    BY <1>t, <1>1, <2>3, <2>4 DEF ErrorInv, Decoded
  <2>8. InflateInv'
    BY <1>t, <1>1, <2>2 DEF InflateInv
  <2> QED  BY <2>5, <2>6, <2>7, <2>8 DEF IInv
<1> QED  BY <1>3, <1>4, <1>5

\* compressed_callback(): a chunk comes, and inflate() makes something of it or
\* fails.
LEMMA InflateStep ==
  ASSUME IInv, CompressedChunk \/ InflateFails \/ Inflate
  PROVE  IInv'
<1>t. TypeOK /\ OwnerInv /\ FreshInv /\ ErrorInv /\ InflateInv /\ str <= chunks
  BY DEF IInv
<1>1. /\ pc \in {"body", "inflate"} /\ pc' \in {"body", "inflate"}
      /\ UNCHANGED <<listener, request, refused, con_cls, sess, strm, str,
                     answer>>
  BY DEF CompressedChunk, InflateFails, Inflate, Chunk, InflateReturns
<1>2. sess /\ http_error.code = 0
  BY <1>t DEF OwnerInv, InflateInv, CompressedChunk, InflateFails, Inflate, Chunk
<1>3. OwnerInv' /\ FreshInv'
  BY <1>t, <1>1 DEF OwnerInv, FreshInv
<1>n. /\ z.output \in Nat /\ total \in Nat /\ decoded \in Nat
      /\ decoded + z.output = total
      /\ z.ended \in BOOLEAN /\ z.bad \in BOOLEAN
  BY <1>t, <1>2 DEF TypeOK, InflateInv
<1>4. CASE CompressedChunk
  <2>1. /\ pc = "body" /\ pc' = "inflate"
        /\ chunks < MaxChunks /\ chunks' = chunks + 1
        /\ UNCHANGED <<http_error, decoded, decodes>>
    BY <1>4 DEF CompressedChunk, Chunk
  <2>2. PICK n \in 0..MaxInflated, last \in BOOLEAN :
          /\ z' = [input |-> TRUE, output |-> z.output + n, ended |-> last,
                   bad |-> z.bad]
          /\ total' = total + n
    BY <1>4 DEF CompressedChunk
  <2>3. z'.output = z.output + n /\ z'.output \in Nat /\ total' \in Nat
    BY <1>n, <2>2, ConstantsAssumption
  <2>4. z' \in [input : BOOLEAN, output : Nat, ended : BOOLEAN, bad : BOOLEAN]
    BY <1>n, <2>2, <2>3
  <2>5. chunks' \in 0..MaxChunks /\ str' <= chunks'
    BY <1>t, <1>1, <2>1, ConstantsAssumption DEF TypeOK
  <2>6. TypeOK'
    BY <1>t, <1>1, <2>1, <2>3, <2>4, <2>5 DEF TypeOK
  <2>7. InflateInv'
    <3>1. decoded' + z'.output = total'
      BY <1>n, <2>1, <2>2, <2>3, ConstantsAssumption
    <3> QED  BY <1>1, <1>2, <2>1, <3>1 DEF InflateInv
  <2>8. ErrorInv'
    BY <1>t, <1>1, <2>1 DEF ErrorInv, Failures
  <2> QED  BY <1>3, <2>5, <2>6, <2>7, <2>8 DEF IInv
<1>5. CASE InflateFails
  <2>1. /\ pc' = "body" /\ UNCHANGED <<chunks, total, decoded, decodes>>
        /\ \E rc \in {"INVALID_REQUEST", "GENERIC_ERROR"} :
             http_error' = [code |-> DecoderErr2Http(rc), text |-> "static"]
        /\ \/ z' = z
           \/ z' = [input |-> FALSE, output |-> 0, ended |-> z.ended, bad |-> TRUE]
    BY <1>5 DEF InflateFails, InflateReturns, QueueResponse
  <2>2. z' \in [input : BOOLEAN, output : Nat, ended : BOOLEAN, bad : BOOLEAN]
    <3>1. CASE z' = z
      BY <1>t, <3>1 DEF TypeOK
    <3>2. CASE z' = [input |-> FALSE, output |-> 0, ended |-> z.ended, bad |-> TRUE]
      BY <1>n, <3>2
    <3> QED  BY <2>1, <3>1, <3>2
  <2>3. \E c \in {400, 500} : http_error' = [code |-> c, text |-> "static"]
    BY <2>1 DEF DecoderErr2Http
  <2>4. TypeOK' /\ str' <= chunks'
    BY <1>t, <1>1, <2>1, <2>2, <2>3 DEF TypeOK
  <2>5. InflateInv'
    BY <2>1, <2>3 DEF InflateInv
  <2>6. Failures' = {}
    BY <1>t, <1>2, <2>1, ErrorCodes DEF ErrorInv, Failures, TypeOK
  <2>7. ErrorInv'
    BY <1>t, <1>1, <1>2, <2>1, <2>3, <2>6 DEF ErrorInv
  <2> QED  BY <1>3, <2>4, <2>5, <2>7 DEF IInv
<1>6. CASE Inflate
  <2> DEFINE n == Min({ZLIB_CHUNK, z.output})
  <2>1. /\ pc = "inflate"
        /\ z' = [input |-> FALSE, output |-> z.output - n, ended |-> z.ended,
                 bad |-> z.bad]
        /\ decoded' = decoded + n /\ UNCHANGED <<chunks, total>>
    BY <1>6 DEF Inflate
  <2>2. PICK rc \in DecoderErrors \cup {"OK"} :
          /\ decodes' = decodes \cup {rc} \/ (rc = "OK" /\ decodes' = decodes)
          /\ IF rc = "OK" /\ n = ZLIB_CHUNK
             THEN UNCHANGED <<pc, http_error>>
             ELSE pc' = "body" /\ QueueResponse(rc, "session")
    BY <1>6 DEF Inflate, Decode, LoopGoesOn, InflateReturns
  <2>3. n \in Nat /\ n <= z.output /\ (n = ZLIB_CHUNK \/ n = z.output)
    <3>1. \E x \in {ZLIB_CHUNK, z.output} : \A y \in {ZLIB_CHUNK, z.output} : x <= y
      BY <1>n, ConstantsAssumption
    <3>2. n \in {ZLIB_CHUNK, z.output} /\ \A y \in {ZLIB_CHUNK, z.output} : n <= y
      BY <3>1, Zenon DEF Min
    <3> QED  BY <1>n, <3>2, ConstantsAssumption
  <2> HIDE DEF n
  <2>4. Decoded(rc)
    <3>1. QueueResponse(rc, "session")
      BY <2>2 DEF QueueResponse
    <3> QED  BY <1>t, <1>2, <2>2, <3>1, DecodeEffect
  <2>5. /\ z'.output = z.output - n /\ z'.output \in Nat /\ decoded' \in Nat
        /\ decoded' + z'.output = total'
    BY <1>n, <2>1, <2>3
  <2>6. z' \in [input : BOOLEAN, output : Nat, ended : BOOLEAN, bad : BOOLEAN]
    BY <1>n, <2>1, <2>5
  <2>7. TypeOK' /\ str' <= chunks'
    BY <1>t, <1>1, <2>1, <2>4, <2>5, <2>6 DEF TypeOK, Decoded
  <2>8. InflateInv'
    <3>1. CASE rc = "OK" /\ n = ZLIB_CHUNK
      BY <1>1, <1>2, <2>1, <2>2, <2>5, <3>1 DEF InflateInv
    <3>2. CASE rc = "OK" /\ n # ZLIB_CHUNK
      <4>1. pc' = "body" /\ z'.output = 0
        BY <1>n, <2>2, <2>3, <2>5, <3>2
      <4> QED  BY <2>5, <4>1 DEF InflateInv
    <3>3. CASE rc # "OK"
      BY <2>2, <2>4, <3>3 DEF InflateInv, Decoded
    <3> QED  BY <3>1, <3>2, <3>3
  <2>9. ErrorInv'
    BY <1>t, <1>1, <1>2, <2>4 DEF ErrorInv, Decoded
  <2> QED  BY <1>3, <2>7, <2>8, <2>9 DEF IInv
<1> QED  BY <1>4, <1>5, <1>6

\* The answer is queued, or MHD gives up.
LEMMA AnswerStep ==
  ASSUME IInv, PostEnd \/ GetEnd \/ Abort
  PROVE  IInv'
<1>t. TypeOK /\ OwnerInv /\ FreshInv /\ ErrorInv /\ InflateInv /\ str <= chunks
  BY DEF IInv
<1>1. /\ pc = "body" /\ pc' \in {"answer", "closing", "body"}
      /\ UNCHANGED <<listener, request, refused, sess, strm, http_error, str,
                     chunks, z, total, decoded>>
  BY DEF PostEnd, GetEnd, Abort, Respond, RespondUnchecked, zVars
<1>2. FreshInv' /\ InflateInv' /\ str' <= chunks'
  BY <1>t, <1>1 DEF FreshInv, InflateInv
<1>3. CASE PostEnd
  <2>1. /\ con_cls = "info" /\ con_cls' = con_cls
        /\ \/ decodes' = decodes
           \/ /\ ~listener.stream
              /\ \E rc \in DecoderErrors \cup {"OK"} : decodes' = decodes \cup {rc}
        /\ \/ pc' \in {"closing", "body"} /\ answer' = answer
           \/ /\ pc' = "answer" /\ http_error.code # 0
              /\ answer' = [code |-> http_error.code, text |-> http_error.text]
           \/ /\ pc' = "answer" /\ http_error.code = 0
              /\ answer' = [code |-> 200, text |-> "static"]
    BY <1>1, <1>3 DEF PostEnd, Respond, RespondUnchecked, Decode
  <2>2. TypeOK'
    BY <1>t, <1>1, <2>1 DEF TypeOK
  <2>3. OwnerInv'
    BY <1>t, <1>1, <2>1 DEF OwnerInv
  <2>4. "session" \in {answer'.text, http_error'.text} => sess'
    BY <1>t, <1>1, <2>1 DEF ErrorInv
  <2>5. CASE sess
    <3>1. decodes' = decodes
      BY <1>t, <2>1, <2>5 DEF OwnerInv
    <3> QED  BY <1>t, <1>1, <1>2, <2>1, <2>2, <2>3, <2>4, <3>1 DEF IInv, ErrorInv, Failures
  <2>6. CASE ~sess
    BY <1>t, <1>1, <1>2, <2>2, <2>3, <2>4, <2>6 DEF IInv, ErrorInv
  <2> QED  BY <2>5, <2>6
<1>4. CASE GetEnd
  <2>1. /\ con_cls = "mark" /\ con_cls' = "NULL"
        /\ \E rc \in DecoderErrors \cup {"OK"} :
             /\ decodes' = decodes \cup {rc}
             /\ \/ pc' = "closing" /\ answer' = answer
                \/ answer' = [code |-> DecoderErr2Http(rc), text |-> "static"]
    BY <1>4 DEF GetEnd, Respond, Decode
  <2>2. ~sess /\ strm # "open"
    BY <1>t, <2>1 DEF OwnerInv
  <2>3. TypeOK' /\ OwnerInv'
    <3>1. \/ answer' = answer
          \/ \E c \in {200, 400, 404, 405, 413, 500, 503} :
               answer' = [code |-> c, text |-> "static"]
      BY <2>1, ErrorCodes
    <3> QED  BY <1>t, <1>1, <2>1, <2>2, <3>1 DEF TypeOK, OwnerInv
  <2>4. ErrorInv'
    BY <1>t, <1>1, <2>1, <2>2 DEF ErrorInv
  <2> QED  BY <1>2, <2>3, <2>4 DEF IInv
<1>5. CASE Abort
  <2>1. pc' = "closing" /\ UNCHANGED <<con_cls, answer, decodes>>
    BY <1>5 DEF Abort
  <2> QED  BY <1>t, <1>1, <1>2, <2>1 DEF IInv, TypeOK, OwnerInv, ErrorInv, Failures
<1> QED  BY <1>3, <1>4, <1>5

\* request_completed().
LEMMA CompletedStep ==
  ASSUME IInv, RequestCompleted \/ MarkCompleted
  PROVE  IInv'
<1>t. TypeOK /\ OwnerInv /\ FreshInv /\ ErrorInv /\ InflateInv /\ str <= chunks
  BY DEF IInv
<1>1. CASE RequestCompleted
  <2>1. /\ pc' = "idle" /\ con_cls' = "NULL" /\ http_error' = NoAnswer
        /\ str' = 0 /\ chunks' = 0 /\ z' = NoInput /\ total' = 0 /\ decoded' = 0
        /\ answer' = NoAnswer /\ decodes' = {}
        /\ UNCHANGED <<listener, request, refused>>
    BY <1>1 DEF RequestCompleted, Forget
  <2>2. ~sess' /\ sess' \in BOOLEAN /\ strm' # "open" /\ strm' \in {"none", "leaked"}
        /\ (strm' = "leaked" <=> refused /\ request.zlib)
    <3>1. CASE con_cls = "info"
      BY <1>1, <1>t, <3>1 DEF RequestCompleted, OwnerInv
    <3>2. CASE con_cls # "info"
      BY <1>1, <1>t, <3>2 DEF RequestCompleted, OwnerInv, TypeOK
    <3> QED  BY <3>1, <3>2
  <2>3. TypeOK'
    <3>1. /\ http_error' \in [code : {0}, text : {"none"}] /\ answer' = http_error'
          /\ z' \in [input : BOOLEAN, output : Nat, ended : BOOLEAN, bad : BOOLEAN]
      BY <2>1 DEF NoAnswer, NoInput
    <3> QED  BY <1>t, <2>1, <2>2, <3>1, ConstantsAssumption DEF TypeOK
  <2>4. FreshInv' /\ InflateInv' /\ str' <= chunks'
    BY <2>1, <2>2 DEF FreshInv, InflateInv
  <2>6. OwnerInv'
    BY <2>1, <2>2 DEF OwnerInv
  <2>5. ErrorInv'
    BY <2>1, <2>2 DEF ErrorInv, NoAnswer
  <2> QED  BY <2>3, <2>4, <2>5, <2>6 DEF IInv
<1>2. CASE MarkCompleted
  <2>1. /\ pc' = "crashed"
        /\ pc = "closing" /\ con_cls = "mark"
        /\ UNCHANGED <<listener, request, refused, con_cls, sess, strm,
                       http_error, str, chunks, z, total, decoded, answer,
                       decodes>>
    BY <1>2 DEF MarkCompleted, zVars
  <2>2. OwnerInv'
    BY <1>t, <2>1 DEF OwnerInv
  <2>3. FreshInv' /\ InflateInv' /\ ErrorInv'
    BY <1>t, <2>1 DEF FreshInv, ErrorInv, Failures, InflateInv
  <2> QED  BY <1>t, <2>1, <2>2, <2>3 DEF IInv, TypeOK
<1> QED  BY <1>1, <1>2
-----------------------------------------------------------------------------
\* IInv holds in all requests, however they are cut, compressed, refused, aborted
\* or answered.
THEOREM Invariance == Spec => []IInv
<1>1. ASSUME IInv, UNCHANGED vars PROVE IInv'
  BY <1>1 DEF vars, zVars, IInv, TypeOK, OwnerInv, FreshInv, ErrorInv, Failures,
     InflateInv
<1>2. IInv /\ [Next]_vars => IInv'
  BY <1>1, HeadersStep, FirstCallStep, ChunkStep, InflateStep, AnswerStep,
     CompletedStep DEF Next
<1> QED  BY InitIInv, <1>2, PTL DEF Spec

\* The type invariant: among others, con_info->str never has more chunks than a
\* request may have, and what zlib holds back never goes below zero.
THEOREM TypeCorrect == Spec => []TypeOK
<1>1. IInv => TypeOK
  BY DEF IInv
<1> QED  BY Invariance, <1>1, PTL

\* The answer is that of the first failure of the decoder, and the decoder is not
\* called again after it.
THEOREM FirstFailureIsTold == Spec => []AnswerTellsFailure
<1>1. ASSUME IInv PROVE AnswerTellsFailure
  <2> SUFFICES ASSUME con_cls = "info", listener.stream PROVE
        /\ \A e, f \in Failures : e = f
        /\ pc = "answer" =>
             /\ \A e \in Failures : answer.code = DecoderErr2Http(e)
             /\ Failures = {} /\ http_error.code = 0 <=> answer.code = 200
    BY DEF AnswerTellsFailure
  <2>1. sess /\ ErrorInv /\ TypeOK
    BY <1>1 DEF IInv, OwnerInv
  <2>2. \A e \in Failures : DecoderErr2Http(e) # 0 /\ DecoderErr2Http(e) # 200
    BY <2>1, ErrorCodes DEF Failures, TypeOK
  <2> QED  BY <2>1, <2>2 DEF ErrorInv
<1> QED  BY Invariance, <1>1, PTL

\* compressed_callback() leaves nothing of a body undecoded, whatever the size of
\* its buffer and of the chunks.
THEOREM AllIsDecoded == Spec => []NothingLeftInflated
<1>1. ASSUME IInv PROVE NothingLeftInflated
  <2> SUFFICES ASSUME pc = "answer", answer.code = 200, sess PROVE decoded = total
    BY DEF NothingLeftInflated
  <2>1. http_error.code = 0
    BY <1>1 DEF IInv, ErrorInv
  <2>2. decoded + z.output = total /\ z.output = 0 /\ decoded \in Nat
    BY <1>1, <2>1 DEF IInv, InflateInv, TypeOK
  <2> QED  BY <2>2
<1> QED  BY Invariance, <1>1, PTL

\* The text of an answer lives in a session that is not deleted before the end of
\* the request; then the session and the zlib stream of every request are gone,
\* but for the stream of one that the decoder refused, which leaks.
THEOREM OwnersRelease == Spec => [](AnswerTextLives /\ ReleasedUnlessRefused)
<1>1. IInv => AnswerTextLives
  BY DEF IInv, ErrorInv, AnswerTextLives
<1>2. IInv => ReleasedUnlessRefused
  BY DEF IInv, TypeOK, OwnerInv, FreshInv, ReleasedUnlessRefused
<1> QED  BY Invariance, <1>1, <1>2, PTL
==============================================================================
