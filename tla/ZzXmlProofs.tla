----------------------------- MODULE ZzXmlProofs -----------------------------
(***************************************************************************)
(* Proofs about ZzXml: the three stacks of a session agree, the assertions *)
(* of the callbacks hold, a request is refused if, and only if, it has     *)
(* something wrong in it, and every document of it is one message, for     *)
(* every YAJL_MAX_DEPTH and every body.                                    *)
(***************************************************************************)
EXTENDS ZzXml, FiniteSetTheorems, TLAPS

IsSequence(s) == \E S : s \in Seq(S)

\* The types, each variable by itself.
Types ==
  /\ pc \in {"idle", "wait", "parse", "epilog", "stopped", "failed", "freed",
             "crashed"}
  /\ body \in Seq(Tokens \cup {"?"})
  /\ chunk \in [from : Nat, to : Nat]
  /\ fed \in Nat
  /\ level \in Nat
  /\ offset \in Nat
  /\ finished \in BOOLEAN
  /\ depth \in Nat
  /\ stack_pos \in Nat
  /\ last_open_map \in Nat \cup {NO_JSON_LAST_OPEN_MAP}
  /\ stack_boolean_info \in [Bits -> BOOLEAN]
  /\ http_response \in BOOLEAN
  /\ ahead \in BOOLEAN
  /\ oom \in BOOLEAN
  /\ rc \in {"OK", "INVALID_REQUEST", "GENERIC_ERROR", "MEMORY_ERROR"}

\* The parser is in the buffer that it was given.
ChunkInv ==
  /\ chunk.from <= chunk.to
  /\ Parsing => chunk.from <= Len(body) /\ Len(body) <= chunk.to

\* What the generator has open when there are l elements, the last of them with
\* children or not.
DepthOf(l, children) ==
  IF l = 0 THEN 0 ELSE IF children THEN 2 * l + 1 ELSE 2 * l - 1

\* The stacks agree, and every element that has a child open has its bit set.
StackInv ==
  /\ stack_pos < YAJL_MAX_DEPTH
  /\ ~http_response =>
       /\ stack_pos = level
       /\ depth = DepthOf(level, children_printed)
       /\ \A p \in 1..(stack_pos - 1) : stack_boolean_info[children_printed_bit(p)]
       /\ pc \in {"epilog", "stopped"} => level = 0
       /\ IsSequence(yajl_gen_buf)

\* An error code comes with the text of the error; between chunks there is none,
\* and no buffer.
ErrorInv ==
  /\ rc # "OK" => http_response
  /\ pc \in {"idle", "wait"} => rc = "OK" /\ yajl_gen_buf = <<>>
  /\ pc = "failed" => rc # "OK"
  /\ pc = "idle" => ~oom /\ ~http_response
  /\ pc = "epilog" /\ ~oom => ~http_response

\* No token of the body is an error.
AllRight == \A n \in DOMAIN body : ~Wrong(body, n)

\* A session without an error, whose parser got every chunk at its reset: it has
\* read nothing but what is in this chunk, a parser that has read nothing is
\* between documents, one that is finished is at the end of its chunk, one that is
\* stopped is where it is reset to, the open document has its message started,
\* and there is nothing wrong in the body.
RightInv ==
  /\ rc = "OK"
  /\ Parsing => fed = 0
  /\ pc = "parse" /\ Len(body) = chunk.from => level = 0 /\ ~finished
  /\ pc = "parse" /\ finished => Len(body) = chunk.to
  /\ pc \in {"idle", "wait"} /\ fed = 0 => level = 0 /\ ~finished
  /\ pc = "epilog" => Len(body) # chunk.from
  /\ pc = "stopped" => chunk.from + offset = Len(body)
  /\ Parsing /\ level > 0 => last_open_map >= 0 /\ last_open_map < Len(yajl_gen_buf)
  /\ level = Level(body, Len(body))
  /\ AllRight

\* A session with an error: its code is INVALID_REQUEST, and there is a reason.
WrongInv ==
  /\ rc = "INVALID_REQUEST"
  /\ ~AllRight

\* As long as every chunk came at a reset of the parser and there was memory.
WholeInv ==
  ~ahead /\ ~oom =>
    /\ pc # "crashed"
    /\ pc = "stopped" => offset <= chunk.to - chunk.from
    /\ ~http_response => RightInv
    /\ http_response => WrongInv

IInv == Types /\ ChunkInv /\ StackInv /\ ErrorInv /\ WholeInv
-----------------------------------------------------------------------------
(* Sequences.                                                              *)

\* Two sequences after each other.
LEMMA Concat ==
  ASSUME NEW s, NEW t, IsSequence(s), IsSequence(t)
  PROVE  /\ IsSequence(s \o t)
         /\ Len(s) \in Nat /\ Len(t) \in Nat
         /\ Len(s \o t) = Len(s) + Len(t)
<1>1. PICK S : s \in Seq(S)
  BY DEF IsSequence
<1>2. PICK T : t \in Seq(T)
  BY DEF IsSequence
<1>3. s \in Seq(S \cup T) /\ t \in Seq(S \cup T)
  BY <1>1, <1>2
<1>4. s \o t \in Seq(S \cup T) /\ Len(s \o t) = Len(s) + Len(t)
  BY <1>3
<1> QED
  BY <1>3, <1>4 DEF IsSequence

\* A sequence with another last element.
LEMMA ChangeLast ==
  ASSUME NEW s, IsSequence(s), s # <<>>, NEW e
  PROVE  /\ IsSequence([s EXCEPT ![Len(s)] = e])
         /\ Len(s) \in Nat
         /\ Len([s EXCEPT ![Len(s)] = e]) = Len(s)
<1>1. PICK S : s \in Seq(S)
  BY DEF IsSequence
<1>2. s \in Seq(S \cup {e}) /\ e \in S \cup {e}
  BY <1>1
<1>3. Len(s) \in 1..Len(s) /\ Len(s) \in Nat
  BY <1>1
<1>4. /\ [s EXCEPT ![Len(s)] = e] \in Seq(S \cup {e})
      /\ Len([s EXCEPT ![Len(s)] = e]) = Len(s)
  BY <1>2, <1>3
<1> QED
  BY <1>3, <1>4 DEF IsSequence

\* What the callbacks print are sequences.
LEMMA Pieces ==
  ASSUME NEW c, NEW n
  PROVE  /\ IsSequence(<<>>)
         /\ IsSequence(OpensChild)
         /\ IsSequence(ClosesChildren)
         /\ IsSequence(Tag(c, n)) /\ Len(Tag(c, n)) > 0
         /\ IsSequence(<<c>>) /\ Len(<<c>>) = 1
<1>1. IsSequence(<<>>) /\ IsSequence(<<c>>) /\ Len(<<c>>) = 1
  <2>1. <<>> \in Seq({c}) /\ <<c>> \in Seq({c}) /\ Len(<<c>>) = 1
    OBVIOUS
  <2> QED
    BY <2>1, Zenon DEF IsSequence
<1>2. IsSequence(OpensChild)
  <2> DEFINE a == <<"map_close">>
             b == <<"children">>
             d == <<"array_open">>
  <2>1. OpensChild = <<a>> \/ OpensChild = <<b, d>>
    BY DEF OpensChild
  <2> HIDE DEF a, b, d
  <2>2. <<a>> \in Seq({a, b, d}) /\ <<b, d>> \in Seq({a, b, d})
    OBVIOUS
  <2> QED
    BY <2>1, <2>2, Zenon DEF IsSequence
<1>3. IsSequence(ClosesChildren)
  <2> DEFINE a == <<"map_close">>
             d == <<"array_close">>
  <2>1. ClosesChildren = <<a, d>> \/ ClosesChildren = <<>>
    BY DEF ClosesChildren
  <2> HIDE DEF a, d
  <2>2. <<>> \in Seq({a, d}) /\ <<a, d>> \in Seq({a, d})
    OBVIOUS
  <2> QED
    BY <2>1, <2>2, Zenon DEF IsSequence
<1>4. IsSequence(Tag(c, n)) /\ Len(Tag(c, n)) > 0
  <2> DEFINE t == <<<<"map_open">>, <<"tag", n>>>>
             a == IF c = "open@" THEN <<<<"attributes", n>>>> ELSE <<>>
  <2>1. t \in Seq({<<"map_open">>, <<"tag", n>>}) /\ Len(t) = 2
    OBVIOUS
  <2>2. a \in Seq({<<"attributes", n>>})
    OBVIOUS
  <2>3. IsSequence(t) /\ IsSequence(a)
    BY <2>1, <2>2, Zenon DEF IsSequence
  <2>4. Tag(c, n) = t \o a
    BY DEF Tag
  <2> HIDE DEF t, a
  <2>5. IsSequence(t \o a) /\ Len(t \o a) = 2 + Len(a) /\ Len(a) \in Nat
    BY <2>1, <2>3, Concat, Zenon
  <2> QED
    BY <2>4, <2>5
<1> QED
  BY <1>1, <1>2, <1>3, <1>4

\* The tokens that nobody looks at.
LEMMA Padding ==
  ASSUME NEW b \in Seq(Tokens \cup {"?"}), NEW n \in Int
  PROVE  /\ b \o Unseen(n) \in Seq(Tokens \cup {"?"})
         /\ n <= 0 => b \o Unseen(n) = b
         /\ n > 0 => Len(b \o Unseen(n)) = Len(b) + n
         /\ \A k \in 1..Len(b) : (b \o Unseen(n))[k] = b[k]
<1> DEFINE T == Tokens \cup {"?"}
<1>1. CASE n <= 0
  <2>1. 1..n = {}
    BY <1>1
  <2>2. Unseen(n) = <<>>
    BY <2>1, Unseen(n) = [k \in {} |-> "?"], <<>> = [k \in {} |-> "?"] DEF Unseen
  <2>3. b \o Unseen(n) = b
    BY <2>2
  <2>4. ~(n > 0)
    BY <1>1
  <2> QED
    BY <2>3, <2>4
<1>2. CASE n > 0
  <2>1. Unseen(n) \in [1..n -> T] /\ n \in Nat
    BY <1>2 DEF Unseen
  <2>2. Unseen(n) \in Seq(T) /\ Len(Unseen(n)) = n
    BY <2>1
  <2>3. b \in Seq(T)
    OBVIOUS
  <2> HIDE DEF T
  <2>4. /\ b \o Unseen(n) \in Seq(T)
        /\ Len(b \o Unseen(n)) = Len(b) + n
        /\ \A k \in 1..Len(b) : (b \o Unseen(n))[k] = b[k]
    BY <2>2, <2>3
  <2> QED
    BY <1>2, <2>4 DEF T
<1>3. n <= 0 \/ n > 0
  OBVIOUS
<1> QED
  BY <1>1, <1>2, <1>3
-----------------------------------------------------------------------------
(* Levels.                                                                 *)

\* The opening and the closing tags among the first k tokens.
Opened(b, k) == {j \in 1..k : Opens(b, j)}
Closed(b, k) == {j \in 1..k : b[j] = "close"}

\* A level is the difference of two numbers.
LEMMA LevelCounts ==
  ASSUME NEW b, NEW k \in Nat
  PROVE  /\ IsFiniteSet(Opened(b, k)) /\ IsFiniteSet(Closed(b, k))
         /\ Cardinality(Opened(b, k)) \in Nat /\ Cardinality(Closed(b, k)) \in Nat
         /\ Level(b, k) = Cardinality(Opened(b, k)) - Cardinality(Closed(b, k))
         /\ Level(b, k) \in Int
<1>1. IsFiniteSet(1..k)
  BY FS_Interval
<1>2. Opened(b, k) \subseteq 1..k /\ Closed(b, k) \subseteq 1..k
  BY DEF Opened, Closed
<1>3. IsFiniteSet(Opened(b, k)) /\ IsFiniteSet(Closed(b, k))
  BY <1>1, <1>2, FS_Subset
<1>4. Cardinality(Opened(b, k)) \in Nat /\ Cardinality(Closed(b, k)) \in Nat
  BY <1>3, FS_CardinalityType
<1>5. Level(b, k) = Cardinality(Opened(b, k)) - Cardinality(Closed(b, k))
  BY DEF Level, Opened, Closed
<1> QED
  BY <1>3, <1>4, <1>5

\* No element is open before the first token.
LEMMA LevelZero ==
  ASSUME NEW b
  PROVE  Level(b, 0) = 0
<1>1. Opened(b, 0) = {} /\ Closed(b, 0) = {}
  BY 1..0 = {} DEF Opened, Closed
<1> QED
  BY <1>1, LevelCounts, FS_EmptySet

\* What one more token does to the level.
LEMMA LevelStep ==
  ASSUME NEW b, NEW k \in Nat
  PROVE  Level(b, k + 1) =
           IF Opens(b, k + 1) THEN Level(b, k) + 1
           ELSE IF b[k + 1] = "close" THEN Level(b, k) - 1
           ELSE Level(b, k)
<1>1. k + 1 \notin Opened(b, k) /\ k + 1 \notin Closed(b, k)
  BY DEF Opened, Closed
<1>2. 1..(k + 1) = (1..k) \cup {k + 1}
  OBVIOUS
<1>3. Opened(b, k + 1) = IF Opens(b, k + 1) THEN Opened(b, k) \cup {k + 1}
                         ELSE Opened(b, k)
  BY <1>2 DEF Opened
<1>4. Closed(b, k + 1) = IF b[k + 1] = "close" THEN Closed(b, k) \cup {k + 1}
                         ELSE Closed(b, k)
  BY <1>2 DEF Closed
<1>5. IsFiniteSet(Opened(b, k)) /\ IsFiniteSet(Closed(b, k))
  BY LevelCounts
<1>6. /\ Cardinality(Opened(b, k) \cup {k + 1}) = Cardinality(Opened(b, k)) + 1
      /\ Cardinality(Closed(b, k) \cup {k + 1}) = Cardinality(Closed(b, k)) + 1
  BY <1>1, <1>5, FS_AddElement
<1>7. /\ Level(b, k) = Cardinality(Opened(b, k)) - Cardinality(Closed(b, k))
      /\ Cardinality(Opened(b, k)) \in Nat /\ Cardinality(Closed(b, k)) \in Nat
  BY LevelCounts
<1>8. Level(b, k + 1) = Cardinality(Opened(b, k + 1)) - Cardinality(Closed(b, k + 1))
  BY k + 1 \in Nat, LevelCounts
<1>9. Opens(b, k + 1) => b[k + 1] # "close"
  BY DEF Opens
<1> QED
  BY <1>3, <1>4, <1>6, <1>7, <1>8, <1>9

\* Tokens that come later change neither a level nor what is wrong.
LEMMA Agree ==
  ASSUME NEW a, NEW b, NEW m \in Nat, \A k \in 1..m : a[k] = b[k]
  PROVE  /\ \A k \in 0..m : Level(a, k) = Level(b, k)
         /\ \A k \in 1..m : Wrong(a, k) <=> Wrong(b, k)
<1>1. ASSUME NEW k \in 0..m PROVE Level(a, k) = Level(b, k)
  <2>1. \A j \in 1..k : a[j] = b[j]
    OBVIOUS
  <2>2. Opened(a, k) = Opened(b, k)
    BY <2>1 DEF Opened, Opens
  <2>3. Closed(a, k) = Closed(b, k)
    BY <2>1 DEF Closed
  <2> QED
    BY <2>2, <2>3, LevelCounts, k \in Nat
<1>2. ASSUME NEW k \in 1..m PROVE Wrong(a, k) <=> Wrong(b, k)
  <2>1. k \in 0..m /\ k - 1 \in 0..m /\ a[k] = b[k]
    OBVIOUS
  <2>2. Level(a, k) = Level(b, k) /\ Level(a, k - 1) = Level(b, k - 1)
    BY <1>1, <2>1
  <2> QED
    BY <2>1, <2>2 DEF Wrong, Opens
<1> QED
  BY <1>1, <1>2

\* What the next token does to the level of the body, and whether it is wrong.
LEMMA Consumed ==
  ASSUME Types, NEW c \in Tokens, Take(c)
  PROVE  /\ body' \in Seq(Tokens \cup {"?"})
         /\ Len(body) \in Nat /\ Len(body') = Len(body) + 1
         /\ Level(body', Len(body')) =
              IF c \in {"open", "open@"} THEN Level(body, Len(body)) + 1
              ELSE IF c = "close" THEN Level(body, Len(body)) - 1
              ELSE Level(body, Len(body))
         /\ Wrong(body', Len(body')) <=>
              \/ c = "bad"
              \/ c \in {"text", "close"} /\ Level(body, Len(body)) = 0
              \/ /\ c \in {"open", "open@"}
                 /\ 2 * (Level(body, Len(body)) + 1) - (IF c = "open@" THEN 0 ELSE 1)
                      >= YAJL_MAX_DEPTH
         /\ AllRight' <=> AllRight /\ ~Wrong(body', Len(body'))
<1> DEFINE n == Len(body)
<1>1. body \in Seq(Tokens \cup {"?"}) /\ body' = Append(body, c)
  BY DEF Types, Take
<1>2. /\ body' \in Seq(Tokens \cup {"?"})
      /\ n \in Nat /\ Len(body') = n + 1
      /\ \A k \in 1..n : body'[k] = body[k]
      /\ body'[n + 1] = c
  BY <1>1
<1> HIDE DEF n
<1> PICK new : new = body'
  OBVIOUS
<1>3. \A k \in 1..n : new[k] = body[k]
  BY <1>2
<1>4. /\ \A k \in 0..n : Level(new, k) = Level(body, k)
      /\ \A k \in 1..n : Wrong(new, k) <=> Wrong(body, k)
  BY <1>2, <1>3, Agree
<1>5. Level(new, n) = Level(body, n)
  BY <1>2, <1>4
<1>6. new[n + 1] = c
  BY <1>2
<1>7. Opens(new, n + 1) <=> c \in {"open", "open@"}
  BY <1>6 DEF Opens
<1>8. Level(new, n + 1) = IF c \in {"open", "open@"} THEN Level(body, n) + 1
                          ELSE IF c = "close" THEN Level(body, n) - 1
                          ELSE Level(body, n)
  BY <1>2, <1>5, <1>6, <1>7, LevelStep
<1>9. Wrong(new, n + 1) <=>
        \/ c = "bad"
        \/ c \in {"text", "close"} /\ Level(body, n) = 0
        \/ /\ c \in {"open", "open@"}
           /\ 2 * (Level(body, n) + 1) - (IF c = "open@" THEN 0 ELSE 1) >= YAJL_MAX_DEPTH
  <2>1. n + 1 - 1 = n
    BY <1>2
  <2>2. Wrong(new, n + 1) <=>
          \/ c = "bad"
          \/ c \in {"text", "close"} /\ Level(body, n) = 0
          \/ /\ c \in {"open", "open@"}
             /\ 2 * Level(new, n + 1) - (IF c = "open@" THEN 0 ELSE 1) >= YAJL_MAX_DEPTH
    BY <1>2, <2>1, <1>5, <1>6, <1>7 DEF Wrong
  <2>3. CASE c \in {"open", "open@"}
    BY <2>2, <1>8, <2>3
  <2>4. CASE c \notin {"open", "open@"}
    BY <2>2, <2>4
  <2> QED
    BY <2>3, <2>4
<1>10. AllRight' <=> AllRight /\ ~Wrong(new, n + 1)
  <2>1. DOMAIN body = 1..n /\ DOMAIN body' = 1..(n + 1)
    BY <1>1, <1>2 DEF n
  <2>2. AllRight <=> \A k \in 1..n : ~Wrong(body, k)
    BY <2>1 DEF AllRight
  <2>3. AllRight' <=> \A k \in 1..(n + 1) : ~Wrong(new, k)
    BY <2>1 DEF AllRight
  <2>4. 1..(n + 1) = (1..n) \cup {n + 1}
    BY <1>2
  <2> QED
    BY <2>2, <2>3, <2>4, <1>4
<1>11. Len(body') = n + 1
  BY <1>2
<1> QED
  BY <1>2, <1>8, <1>9, <1>10, <1>11 DEF n

\* A body with something wrong in it stays one when it gets longer.
LEMMA WrongStays ==
  ASSUME NEW S, NEW b \in Seq(S), NEW p \in Seq(S), Len(b) <= Len(p),
         \A k \in 1..Len(b) : p[k] = b[k],
         NEW n \in DOMAIN b, Wrong(b, n)
  PROVE  \E k \in DOMAIN p : Wrong(p, k)
<1>1. n \in 1..Len(b) /\ Len(b) \in Nat /\ n \in DOMAIN p
  OBVIOUS
<1>2. Wrong(p, n)
  BY <1>1, Agree
<1> QED
  BY <1>1, <1>2

\* When there is nothing to skip, the body stays.
LEMMA Skipped ==
  ASSUME Types, NEW n \in Int, body' = body \o Unseen(n)
  PROVE  /\ body' \in Seq(Tokens \cup {"?"})
         /\ Len(body) \in Nat
         /\ n <= 0 => body' = body
         /\ n > 0 => Len(body') = Len(body) + n
         /\ ~AllRight => ~AllRight'
<1>1. body \in Seq(Tokens \cup {"?"}) /\ Len(body) \in Nat
  BY DEF Types
<1>2. /\ body' \in Seq(Tokens \cup {"?"})
      /\ n <= 0 => body' = body
      /\ n > 0 => Len(body') = Len(body) + n
      /\ \A k \in 1..Len(body) : body'[k] = body[k]
  BY <1>1, Padding, Zenon
<1>3. ASSUME Len(body) <= Len(body'), ~AllRight
      PROVE  ~AllRight'
  <2>1. PICK k \in DOMAIN body : Wrong(body, k)
    BY <1>3 DEF AllRight
  <2>2. \E j \in DOMAIN body' : Wrong(body', j)
    BY <1>1, <1>2, <1>3, <2>1, WrongStays, Zenon
  <2> QED
    BY <2>2, Zenon DEF AllRight
<1>4. Len(body) <= Len(body')
  <2>1. CASE n <= 0
    BY <1>1, <1>2, <2>1
  <2>2. CASE n > 0
    BY <1>1, <1>2, <2>2
  <2> QED
    BY <2>1, <2>2
<1> QED
  BY <1>1, <1>2, <1>3, <1>4
-----------------------------------------------------------------------------
(* Errors.                                                                 *)

\* The codes of the errors that queue_xml_error() is called with.
LEMMA Queued ==
  /\ queue_xml_error("ok", "NONE") => http_response' = TRUE /\ rc' = "OK"
  /\ queue_xml_error("ok", "FINISHED") => http_response' = TRUE /\ rc' = "GENERIC_ERROR"
  /\ queue_xml_error("ok", "SYNTAX") => http_response' = TRUE /\ rc' = "INVALID_REQUEST"
  /\ queue_xml_error("ok", "NO_MEMORY") => http_response' = TRUE /\ rc' = "MEMORY_ERROR"
  /\ queue_xml_error("max_depth_exceeded", "NONE") =>
       http_response' = TRUE /\ rc' = "INVALID_REQUEST"
<1>1. /\ yajl_gen_err2code["ok"] = "OK"
      /\ yajl_gen_err2code["max_depth_exceeded"] = "INVALID_REQUEST"
  BY DEF yajl_gen_err2code
<1>2. /\ expat_err2code["NONE"] = "OK"
      /\ expat_err2code["FINISHED"] = "GENERIC_ERROR"
      /\ expat_err2code["SYNTAX"] = "INVALID_REQUEST"
      /\ expat_err2code["NO_MEMORY"] = "MEMORY_ERROR"
  BY DEF expat_err2code
<1> QED
  BY <1>1, <1>2 DEF queue_xml_error

\* The pieces are printed, or there was no memory and there is an error.
Printed(buf, s) ==
  \/ yajl_gen_buf' = buf \o s /\ http_response' = http_response /\ rc' = rc /\ oom' = oom
  \/ http_response' = TRUE /\ rc' \in {"OK", "GENERIC_ERROR"} /\ oom' = TRUE

\* What yajl_print_callback() leaves behind.
LEMMA Prints ==
  ASSUME NEW buf, NEW s, PrintTo(buf, s)
  PROVE  Printed(buf, s)
<1>1. CASE yajl_gen_buf' = buf \o s /\ UNCHANGED <<errVars, oom>>
  BY <1>1 DEF Printed, errVars
<1>2. CASE (\E e \in {"NONE", "FINISHED"} : queue_xml_error("ok", e)) /\ oom' = TRUE
  <2>1. queue_xml_error("ok", "NONE") \/ queue_xml_error("ok", "FINISHED")
    BY <1>2
  <2> QED
    BY <1>2, <2>1, Queued, Zenon DEF Printed
<1> QED
  BY <1>1, <1>2, Zenon DEF PrintTo
-----------------------------------------------------------------------------
(* The stacks.                                                             *)

\* bit_set() changes one bit.
LEMMA SetBit ==
  ASSUME NEW v \in [Bits -> BOOLEAN], NEW b \in Bits
  PROVE  /\ bit_set(v, b) \in [Bits -> BOOLEAN]
         /\ bit_set(v, b)[b] = TRUE
         /\ \A x \in Bits : x # b => bit_set(v, b)[x] = v[x]
  BY DEF bit_set

\* bit_clear() changes one bit.
LEMMA ClearBit ==
  ASSUME NEW v \in [Bits -> BOOLEAN], NEW b \in Bits
  PROVE  /\ bit_clear(v, b) \in [Bits -> BOOLEAN]
         /\ bit_clear(v, b)[b] = FALSE
         /\ \A x \in Bits : x # b => bit_clear(v, b)[x] = v[x]
  BY DEF bit_clear

\* The bits of a frame are in stack_boolean_info.
LEMMA FrameBits ==
  ASSUME NEW p \in Nat, p < YAJL_MAX_DEPTH
  PROVE  text_printed_bit(p) \in Bits /\ children_printed_bit(p) \in Bits
  BY ConstantsAssumption DEF text_printed_bit, children_printed_bit, Bits

\* No bit belongs to two frames, or stands for two things.
LEMMA DifferentBits ==
  ASSUME NEW p \in Nat, NEW q \in Nat
  PROVE  /\ children_printed_bit(p) # text_printed_bit(q)
         /\ p # q => children_printed_bit(p) # children_printed_bit(q)
  BY DEF text_printed_bit, children_printed_bit

\* The bits after an element started.
LEMMA Marked ==
  ASSUME NEW v \in [Bits -> BOOLEAN], stack_pos \in Nat, stack_pos + 1 < YAJL_MAX_DEPTH
  PROVE  /\ MarkElement(v) \in [Bits -> BOOLEAN]
         /\ MarkElement(v)[children_printed_bit(stack_pos + 1)] = FALSE
         /\ stack_pos > 0 => MarkElement(v)[children_printed_bit(stack_pos)] = TRUE
         /\ \A p \in 1..(stack_pos - 1) :
              MarkElement(v)[children_printed_bit(p)] = v[children_printed_bit(p)]
<1> PICK n \in Nat : n = stack_pos
  OBVIOUS
<1>1. /\ children_printed_bit(n) \in Bits
      /\ text_printed_bit(n + 1) \in Bits /\ children_printed_bit(n + 1) \in Bits
  BY FrameBits, ConstantsAssumption
<1> PICK parent \in Bits : parent = children_printed_bit(n)
  BY <1>1
<1> PICK text \in Bits : text = text_printed_bit(n + 1)
  BY <1>1
<1> PICK children \in Bits : children = children_printed_bit(n + 1)
  BY <1>1
<1> DEFINE w == IF n = 0 THEN v ELSE bit_set(v, parent)
           x == bit_clear(w, text)
           y == bit_clear(x, children)
<1>2. /\ w \in [Bits -> BOOLEAN]
      /\ n > 0 => w[parent] = TRUE
      /\ \A b \in Bits : b # parent => w[b] = v[b]
  <2>1. CASE n = 0
    BY <2>1
  <2>2. CASE n # 0
    <3>1. w = bit_set(v, parent)
      BY <2>2
    <3> HIDE DEF w
    <3>2. w \in [Bits -> BOOLEAN]
      BY <3>1, SetBit, Zenon
    <3>4. ASSUME NEW b \in Bits, b # parent PROVE w[b] = v[b]
      BY <3>1, <3>4 DEF bit_set
    <3>3. w[parent] = TRUE
      BY <3>1, SetBit, Zenon
    <3> QED
      BY <3>2, <3>3, <3>4, Zenon
  <2> QED
    BY <2>1, <2>2, Zenon
<1> HIDE DEF w
<1>3. /\ x \in [Bits -> BOOLEAN]
      /\ \A b \in Bits : b # text => x[b] = w[b]
  <2>1. x \in [Bits -> BOOLEAN]
    BY <1>2, ClearBit, Zenon
  <2>2. ASSUME NEW b \in Bits, b # text PROVE x[b] = w[b]
    BY <1>2, <2>2 DEF bit_clear
  <2> QED
    BY <2>1, <2>2, Zenon
<1> HIDE DEF x
<1>4. /\ y \in [Bits -> BOOLEAN]
      /\ y[children] = FALSE
      /\ \A b \in Bits : b # children => y[b] = x[b]
  <2>1. y \in [Bits -> BOOLEAN] /\ \A b \in Bits : b # children => y[b] = x[b]
    BY <1>3, ClearBit, Zenon
  <2>2. y[children] = FALSE
    BY <1>3, ClearBit, Zenon
  <2> QED
    BY <2>1, <2>2, Zenon
<1>5. MarkElement(v) = y
  BY DEF MarkElement, ClearFrame, w, x
<1> HIDE DEF y
<1>6. ASSUME NEW p \in 1..n
      PROVE  y[children_printed_bit(p)] = w[children_printed_bit(p)]
  <2>1. children_printed_bit(p) \in Bits
    BY FrameBits, ConstantsAssumption
  <2>2. /\ children_printed_bit(p) # text_printed_bit(n + 1)
        /\ children_printed_bit(p) # children_printed_bit(n + 1)
    BY DifferentBits
  <2> QED
    BY <2>1, <2>2, <1>3, <1>4
<1>7. ASSUME NEW p \in 1..(n - 1)
      PROVE  w[children_printed_bit(p)] = v[children_printed_bit(p)]
  <2>1. children_printed_bit(p) \in Bits
    BY FrameBits, ConstantsAssumption
  <2>2. children_printed_bit(p) # children_printed_bit(n)
    BY DifferentBits
  <2> QED
    BY <2>1, <2>2, <1>2
<1>8. n > 0 => y[children_printed_bit(n)] = TRUE
  BY <1>2, <1>6
<1>9. \A p \in 1..(n - 1) : y[children_printed_bit(p)] = v[children_printed_bit(p)]
  BY <1>6, <1>7
<1> QED
  BY <1>4, <1>5, <1>8, <1>9

\* An element is inside one map, and one array, of each of those around it.
LEMMA NewDepthIs ==
  ASSUME Types, StackInv, ~http_response
  PROVE  NewDepth = 2 * level + 1
  BY DEF Types, StackInv, NewDepth, DepthOf

\* Where the parser is in a callback.
LEMMA InCallback ==
  ASSUME IInv, NEW c \in Tokens, Consume(c)
  PROVE  /\ chunk \in [from : Nat, to : Nat]
         /\ Len(body) \in Nat
         /\ chunk.from <= Len(body) /\ Len(body) < chunk.to
         /\ IndexAfter \in Nat
         /\ pc = "parse" /\ http_response = FALSE /\ finished = FALSE
         /\ ~ahead /\ ~oom => IndexAfter = Len(body) + 1 - chunk.from
<1>1. /\ pc = "parse" /\ http_response = FALSE /\ finished = FALSE
      /\ Len(body) < chunk.to
  BY DEF IInv, Types, Consume, Take
<1>2. /\ chunk \in [from : Nat, to : Nat] /\ chunk.from \in Nat /\ chunk.to \in Nat
      /\ Len(body) \in Nat /\ fed \in Nat
  BY DEF IInv, Types
<1>3. chunk.from <= Len(body)
  BY <1>1 DEF IInv, ChunkInv, Parsing
<1>4. ~ahead /\ ~oom => fed = 0
  BY <1>1 DEF IInv, WholeInv, RightInv, Parsing
<1> QED
  BY <1>1, <1>2, <1>3, <1>4 DEF IndexAfter

\* A callback returns: the parser is still in its buffer.
LEMMA AfterCallback ==
  ASSUME IInv, NEW c \in Tokens, Consume(c), chunk' = chunk, offset' = IndexAfter
  PROVE  /\ body' \in Seq(Tokens \cup {"?"})
         /\ chunk' \in [from : Nat, to : Nat]
         /\ offset' \in Nat
         /\ ChunkInv'
         /\ ~ahead /\ ~oom => offset' <= chunk'.to - chunk'.from
<1>1. /\ body' \in Seq(Tokens \cup {"?"})
      /\ Len(body') = Len(body) + 1
  BY Consumed DEF IInv, Consume
<1>2. /\ chunk \in [from : Nat, to : Nat]
      /\ Len(body) \in Nat
      /\ chunk.from <= Len(body) /\ Len(body) < chunk.to
      /\ IndexAfter \in Nat
      /\ ~ahead /\ ~oom => IndexAfter = Len(body) + 1 - chunk.from
  BY InCallback, Zenon
<1> PICK first \in Nat : first = chunk.from
  BY <1>2
<1> PICK end \in Nat : end = chunk.to
  BY <1>2
<1>3. chunk'.from = first /\ chunk'.to = end
  OBVIOUS
<1>4. first <= Len(body) /\ Len(body) < end
  BY <1>2
<1>5. ChunkInv'
  <2>1. first <= end /\ first <= Len(body') /\ Len(body') <= end
    BY <1>1, <1>2, <1>4
  <2> QED
    BY <2>1, <1>3 DEF ChunkInv, Parsing
<1>6. ~ahead /\ ~oom => offset' <= chunk'.to - chunk'.from
  <2>1. ASSUME ~ahead /\ ~oom
        PROVE  offset' <= end - first
    <3>1. IndexAfter = Len(body) + 1 - first
      BY <1>2, <2>1
    <3> QED
      BY <3>1, <1>2, <1>4
  <2> QED
    BY <2>1, <1>3
<1> QED
  BY <1>1, <1>2, <1>5, <1>6
-----------------------------------------------------------------------------
(* Every step keeps the invariant.                                         *)

\* What a callback does to the errors and to the parser.
CallbackEnds(s) ==
  \/ /\ yajl_gen_buf' = yajl_gen_buf \o s
     /\ http_response' = FALSE /\ rc' = rc /\ oom' = oom
     /\ pc' = "parse"
  \/ /\ http_response' = TRUE /\ rc' \in {"OK", "GENERIC_ERROR"} /\ oom' = TRUE
     /\ pc' = "stopped"

\* A callback that prints ends in one of these two ways.
LEMMA PrintsAndGoesOn ==
  ASSUME NEW s, PrintTo(yajl_gen_buf, s), GoOn, http_response = FALSE
  PROVE  CallbackEnds(s)
<1>1. Printed(yajl_gen_buf, s)
  BY Prints
<1>2. CASE /\ yajl_gen_buf' = yajl_gen_buf \o s
           /\ http_response' = http_response /\ rc' = rc /\ oom' = oom
  BY <1>2 DEF CallbackEnds, GoOn
<1>3. CASE http_response' = TRUE /\ rc' \in {"OK", "GENERIC_ERROR"} /\ oom' = TRUE
  BY <1>3 DEF CallbackEnds, GoOn
<1> QED
  BY <1>1, <1>2, <1>3, Zenon DEF Printed

\* In both of them an error code comes with a text.
LEMMA ErrorsAfterCallback ==
  ASSUME IInv, NEW s, CallbackEnds(s), http_response = FALSE
  PROVE  /\ pc' \in {"parse", "stopped"}
         /\ http_response' \in BOOLEAN /\ oom' \in BOOLEAN
         /\ rc' \in {"OK", "INVALID_REQUEST", "GENERIC_ERROR", "MEMORY_ERROR"}
         /\ ErrorInv'
<1>1. rc = "OK" /\ oom \in BOOLEAN
  BY DEF IInv, ErrorInv, Types
<1>2. CASE http_response' = FALSE /\ rc' = rc /\ oom' = oom /\ pc' = "parse"
  BY <1>1, <1>2, Zenon DEF ErrorInv
<1>3. CASE /\ http_response' = TRUE /\ rc' \in {"OK", "GENERIC_ERROR"} /\ oom' = TRUE
           /\ pc' = "stopped"
  BY <1>1, <1>3 DEF ErrorInv
<1> QED
  BY <1>2, <1>3, Zenon DEF CallbackEnds

\* A token that is in its place: what is in the body is still right.
LEMMA RightToken ==
  ASSUME IInv, NEW c \in Tokens, Consume(c), ~ahead, ~oom,
         \/ c = "space" /\ level' = level
         \/ c = "text" /\ level > 0 /\ level' = level
         \/ c = "close" /\ level > 0 /\ level' = level - 1
         \/ /\ c \in {"open", "open@"} /\ level' = level + 1
            /\ 2 * (level + 1) - (IF c = "open@" THEN 0 ELSE 1) < YAJL_MAX_DEPTH
  PROVE  /\ rc = "OK" /\ fed = 0 /\ finished = FALSE /\ Len(body') # chunk.from
         /\ level > 0 => last_open_map >= 0 /\ last_open_map < Len(yajl_gen_buf)
         /\ level' = Level(body', Len(body'))
         /\ AllRight'
<1>1. /\ pc = "parse" /\ http_response = FALSE /\ finished = FALSE
      /\ Types /\ level \in Nat
  BY InCallback, Zenon DEF IInv, Types
<1>2. /\ rc = "OK" /\ fed = 0
      /\ level > 0 => last_open_map >= 0 /\ last_open_map < Len(yajl_gen_buf)
      /\ level = Level(body, Len(body))
      /\ AllRight
  BY <1>1 DEF IInv, WholeInv, RightInv, Parsing
<1>3. /\ Level(body', Len(body')) =
           IF c \in {"open", "open@"} THEN level + 1
           ELSE IF c = "close" THEN level - 1
           ELSE level
      /\ Wrong(body', Len(body')) <=>
           \/ c = "bad"
           \/ c \in {"text", "close"} /\ level = 0
           \/ /\ c \in {"open", "open@"}
              /\ 2 * (level + 1) - (IF c = "open@" THEN 0 ELSE 1) >= YAJL_MAX_DEPTH
      /\ AllRight' <=> AllRight /\ ~Wrong(body', Len(body'))
  BY <1>1, <1>2, Consumed DEF Consume
<1>4. ~Wrong(body', Len(body'))
  BY <1>1, <1>3, ConstantsAssumption
<1>5. level' = Level(body', Len(body'))
  BY <1>1, <1>3
<1>6. Len(body') # chunk.from
  <2>1. chunk.from \in Nat /\ Len(body) \in Nat /\ chunk.from <= Len(body)
    BY InCallback
  <2>2. Len(body') = Len(body) + 1
    BY <1>1, Consumed DEF Consume
  <2> PICK first \in Nat : first = chunk.from
    BY <2>1
  <2> QED
    BY <2>1, <2>2
<1> QED
  BY <1>1, <1>2, <1>3, <1>4, <1>5, <1>6

\* An element starts: its frame is new, and its parent has children.
LEMMA StartKeeps ==
  ASSUME IInv, NEW c \in Tokens, StartElement(c)
  PROVE  IInv'
<1> DEFINE s == (IF stack_pos = 0 THEN <<>> ELSE OpensChild) \o Tag(c, Len(body'))
<1>1. /\ c \in {"open", "open@"} /\ Consume(c)
      /\ AttrDepth(c) < YAJL_MAX_DEPTH
      /\ level' = level + 1 /\ stack_pos' = stack_pos + 1
      /\ depth' = NewDepth /\ last_open_map' = OpenedAt
      /\ stack_boolean_info' = MarkElement(stack_boolean_info)
      /\ PrintTo(yajl_gen_buf, s) /\ GoOn
      /\ chunk' = chunk /\ fed' = fed /\ finished' = finished /\ ahead' = ahead
  BY DEF StartElement
<1> HIDE DEF s
<1>2. /\ body' \in Seq(Tokens \cup {"?"}) /\ chunk' \in [from : Nat, to : Nat]
      /\ offset' \in Nat /\ ChunkInv'
      /\ ~ahead /\ ~oom => offset' <= chunk'.to - chunk'.from
  BY <1>1, AfterCallback DEF GoOn
<1>3. pc = "parse" /\ http_response = FALSE
  BY <1>1, InCallback, Zenon
<1>4. /\ level \in Nat /\ stack_pos \in Nat /\ stack_pos = level
      /\ IsSequence(yajl_gen_buf)
      /\ \A p \in 1..(stack_pos - 1) : stack_boolean_info[children_printed_bit(p)]
  BY <1>3 DEF IInv, Types, StackInv
<1>5. NewDepth = 2 * level + 1
  BY <1>3, NewDepthIs DEF IInv
<1>6. /\ 2 * (level + 1) - (IF c = "open@" THEN 0 ELSE 1) < YAJL_MAX_DEPTH
      /\ stack_pos + 1 < YAJL_MAX_DEPTH
  BY <1>1, <1>4, <1>5, ConstantsAssumption DEF AttrDepth
<1>7. CallbackEnds(s)
  BY <1>1, <1>3, PrintsAndGoesOn, Zenon
<1>8. /\ pc' \in {"parse", "stopped"}
      /\ http_response' \in BOOLEAN /\ oom' \in BOOLEAN
      /\ rc' \in {"OK", "INVALID_REQUEST", "GENERIC_ERROR", "MEMORY_ERROR"}
      /\ ErrorInv'
  BY <1>3, <1>7, ErrorsAfterCallback, Zenon
<1>9. /\ stack_boolean_info' \in [Bits -> BOOLEAN]
      /\ stack_boolean_info'[children_printed_bit(stack_pos + 1)] = FALSE
      /\ stack_pos > 0 => stack_boolean_info'[children_printed_bit(stack_pos)] = TRUE
      /\ \A p \in 1..(stack_pos - 1) :
           stack_boolean_info'[children_printed_bit(p)]
             = stack_boolean_info[children_printed_bit(p)]
  <2>1. stack_boolean_info \in [Bits -> BOOLEAN]
    BY DEF IInv, Types
  <2> QED
    BY <1>1, <1>4, <1>6, <2>1, Marked, Zenon
<1>10. IsSequence(s) /\ Len(s) \in Nat /\ Len(s) > 0
  <2> DEFINE before == IF stack_pos = 0 THEN <<>> ELSE OpensChild
             tag == Tag(c, Len(body'))
  <2>1. IsSequence(before) /\ IsSequence(tag) /\ Len(tag) > 0
    BY Pieces, Zenon
  <2>2. s = before \o tag
    BY DEF s
  <2> HIDE DEF before, tag
  <2> QED
    BY <2>1, <2>2, Concat
<1>11. Len(yajl_gen_buf) \in Nat
  BY <1>4, <1>10, Concat
<1>12. Types'
  <2>1. last_open_map' \in Nat \cup {NO_JSON_LAST_OPEN_MAP}
    BY <1>1, <1>11 DEF OpenedAt, IInv, Types
  <2>2. fed' \in Nat /\ level' \in Nat /\ stack_pos' \in Nat /\ depth' \in Nat
    BY <1>1, <1>4, <1>5 DEF IInv, Types
  <2>3. ahead' \in BOOLEAN /\ finished' \in BOOLEAN
    BY <1>1 DEF IInv, Types
  <2> QED
    BY <1>2, <1>8, <1>9, <2>1, <2>2, <2>3 DEF Types
<1>13. StackInv'
  <2>1. stack_pos' < YAJL_MAX_DEPTH
    BY <1>1, <1>6
  <2>2. ASSUME ~http_response'
        PROVE  /\ stack_pos' = level'
               /\ depth' = DepthOf(level', children_printed')
               /\ \A p \in 1..(stack_pos' - 1) :
                    stack_boolean_info'[children_printed_bit(p)]
               /\ pc' = "parse"
               /\ IsSequence(yajl_gen_buf')
    <3>1. pc' = "parse" /\ yajl_gen_buf' = yajl_gen_buf \o s
      BY <1>7, <2>2 DEF CallbackEnds
    <3>2. IsSequence(yajl_gen_buf')
      BY <3>1, <1>4, <1>10, Concat
    <3>3. children_printed' = FALSE
      BY <1>1, <1>9 DEF children_printed
    <3>4. depth' = DepthOf(level', children_printed')
      BY <1>1, <1>4, <1>5, <3>3 DEF DepthOf
    <3>5. ASSUME NEW p \in 1..stack_pos
          PROVE  stack_boolean_info'[children_printed_bit(p)]
      <4>1. p \in 1..(stack_pos - 1) \/ (p = stack_pos /\ stack_pos > 0)
        BY <1>4
      <4> QED
        BY <4>1, <1>4, <1>9, Zenon
    <3>6. stack_pos' = level' /\ 1..(stack_pos' - 1) = 1..stack_pos
      BY <1>1, <1>4
    <3> QED
      BY <3>1, <3>2, <3>4, <3>5, <3>6, Zenon
  <2> QED
    BY <2>1, <2>2 DEF StackInv
<1>14. WholeInv'
  <2>1. SUFFICES ASSUME ~ahead', ~oom'
                 PROVE  /\ http_response' = FALSE
                        /\ RightInv'
    BY <1>1, <1>2, <1>7, <1>8 DEF WholeInv, CallbackEnds
  <2>2. /\ pc' = "parse" /\ yajl_gen_buf' = yajl_gen_buf \o s
        /\ http_response' = FALSE /\ rc' = rc /\ ~oom /\ ~ahead
    BY <1>1, <1>7, <2>1 DEF CallbackEnds
  <2>3. /\ rc = "OK" /\ fed = 0 /\ finished = FALSE /\ Len(body') # chunk.from
        /\ level > 0 => last_open_map >= 0 /\ last_open_map < Len(yajl_gen_buf)
        /\ level' = Level(body', Len(body'))
        /\ AllRight'
    BY <1>1, <1>6, <2>2, RightToken
  <2>4. Len(yajl_gen_buf') = Len(yajl_gen_buf) + Len(s)
    BY <1>4, <1>10, <2>2, Concat
  <2>5. last_open_map' >= 0 /\ last_open_map' < Len(yajl_gen_buf')
    <3>1. CASE stack_pos = 0
      BY <1>1, <1>10, <1>11, <2>4, <3>1 DEF OpenedAt
    <3>2. CASE stack_pos # 0
      <4>1. last_open_map' = last_open_map /\ last_open_map \in Nat \cup {-1}
        BY <1>1, <3>2 DEF OpenedAt, IInv, Types, NO_JSON_LAST_OPEN_MAP
      <4> QED
        BY <1>4, <1>10, <1>11, <2>3, <2>4, <3>2, <4>1
    <3> QED
      BY <3>1, <3>2
  <2>6. level' > 0
    BY <1>1, <1>4
  <2> QED
    BY <1>1, <2>2, <2>3, <2>5, <2>6 DEF RightInv, Parsing
<1> QED
  BY <1>2, <1>8, <1>12, <1>13, <1>14 DEF IInv

\* An element is too deep: its token is wrong, and the request is refused.
LEMMA TooDeepKeeps ==
  ASSUME IInv, NEW c \in Tokens, StartTooDeep(c)
  PROVE  IInv'
<1>1. /\ c \in {"open", "open@"} /\ Consume(c)
      /\ AttrDepth(c) >= YAJL_MAX_DEPTH
      /\ level' = level + 1 /\ depth' = YAJL_MAX_DEPTH
      /\ last_open_map' = NO_JSON_LAST_OPEN_MAP
      /\ \/ NewDepth >= YAJL_MAX_DEPTH /\ UNCHANGED <<stack_pos, stack_boolean_info>>
         \/ /\ NewDepth < YAJL_MAX_DEPTH /\ stack_pos' = stack_pos + 1
            /\ stack_boolean_info' = MarkElement(stack_boolean_info)
      /\ queue_xml_error("max_depth_exceeded", "NONE") /\ GoOn
      /\ chunk' = chunk /\ fed' = fed /\ finished' = finished
      /\ ahead' = ahead /\ oom' = oom
  <2>1. NewDepth >= YAJL_MAX_DEPTH \/ NewDepth < YAJL_MAX_DEPTH
    <3>1. Types /\ StackInv /\ ~http_response /\ level \in Nat
      BY InCallback, Zenon DEF StartTooDeep, IInv, Types
    <3> QED
      BY <3>1, NewDepthIs, ConstantsAssumption
  <2> QED
    BY <2>1 DEF StartTooDeep
<1>2. /\ body' \in Seq(Tokens \cup {"?"}) /\ chunk' \in [from : Nat, to : Nat]
      /\ offset' \in Nat /\ ChunkInv'
      /\ ~ahead /\ ~oom => offset' <= chunk'.to - chunk'.from
  BY <1>1, AfterCallback DEF GoOn
<1>3. pc = "parse" /\ http_response = FALSE
  BY <1>1, InCallback, Zenon
<1>4. http_response' = TRUE /\ rc' = "INVALID_REQUEST" /\ pc' = "stopped"
  BY <1>1, Queued DEF GoOn
<1>5. /\ level \in Nat /\ stack_pos \in Nat /\ stack_pos = level
      /\ stack_pos < YAJL_MAX_DEPTH
      /\ stack_boolean_info \in [Bits -> BOOLEAN]
  BY <1>3 DEF IInv, Types, StackInv
<1>6. NewDepth = 2 * level + 1
  BY <1>3, NewDepthIs DEF IInv
<1>7. /\ stack_pos' \in Nat /\ stack_pos' < YAJL_MAX_DEPTH
      /\ stack_boolean_info' \in [Bits -> BOOLEAN]
  <2>1. CASE UNCHANGED <<stack_pos, stack_boolean_info>>
    BY <1>5, <2>1
  <2>2. CASE /\ NewDepth < YAJL_MAX_DEPTH /\ stack_pos' = stack_pos + 1
             /\ stack_boolean_info' = MarkElement(stack_boolean_info)
    <3>1. stack_pos + 1 < YAJL_MAX_DEPTH \/ stack_pos = 0
      BY <1>5, <1>6, <2>2, ConstantsAssumption
    <3>2. stack_pos + 1 < YAJL_MAX_DEPTH /\ stack_pos' \in Nat
      BY <3>1, <1>5, <2>2, ConstantsAssumption
    <3> QED
      BY <3>2, <1>5, <2>2, Marked, Zenon
  <2> QED
    BY <1>1, <2>1, <2>2
<1>8. Types'
  <2>1. fed' \in Nat /\ level' \in Nat /\ depth' \in Nat
    BY <1>1, <1>5, ConstantsAssumption DEF IInv, Types
  <2>2. ahead' \in BOOLEAN /\ finished' \in BOOLEAN /\ oom' \in BOOLEAN
    BY <1>1 DEF IInv, Types
  <2> QED
    BY <1>1, <1>2, <1>4, <1>7, <2>1, <2>2 DEF Types
<1>9. StackInv' /\ ErrorInv'
  BY <1>4, <1>7 DEF StackInv, ErrorInv
<1>10. WholeInv'
  <2>1. SUFFICES ASSUME ~ahead, ~oom
                 PROVE  ~AllRight'
    BY <1>1, <1>2, <1>4 DEF WholeInv, WrongInv
  <2>2. level = Level(body, Len(body))
    BY <1>3, <2>1 DEF IInv, WholeInv, RightInv
  <2>3. 2 * (level + 1) - (IF c = "open@" THEN 0 ELSE 1) >= YAJL_MAX_DEPTH
    BY <1>1, <1>5, <1>6, ConstantsAssumption DEF AttrDepth
  <2>4. Wrong(body', Len(body')) /\ (AllRight' <=> AllRight /\ ~Wrong(body', Len(body')))
    <3>1. Types
      BY DEF IInv
    <3> QED
      BY <1>1, <2>2, <2>3, <3>1, Consumed DEF Consume
  <2> QED
    BY <2>4
<1> QED
  BY <1>2, <1>8, <1>9, <1>10 DEF IInv

\* expat refuses a token, or has no memory.
LEMMA ParseErrorKeeps ==
  ASSUME IInv, NEW c \in Tokens, ParseError(c)
  PROVE  IInv'
<1>1. /\ Consume(c) /\ pc' = "parse"
      /\ \/ /\ c = "bad" \/ (c \in {"close", "text"} /\ level = 0)
            /\ queue_xml_error("ok", "SYNTAX")
            /\ oom' = oom
         \/ queue_xml_error("ok", "NO_MEMORY") /\ oom' = TRUE
      /\ chunk' = chunk /\ fed' = fed /\ finished' = finished
      /\ level' = level /\ offset' = offset
      /\ UNCHANGED genVars /\ ahead' = ahead
  BY DEF ParseError, expatVars
<1>2. /\ depth' = depth /\ yajl_gen_buf' = yajl_gen_buf /\ last_open_map' = last_open_map
      /\ stack_pos' = stack_pos /\ stack_boolean_info' = stack_boolean_info
  BY <1>1 DEF genVars
<1>3. pc = "parse" /\ http_response = FALSE
  BY <1>1, InCallback, Zenon
<1>4. /\ http_response' = TRUE /\ oom' \in BOOLEAN
      /\ rc' \in {"INVALID_REQUEST", "MEMORY_ERROR"}
  BY <1>1, Queued, Zenon DEF IInv, Types
<1>5. Types' /\ ChunkInv'
  <2>1. /\ body' \in Seq(Tokens \cup {"?"})
        /\ Len(body') = Len(body) + 1
    BY <1>1, Consumed DEF IInv, Consume
  <2>2. /\ chunk \in [from : Nat, to : Nat] /\ Len(body) \in Nat
        /\ chunk.from <= Len(body) /\ Len(body) < chunk.to
    BY <1>1, InCallback, Zenon
  <2>3. ChunkInv'
    <3> PICK first \in Nat : first = chunk.from
      BY <2>2
    <3> PICK end \in Nat : end = chunk.to
      BY <2>2
    <3>1. first <= end /\ first <= Len(body') /\ Len(body') <= end
      BY <2>1, <2>2
    <3> QED
      BY <3>1, <1>1 DEF ChunkInv, Parsing
  <2>4. Types'
    BY <1>1, <1>2, <1>4, <2>1 DEF IInv, Types
  <2> QED
    BY <2>3, <2>4
<1>6. StackInv' /\ ErrorInv'
  BY <1>1, <1>2, <1>4 DEF IInv, StackInv, ErrorInv
<1>7. WholeInv'
  <2>1. SUFFICES ASSUME ~ahead, ~oom'
                 PROVE  WrongInv'
    BY <1>1, <1>4 DEF WholeInv
  <2>2. /\ c = "bad" \/ (c \in {"close", "text"} /\ level = 0)
        /\ rc' = "INVALID_REQUEST" /\ ~oom
    BY <1>1, <2>1, Queued
  <2>3. level = Level(body, Len(body))
    BY <1>3, <2>1, <2>2 DEF IInv, WholeInv, RightInv
  <2>4. Wrong(body', Len(body')) /\ (AllRight' <=> AllRight /\ ~Wrong(body', Len(body')))
    <3>1. Types
      BY DEF IInv
    <3> QED
      BY <1>1, <2>2, <2>3, <3>1, Consumed DEF Consume
  <2> QED
    BY <2>2, <2>4 DEF WrongInv
<1> QED
  BY <1>5, <1>6, <1>7 DEF IInv

\* A callback inside a document prints and goes on: the message that is open
\* stays open, and it gets longer.
LEMMA InnerKeepsWhole ==
  ASSUME IInv, NEW c \in Tokens, NEW s, Consume(c), CallbackEnds(s), IsSequence(s),
         \/ c = "text" /\ level > 0 /\ level' = level
         \/ c = "close" /\ level > 1 /\ level' = level - 1,
         chunk' = chunk, fed' = fed, finished' = finished, ahead' = ahead,
         last_open_map' = last_open_map, offset' = IndexAfter
  PROVE  /\ WholeInv'
         /\ ~http_response' => IsSequence(yajl_gen_buf')
<1>1. pc = "parse" /\ http_response = FALSE /\ level \in Nat
  BY InCallback, Zenon DEF IInv, Types
<1>2. IsSequence(yajl_gen_buf)
  BY <1>1 DEF IInv, StackInv
<1>3. ~ahead /\ ~oom => offset' <= chunk'.to - chunk'.from
  BY AfterCallback
<1>4. ~http_response' => IsSequence(yajl_gen_buf')
  BY <1>2, Concat, Zenon DEF CallbackEnds
<1>5. WholeInv'
  <2>1. SUFFICES ASSUME ~ahead', ~oom'
                 PROVE  RightInv'
    BY <1>3 DEF WholeInv, CallbackEnds
  <2>2. /\ pc' = "parse" /\ yajl_gen_buf' = yajl_gen_buf \o s
        /\ rc' = rc /\ ~oom /\ ~ahead
    BY <2>1 DEF CallbackEnds
  <2>3. /\ rc = "OK" /\ fed = 0 /\ finished = FALSE /\ Len(body') # chunk.from
        /\ level > 0 => last_open_map >= 0 /\ last_open_map < Len(yajl_gen_buf)
        /\ level' = Level(body', Len(body'))
        /\ AllRight'
    <3>1. \/ c = "text" /\ level > 0 /\ level' = level
          \/ c = "close" /\ level > 0 /\ level' = level - 1
      BY <1>1
    <3> QED
      BY <2>2, <3>1, RightToken, Zenon
  <2>4. level > 0 /\ level' > 0
    BY <1>1
  <2>5. last_open_map' >= 0 /\ last_open_map' < Len(yajl_gen_buf')
    <3>1. /\ Len(yajl_gen_buf) \in Nat /\ Len(s) \in Nat
          /\ Len(yajl_gen_buf') = Len(yajl_gen_buf) + Len(s)
      BY <1>2, <2>2, Concat
    <3>2. last_open_map \in Nat \cup {-1}
      BY DEF IInv, Types, NO_JSON_LAST_OPEN_MAP
    <3> QED
      BY <2>3, <2>4, <3>1, <3>2
  <2> QED
    BY <2>2, <2>3, <2>4, <2>5 DEF RightInv, Parsing
<1> QED
  BY <1>4, <1>5

\* A text changes no bit that tells whether there are children.
LEMMA FirstTextKeeps ==
  ASSUME IInv, FirstText
  PROVE  IInv'
<1> DEFINE s == <<<<IF children_printed THEN "tail" ELSE "text", Len(body')>>>>
<1> PICK c \in Tokens : c = "text"
  BY DEF Tokens
<1>1. /\ Consume(c) /\ level > 0
      /\ stack_boolean_info' = bit_set(stack_boolean_info, text_printed_bit(stack_pos))
      /\ PrintTo(yajl_gen_buf, s) /\ GoOn
      /\ chunk' = chunk /\ fed' = fed /\ finished' = finished
      /\ level' = level /\ depth' = depth
      /\ last_open_map' = last_open_map /\ stack_pos' = stack_pos /\ ahead' = ahead
  BY DEF FirstText
<1>2. IsSequence(s)
  BY Pieces
<1> HIDE DEF s
<1>3. /\ body' \in Seq(Tokens \cup {"?"}) /\ chunk' \in [from : Nat, to : Nat]
      /\ offset' \in Nat /\ ChunkInv' /\ offset' = IndexAfter
  BY <1>1, AfterCallback DEF GoOn
<1>4. pc = "parse" /\ http_response = FALSE
  BY <1>1, InCallback, Zenon
<1>5. CallbackEnds(s)
  BY <1>1, <1>4, PrintsAndGoesOn, Zenon
<1>6. /\ pc' \in {"parse", "stopped"}
      /\ http_response' \in BOOLEAN /\ oom' \in BOOLEAN
      /\ rc' \in {"OK", "INVALID_REQUEST", "GENERIC_ERROR", "MEMORY_ERROR"}
      /\ ErrorInv'
  BY <1>4, <1>5, ErrorsAfterCallback, Zenon
<1>7. WholeInv' /\ (~http_response' => IsSequence(yajl_gen_buf'))
  BY <1>1, <1>2, <1>3, <1>5, InnerKeepsWhole
<1>8. /\ stack_pos \in Nat /\ stack_pos < YAJL_MAX_DEPTH
      /\ stack_boolean_info \in [Bits -> BOOLEAN]
  BY DEF IInv, Types, StackInv
<1> PICK b \in Bits : b = text_printed_bit(stack_pos)
  BY <1>8, FrameBits
<1>9. stack_boolean_info' \in [Bits -> BOOLEAN]
  BY <1>1, <1>8, SetBit, Zenon
<1>10. \A p \in 0..stack_pos :
         stack_boolean_info'[children_printed_bit(p)]
           = stack_boolean_info[children_printed_bit(p)]
  <2>1. SUFFICES ASSUME NEW p \in 0..stack_pos
                 PROVE  stack_boolean_info'[children_printed_bit(p)]
                          = stack_boolean_info[children_printed_bit(p)]
    OBVIOUS
  <2>2. children_printed_bit(p) \in Bits
    BY <1>8, FrameBits, ConstantsAssumption
  <2>3. children_printed_bit(p) # b
    BY <1>8, DifferentBits
  <2> QED
    BY <1>1, <1>8, <2>2, <2>3 DEF bit_set
<1>11. Types'
  <2>1. /\ fed' \in Nat /\ level' \in Nat /\ depth' \in Nat /\ stack_pos' \in Nat
        /\ last_open_map' \in Nat \cup {NO_JSON_LAST_OPEN_MAP}
        /\ ahead' \in BOOLEAN /\ finished' \in BOOLEAN
    BY <1>1 DEF IInv, Types
  <2> QED
    BY <1>3, <1>6, <1>9, <2>1 DEF Types
<1>12. StackInv'
  <2>1. /\ stack_pos = level /\ depth = DepthOf(level, children_printed)
        /\ \A p \in 1..(stack_pos - 1) : stack_boolean_info[children_printed_bit(p)]
    BY <1>4 DEF IInv, StackInv
  <2>2. children_printed' = children_printed
    BY <1>1, <1>8, <1>10 DEF children_printed
  <2>3. ASSUME NEW p \in 1..(stack_pos - 1)
        PROVE  stack_boolean_info'[children_printed_bit(p)]
    <3>1. p \in 0..stack_pos
      BY <1>8
    <3> QED
      BY <1>10, <2>1, <3>1, Zenon
  <2>4. ~http_response' => pc' = "parse"
    BY <1>5 DEF CallbackEnds
  <2>5. depth' = DepthOf(level', children_printed')
    BY <1>1, <2>1, <2>2
  <2> QED
    BY <1>1, <1>7, <1>8, <2>1, <2>3, <2>4, <2>5 DEF StackInv
<1> QED
  BY <1>3, <1>6, <1>7, <1>11, <1>12 DEF IInv

\* A child ends: its parent has its bit set, as IInv says.
LEMMA EndElementKeeps ==
  ASSUME IInv, EndElement
  PROVE  IInv'
<1> PICK c \in Tokens : c = "close"
  BY DEF Tokens
<1>1. /\ Consume(c) /\ level > 1
      /\ level' = level - 1 /\ depth' = ClosedDepth /\ stack_pos' = stack_pos - 1
      /\ PrintTo(yajl_gen_buf, ClosesChildren) /\ GoOn
      /\ chunk' = chunk /\ fed' = fed /\ finished' = finished
      /\ last_open_map' = last_open_map
      /\ stack_boolean_info' = stack_boolean_info /\ ahead' = ahead
  BY DEF EndElement
<1>2. IsSequence(ClosesChildren)
  BY Pieces, Zenon
<1>3. /\ body' \in Seq(Tokens \cup {"?"}) /\ chunk' \in [from : Nat, to : Nat]
      /\ offset' \in Nat /\ ChunkInv' /\ offset' = IndexAfter
  BY <1>1, AfterCallback DEF GoOn
<1>4. pc = "parse" /\ http_response = FALSE
  BY <1>1, InCallback, Zenon
<1>5. CallbackEnds(ClosesChildren)
  BY <1>1, <1>4, PrintsAndGoesOn, Zenon
<1>6. /\ pc' \in {"parse", "stopped"}
      /\ http_response' \in BOOLEAN /\ oom' \in BOOLEAN
      /\ rc' \in {"OK", "INVALID_REQUEST", "GENERIC_ERROR", "MEMORY_ERROR"}
      /\ ErrorInv'
  BY <1>4, <1>5, ErrorsAfterCallback, Zenon
<1>7. WholeInv' /\ (~http_response' => IsSequence(yajl_gen_buf'))
  BY <1>1, <1>2, <1>3, <1>5, InnerKeepsWhole
<1>8. /\ level \in Nat /\ stack_pos \in Nat /\ stack_pos < YAJL_MAX_DEPTH
      /\ stack_pos = level /\ depth = DepthOf(level, children_printed)
      /\ \A p \in 1..(stack_pos - 1) : stack_boolean_info[children_printed_bit(p)]
  BY <1>4 DEF IInv, Types, StackInv
<1>9. depth' = 2 * level - 1
  BY <1>1, <1>8 DEF ClosedDepth, DepthOf
<1>10. Types'
  <2>1. fed' \in Nat /\ level' \in Nat /\ depth' \in Nat /\ stack_pos' \in Nat
    BY <1>1, <1>8, <1>9 DEF IInv, Types
  <2>2. /\ last_open_map' \in Nat \cup {NO_JSON_LAST_OPEN_MAP}
        /\ ahead' \in BOOLEAN /\ finished' \in BOOLEAN
        /\ stack_boolean_info' \in [Bits -> BOOLEAN]
    BY <1>1 DEF IInv, Types
  <2> QED
    BY <1>3, <1>6, <2>1, <2>2 DEF Types
<1>11. StackInv'
  <2>1. stack_pos - 1 \in 1..(stack_pos - 1)
    BY <1>1, <1>8
  <2>2. children_printed'
    BY <1>1, <1>8, <2>1 DEF children_printed
  <2>3. depth' = DepthOf(level', children_printed')
    BY <1>1, <1>8, <1>9, <2>2 DEF DepthOf
  <2>4. ~http_response' => pc' = "parse"
    BY <1>5 DEF CallbackEnds
  <2>5. \A p \in 1..(stack_pos' - 1) : p \in 1..(stack_pos - 1)
    BY <1>1, <1>8
  <2>6. stack_pos' = level' /\ stack_pos' < YAJL_MAX_DEPTH
    BY <1>1, <1>8, ConstantsAssumption
  <2> QED
    BY <1>1, <1>7, <1>8, <2>3, <2>4, <2>5, <2>6 DEF StackInv
<1> QED
  BY <1>3, <1>6, <1>7, <1>10, <1>11 DEF IInv

\* More text: the buffer is not empty, because a message is open in it.
LEMMA MoreTextKeeps ==
  ASSUME IInv, MoreText
  PROVE  IInv'
<1> PICK c \in Tokens : c = "text"
  BY DEF Tokens
<1>1. /\ Consume(c) /\ level > 0
      /\ chunk' = chunk /\ fed' = fed /\ finished' = finished
      /\ level' = level /\ depth' = depth
      /\ last_open_map' = last_open_map /\ stack_pos' = stack_pos
      /\ stack_boolean_info' = stack_boolean_info /\ ahead' = ahead
  BY DEF MoreText
<1>2. pc = "parse" /\ http_response = FALSE /\ Types /\ level \in Nat
  BY <1>1, InCallback, Zenon DEF IInv, Types
<1>3. IsSequence(yajl_gen_buf) /\ rc = "OK"
  BY <1>2 DEF IInv, StackInv, ErrorInv
<1>4. ~ahead /\ ~oom =>
        /\ rc = "OK" /\ fed = 0 /\ finished = FALSE /\ Len(body') # chunk.from
        /\ last_open_map >= 0 /\ last_open_map < Len(yajl_gen_buf)
        /\ level' = Level(body', Len(body'))
        /\ AllRight'
  BY <1>1, <1>2, RightToken
<1>5. /\ offset' \in {offset, IndexAfter}
      /\ \/ /\ yajl_gen_buf = <<>> /\ yajl_gen_buf' = yajl_gen_buf /\ pc' = "crashed"
            /\ http_response' = http_response /\ rc' = rc /\ oom' = oom
         \/ /\ yajl_gen_buf # <<>> /\ pc' = "parse"
            /\ \E e : yajl_gen_buf' = [yajl_gen_buf EXCEPT ![Len(yajl_gen_buf)] = e]
            /\ http_response' = http_response /\ rc' = rc /\ oom' \in {oom, TRUE}
         \/ /\ http_response' = TRUE /\ rc' = "OK" /\ oom' = TRUE /\ pc' = "stopped"
            /\ yajl_gen_buf' = yajl_gen_buf
  <2>1. CASE /\ yajl_gen_buf = <<>> /\ pc' = "crashed"
             /\ UNCHANGED <<offset, yajl_gen_buf, errVars, oom>>
    BY <2>1 DEF errVars
  <2>2. CASE /\ yajl_gen_buf # <<>>
             /\ yajl_gen_buf' = [yajl_gen_buf EXCEPT ![Len(yajl_gen_buf)] =
                                    Append(@, Len(body'))]
             /\ UNCHANGED <<errVars, oom>>
             /\ GoOn
    <3>1. \E e : yajl_gen_buf' = [yajl_gen_buf EXCEPT ![Len(yajl_gen_buf)] = e]
      BY <2>2, Zenon
    <3> QED
      BY <1>2, <2>2, <3>1, Zenon DEF errVars, GoOn
  <2>3. CASE /\ yajl_gen_buf # <<>>
             /\ yajl_gen_buf' = [yajl_gen_buf EXCEPT ![Len(yajl_gen_buf)] =
                                    Append(@, "unquoted")]
             /\ oom' = TRUE
             /\ UNCHANGED errVars
             /\ GoOn
    <3>1. \E e : yajl_gen_buf' = [yajl_gen_buf EXCEPT ![Len(yajl_gen_buf)] = e]
      BY <2>3, Zenon
    <3> QED
      BY <1>2, <2>3, <3>1, Zenon DEF errVars, GoOn
  <2>4. CASE queue_xml_error("ok", "NONE") /\ oom' = TRUE /\ GoOn /\ UNCHANGED yajl_gen_buf
    BY <2>4, Queued DEF GoOn
  <2> QED
    BY <2>1, <2>2, <2>3, <2>4, Zenon DEF MoreText
<1>6. /\ body' \in Seq(Tokens \cup {"?"}) /\ Len(body') = Len(body) + 1
  BY <1>1, <1>2, Consumed DEF Consume
<1>7. /\ chunk \in [from : Nat, to : Nat] /\ Len(body) \in Nat
      /\ chunk.from <= Len(body) /\ Len(body) < chunk.to
      /\ IndexAfter \in Nat
      /\ ~ahead /\ ~oom => IndexAfter = Len(body) + 1 - chunk.from
  BY <1>1, InCallback, Zenon
<1>8. ChunkInv'
  <2> PICK first \in Nat : first = chunk.from
    BY <1>7
  <2> PICK end \in Nat : end = chunk.to
    BY <1>7
  <2>1. first <= end /\ first <= Len(body') /\ Len(body') <= end
    BY <1>6, <1>7
  <2> QED
    BY <2>1, <1>1 DEF ChunkInv, Parsing
<1>9. /\ http_response' \in BOOLEAN /\ oom' \in BOOLEAN /\ rc' = "OK"
      /\ pc' \in {"parse", "stopped", "crashed"}
      /\ ~http_response' => pc' # "stopped"
  BY <1>2, <1>3, <1>5, Zenon DEF Types
<1>10. Types'
  <2>1. /\ fed' \in Nat /\ level' \in Nat /\ depth' \in Nat /\ stack_pos' \in Nat
        /\ last_open_map' \in Nat \cup {NO_JSON_LAST_OPEN_MAP}
        /\ stack_boolean_info' \in [Bits -> BOOLEAN]
        /\ chunk' \in [from : Nat, to : Nat] /\ offset' \in Nat
    BY <1>1, <1>2, <1>5, <1>7 DEF Types
  <2>2. ahead' \in BOOLEAN /\ finished' \in BOOLEAN
    BY <1>1, <1>2 DEF Types
  <2> QED
    BY <1>6, <1>9, <2>1, <2>2 DEF Types
<1>11. IsSequence(yajl_gen_buf')
       /\ (pc' # "crashed" => Len(yajl_gen_buf') = Len(yajl_gen_buf))
  <2>1. CASE yajl_gen_buf' = yajl_gen_buf
    BY <2>1, <1>3
  <2>2. CASE /\ yajl_gen_buf # <<>>
             /\ \E e : yajl_gen_buf' = [yajl_gen_buf EXCEPT ![Len(yajl_gen_buf)] = e]
    <3> PICK e : yajl_gen_buf' = [yajl_gen_buf EXCEPT ![Len(yajl_gen_buf)] = e]
      BY <2>2, Zenon
    <3>1. /\ IsSequence([yajl_gen_buf EXCEPT ![Len(yajl_gen_buf)] = e])
          /\ Len([yajl_gen_buf EXCEPT ![Len(yajl_gen_buf)] = e]) = Len(yajl_gen_buf)
      BY <2>2, <1>3, ChangeLast, Zenon
    <3> QED
      BY <3>1, Zenon
  <2> QED
    BY <1>5, <2>1, <2>2, Zenon
<1>12. StackInv'
  <2>1. children_printed' = children_printed
    BY <1>1 DEF children_printed
  <2>2. /\ stack_pos < YAJL_MAX_DEPTH
        /\ stack_pos = level /\ depth = DepthOf(level, children_printed)
        /\ \A p \in 1..(stack_pos - 1) : stack_boolean_info[children_printed_bit(p)]
    BY <1>2 DEF IInv, StackInv
  <2>3. depth' = DepthOf(level', children_printed')
    BY <1>1, <2>1, <2>2
  <2> QED
    BY <1>1, <1>9, <1>11, <2>2, <2>3 DEF StackInv
<1>13. ErrorInv'
  BY <1>9 DEF ErrorInv
<1>14. WholeInv'
  <2>1. SUFFICES ASSUME ~ahead', ~oom'
                 PROVE  pc' = "parse" /\ http_response' = FALSE /\ RightInv'
    BY DEF WholeInv
  <2>2. ~ahead /\ ~oom /\ http_response' = FALSE /\ pc' \in {"parse", "crashed"}
    <3>1. oom' # TRUE /\ oom \in BOOLEAN
      BY <1>2, <2>1, Zenon DEF Types
    <3>2. /\ http_response' = http_response /\ oom' \in {oom, TRUE}
          /\ pc' \in {"parse", "crashed"}
      BY <1>5, <3>1, Zenon
    <3>3. ~oom
      BY <2>1, <3>1, <3>2, Zenon
    <3> QED
      BY <1>1, <1>2, <2>1, <3>2, <3>3
  <2>3. /\ last_open_map >= 0 /\ last_open_map < Len(yajl_gen_buf)
        /\ fed = 0 /\ finished = FALSE /\ Len(body') # chunk.from
        /\ level' = Level(body', Len(body')) /\ AllRight'
    BY <1>4, <2>2
  <2>4. pc' # "crashed"
    <3>1. last_open_map \in Nat \cup {-1}
      BY <1>2 DEF Types, NO_JSON_LAST_OPEN_MAP
    <3>2. yajl_gen_buf # <<>>
      BY <2>3, <3>1
    <3> QED
      BY <1>5, <3>2, Zenon
  <2>5. last_open_map' >= 0 /\ last_open_map' < Len(yajl_gen_buf')
    BY <1>1, <1>11, <2>3, <2>4
  <2> QED
    BY <1>1, <1>9, <2>2, <2>3, <2>4, <2>5 DEF RightInv, Parsing
<1> QED
  BY <1>8, <1>10, <1>12, <1>13, <1>14 DEF IInv

\* A document ends: its message is not empty, and the offset is its end.
LEMMA EndRootKeeps ==
  ASSUME IInv, NEW added \in BOOLEAN, EndRoot(added)
  PROVE  IInv'
<1> DEFINE s == ClosesChildren \o <<<<"map_close">>>>
<1> PICK c \in Tokens : c = "close"
  BY DEF Tokens
<1>1. /\ Consume(c) /\ level = 1
      /\ level' = 0 /\ stack_pos' = 0 /\ depth' = 0
      /\ \/ added /\ PrintTo(yajl_gen_buf, s)
         \/ /\ ~added /\ yajl_gen_buf' = yajl_gen_buf \o s
            /\ queue_xml_error("ok", "NONE") /\ oom' = TRUE
      /\ last_open_map' = NO_JSON_LAST_OPEN_MAP
      /\ pc' \in IF last_open_map >= 0 /\ Len(yajl_gen_buf') > last_open_map
                 THEN {"stopped", "epilog"} ELSE {"crashed"}
      /\ offset' = IndexAfter
      /\ chunk' = chunk /\ fed' = fed /\ finished' = finished
      /\ stack_boolean_info' = stack_boolean_info /\ ahead' = ahead
  BY Zenon DEF EndRoot
<1>2. IsSequence(s) /\ Len(s) \in Nat
  <2>1. IsSequence(ClosesChildren) /\ IsSequence(<<<<"map_close">>>>)
    BY Pieces
  <2> QED
    BY <2>1, Concat
<1> HIDE DEF s
<1>3. pc = "parse" /\ http_response = FALSE /\ Types
  BY <1>1, InCallback, Zenon DEF IInv
<1>4. IsSequence(yajl_gen_buf) /\ rc = "OK"
  BY <1>3 DEF IInv, StackInv, ErrorInv
<1>5. \/ /\ yajl_gen_buf' = yajl_gen_buf \o s
         /\ http_response' = FALSE /\ rc' = rc /\ oom' = oom
      \/ http_response' = TRUE /\ rc' \in {"OK", "GENERIC_ERROR"} /\ oom' = TRUE
  <2>1. CASE PrintTo(yajl_gen_buf, s)
    BY <1>3, <2>1, Prints, Zenon DEF Printed
  <2>2. CASE queue_xml_error("ok", "NONE") /\ oom' = TRUE
    BY <2>2, Queued
  <2> QED
    BY <1>1, <2>1, <2>2, Zenon
<1>6. /\ body' \in Seq(Tokens \cup {"?"}) /\ chunk' \in [from : Nat, to : Nat]
      /\ offset' \in Nat /\ ChunkInv'
      /\ ~ahead /\ ~oom => offset' <= chunk'.to - chunk'.from
  BY <1>1, AfterCallback
<1>7. /\ http_response' \in BOOLEAN /\ oom' \in BOOLEAN
      /\ rc' \in {"OK", "GENERIC_ERROR"} /\ (rc' # "OK" => http_response')
      /\ pc' \in {"stopped", "epilog", "crashed"}
      /\ ~oom' => ~http_response'
  BY <1>1, <1>3, <1>4, <1>5, Zenon DEF Types
<1>8. Types'
  <2>1. fed' \in Nat /\ stack_boolean_info' \in [Bits -> BOOLEAN]
    BY <1>1, <1>3 DEF Types
  <2>2. ahead' \in BOOLEAN /\ finished' \in BOOLEAN
    BY <1>1, <1>3 DEF Types
  <2> QED
    BY <1>1, <1>6, <1>7, <2>1, <2>2 DEF Types
<1>9. StackInv'
  <2>1. ~http_response' => IsSequence(yajl_gen_buf')
    BY <1>2, <1>4, <1>5, Concat, Zenon
  <2>2. 0 < YAJL_MAX_DEPTH /\ 1..(0 - 1) = {}
    BY ConstantsAssumption
  <2> QED
    BY <1>1, <2>1, <2>2 DEF StackInv, DepthOf
<1>10. ErrorInv'
  BY <1>7 DEF ErrorInv
<1>11. WholeInv'
  <2>1. SUFFICES ASSUME ~ahead', ~oom'
                 PROVE  /\ pc' \in {"stopped", "epilog"}
                        /\ http_response' = FALSE /\ RightInv'
    BY <1>1, <1>5, <1>6 DEF WholeInv
  <2>2. /\ ~ahead /\ ~oom /\ http_response' = FALSE /\ rc' = rc
        /\ yajl_gen_buf' = yajl_gen_buf \o s
    BY <1>1, <1>5, <2>1
  <2>3. /\ fed = 0 /\ rc = "OK" /\ finished = FALSE /\ Len(body') # chunk.from
        /\ last_open_map >= 0 /\ last_open_map < Len(yajl_gen_buf)
        /\ level' = Level(body', Len(body')) /\ AllRight'
    <3>1. c = "close" /\ level > 0 /\ level' = level - 1
      BY <1>1
    <3>2. /\ rc = "OK" /\ fed = 0 /\ finished = FALSE /\ Len(body') # chunk.from
          /\ level > 0 => last_open_map >= 0 /\ last_open_map < Len(yajl_gen_buf)
          /\ level' = Level(body', Len(body')) /\ AllRight'
      BY <1>1, <2>2, <3>1, RightToken, Zenon
    <3> QED
      BY <3>1, <3>2, Zenon
  <2>4. pc' \in {"stopped", "epilog"}
    <3>1. Len(yajl_gen_buf) \in Nat /\ Len(yajl_gen_buf') = Len(yajl_gen_buf) + Len(s)
      BY <1>2, <1>4, <2>2, Concat
    <3>2. last_open_map \in Nat \cup {-1}
      BY <1>3 DEF Types, NO_JSON_LAST_OPEN_MAP
    <3>3. Len(yajl_gen_buf') > last_open_map
      BY <1>2, <2>3, <3>1, <3>2
    <3> QED
      BY <1>1, <2>3, <3>3
  <2>5. chunk'.from + offset' = Len(body')
    <3>1. /\ chunk.from \in Nat /\ Len(body) \in Nat
          /\ IndexAfter = Len(body) + 1 - chunk.from
      BY <1>1, <2>2, InCallback, Zenon
    <3>2. Len(body') = Len(body) + 1
      BY <1>1, <1>3, Consumed DEF Consume
    <3> PICK first \in Nat : first = chunk.from
      BY <3>1
    <3>3. chunk'.from = first
      BY <1>1
    <3>4. first + offset' = Len(body) + 1
      BY <1>1, <3>1
    <3> QED
      BY <3>2, <3>3, <3>4
  <2> QED
    BY <1>1, <2>2, <2>3, <2>4, <2>5 DEF RightInv, Parsing
<1> QED
  BY <1>6, <1>8, <1>9, <1>10, <1>11 DEF IInv

\* Something that no callback is called for: it is in its place everywhere.
LEMMA NoCallbackKeeps ==
  ASSUME IInv, NoCallback
  PROVE  IInv'
<1> PICK c \in Tokens : c = "space"
  BY DEF Tokens
<1>1. /\ Consume(c) /\ Take(c) /\ pc' = pc /\ chunk' = chunk /\ fed' = fed
      /\ finished' = finished /\ level' = level /\ offset' = offset
      /\ ahead' = ahead /\ oom' = oom /\ http_response' = http_response /\ rc' = rc
      /\ depth' = depth /\ yajl_gen_buf' = yajl_gen_buf /\ last_open_map' = last_open_map
      /\ stack_pos' = stack_pos /\ stack_boolean_info' = stack_boolean_info
  BY DEF NoCallback, Consume, expatVars, genVars, errVars
<1>2. pc = "parse" /\ http_response = FALSE
  BY <1>1, InCallback, Zenon
<1>3. Types' /\ ChunkInv'
  <2>1. body' \in Seq(Tokens \cup {"?"}) /\ Len(body') = Len(body) + 1
    BY <1>1, Consumed DEF IInv
  <2>2. /\ chunk.from \in Nat /\ chunk.to \in Nat /\ Len(body) \in Nat
        /\ chunk.from <= Len(body) /\ Len(body) < chunk.to
    BY <1>1, InCallback
  <2>3. Types'
    BY <1>1, <2>1 DEF IInv, Types
  <2> PICK first \in Nat : first = chunk.from
    BY <2>2
  <2> PICK end \in Nat : end = chunk.to
    BY <2>2
  <2>4. first <= end /\ first <= Len(body') /\ Len(body') <= end
    BY <2>1, <2>2
  <2> QED
    BY <1>1, <2>3, <2>4 DEF ChunkInv
<1>4. StackInv'
  <2>1. children_printed' = children_printed
    BY <1>1 DEF children_printed
  <2> QED
    BY <1>1, <2>1 DEF IInv, StackInv
<1>5. ErrorInv'
  BY <1>1 DEF IInv, ErrorInv
<1>6. WholeInv'
  <2>1. SUFFICES ASSUME ~ahead, ~oom PROVE RightInv'
    BY <1>1, <1>2 DEF WholeInv
  <2>2. /\ rc = "OK" /\ fed = 0 /\ finished = FALSE /\ Len(body') # chunk.from
        /\ level > 0 => last_open_map >= 0 /\ last_open_map < Len(yajl_gen_buf)
        /\ level' = Level(body', Len(body'))
        /\ AllRight'
    BY <1>1, <2>1, RightToken
  <2> QED
    BY <1>1, <1>2, <2>2 DEF RightInv, Parsing
<1> QED
  BY <1>3, <1>4, <1>5, <1>6 DEF IInv

\* What an expat before 2.2.8 reads behind a document.
LEMMA EpilogKeeps ==
  ASSUME IInv, Epilog
  PROVE  IInv'
<1> PICK c \in Tokens : c = "space"
  BY DEF Tokens
<1>1. /\ pc = "epilog"
      /\ \/ Len(body) = chunk.to /\ body' = body
         \/ Take(c)
      /\ \/ /\ body' # body /\ pc' = "stopped" /\ offset' = IndexAfter
            /\ finished' = finished
         \/ /\ Len(body') = chunk.to /\ pc' = "parse" /\ offset' = offset
            /\ finished' = TRUE
      /\ chunk' = chunk /\ fed' = fed /\ level' = level /\ ahead' = ahead /\ oom' = oom
      /\ http_response' = http_response /\ rc' = rc
      /\ depth' = depth /\ yajl_gen_buf' = yajl_gen_buf /\ last_open_map' = last_open_map
      /\ stack_pos' = stack_pos /\ stack_boolean_info' = stack_boolean_info
  BY DEF Epilog, genVars, errVars
<1>2. /\ Types /\ chunk.from \in Nat /\ chunk.to \in Nat /\ fed \in Nat
      /\ Len(body) \in Nat
  BY DEF IInv, Types
<1> PICK first \in Nat : first = chunk.from
  BY <1>2
<1> PICK end \in Nat : end = chunk.to
  BY <1>2
<1>3. first <= Len(body) /\ Len(body) <= end
  BY <1>1 DEF IInv, ChunkInv, Parsing
<1>4. /\ body' \in Seq(Tokens \cup {"?"})
      /\ \/ body' = body /\ Len(body) = end
         \/ Len(body') = Len(body) + 1 /\ Len(body) < end
  <2>1. CASE body' = body /\ Len(body) = chunk.to
    BY <1>2, <2>1 DEF Types
  <2>2. CASE Take(c)
    BY <1>2, <2>2, Consumed DEF Take
  <2> QED
    BY <1>1, <2>1, <2>2
<1>5. first <= Len(body') /\ Len(body') <= end /\ Len(body') \in Nat
  BY <1>2, <1>3, <1>4
<1>6. Types'
  <2>1. /\ offset' \in Nat /\ finished' \in BOOLEAN
        /\ pc' \in {"parse", "stopped"}
    <3>1. IndexAfter \in Nat
      <4>1. IndexAfter = fed + Len(body) + 1 - first
        BY DEF IndexAfter
      <4> PICK f \in Nat : f = fed
        BY <1>2
      <4> QED
        BY <1>2, <1>3, <4>1
    <3> QED
      BY <1>1, <1>2, <3>1, Zenon DEF Types
  <2> QED
    BY <1>1, <1>2, <1>4, <2>1 DEF Types
<1>7. ChunkInv'
  BY <1>1, <1>3, <1>5 DEF ChunkInv
<1>8. StackInv'
  <2>1. children_printed' = children_printed
    BY <1>1 DEF children_printed
  <2>2. ~http_response => level = 0
    BY <1>1 DEF IInv, StackInv
  <2> QED
    BY <1>1, <2>1, <2>2 DEF IInv, StackInv
<1>9. ErrorInv'
  BY <1>1 DEF IInv, ErrorInv
<1>10. WholeInv'
  <2>1. SUFFICES ASSUME ~ahead, ~oom
                 PROVE  /\ http_response = FALSE
                        /\ pc' = "stopped" => offset' <= end - first
                        /\ RightInv'
    BY <1>1 DEF WholeInv
  <2>2. http_response = FALSE
    BY <1>1, <1>2, <2>1 DEF IInv, ErrorInv, Types
  <2>3. RightInv
    BY <2>1, <2>2 DEF IInv, WholeInv
  <2>4. fed = 0 /\ Len(body) # first
    BY <1>1, <2>3 DEF RightInv, Parsing
  <2>5. level = Level(body', Len(body')) /\ AllRight'
    <3>1. level = Level(body, Len(body)) /\ AllRight
      BY <2>3 DEF RightInv
    <3>2. CASE body' = body
      BY <3>1, <3>2 DEF AllRight
    <3>3. CASE Take(c)
      BY <1>2, <3>1, <3>3, Consumed
    <3> QED
      BY <1>1, <3>2, <3>3
  <2>6. Len(body') # first
    BY <1>2, <1>3, <1>4, <2>4
  <2>7. pc' = "stopped" => first + offset' = Len(body') /\ offset' <= end - first
    <3>1. IndexAfter = 0 + Len(body) + 1 - first
      BY <2>4 DEF IndexAfter
    <3>2. ASSUME pc' = "stopped"
          PROVE  offset' = IndexAfter /\ Len(body') = Len(body) + 1
      BY <1>1, <1>4, <3>2
    <3> QED
      BY <1>2, <1>5, <3>1, <3>2
  <2>8. level = 0
    BY <1>1, <2>2 DEF IInv, StackInv
  <2>9. rc = "OK"
    BY <2>3 DEF RightInv
  <2>10. RightInv'
    <3>1. CASE pc' = "parse"
      BY <1>1, <2>4, <2>5, <2>6, <2>8, <2>9, <3>1 DEF RightInv, Parsing
    <3>2. CASE pc' = "stopped"
      BY <1>1, <2>4, <2>5, <2>6, <2>7, <2>8, <2>9, <3>2 DEF RightInv, Parsing
    <3> QED
      BY <1>1, <3>1, <3>2
  <2> QED
    BY <2>2, <2>7, <2>10
<1> QED
  BY <1>6, <1>7, <1>8, <1>9, <1>10 DEF IInv

\* A finished parser gets another chunk.
LEMMA ParseFinishedKeeps ==
  ASSUME IInv, ParseFinished
  PROVE  IInv' /\ (ahead \/ oom)
<1>1. /\ pc = "parse" /\ ~http_response /\ finished /\ Len(body) < chunk.to
      /\ http_response' = TRUE /\ rc' = "GENERIC_ERROR"
      /\ pc' = pc /\ body' = body /\ chunk' = chunk /\ fed' = fed
      /\ finished' = finished /\ level' = level /\ offset' = offset
      /\ ahead' = ahead /\ oom' = oom
      /\ depth' = depth /\ yajl_gen_buf' = yajl_gen_buf /\ last_open_map' = last_open_map
      /\ stack_pos' = stack_pos /\ stack_boolean_info' = stack_boolean_info
  BY Queued DEF ParseFinished, expatVars, genVars
<1>2. ahead \/ oom
  <2>1. SUFFICES ASSUME ~ahead, ~oom PROVE FALSE
    OBVIOUS
  <2>2. Len(body) = chunk.to
    BY <1>1, <2>1 DEF IInv, WholeInv, RightInv
  <2>3. Len(body) \in Nat
    BY DEF IInv, Types
  <2> QED
    BY <1>1, <2>2, <2>3
<1>3. Types'
  BY <1>1 DEF IInv, Types
<1>4. ChunkInv' /\ ErrorInv' /\ StackInv'
  BY <1>1 DEF IInv, ChunkInv, ErrorInv, StackInv, Parsing
<1>5. WholeInv'
  BY <1>1, <1>2 DEF WholeInv
<1> QED
  BY <1>2, <1>3, <1>4, <1>5 DEF IInv

\* The parser starts again behind a document, or gives up after an error.
LEMMA RestartKeeps ==
  ASSUME IInv, Restart
  PROVE  IInv'
<1>1. /\ pc = "stopped"
      /\ \/ /\ offset > chunk.to - chunk.from /\ pc' = "crashed"
            /\ body' = body /\ chunk' = chunk /\ fed' = fed /\ finished' = finished
            /\ level' = level
         \/ /\ ~(offset > chunk.to - chunk.from) /\ pc' = "parse"
            /\ chunk' = [from |-> chunk.from + offset, to |-> chunk.to]
            /\ body' = body \o Unseen(chunk.from + offset - Len(body))
            /\ fed' = 0 /\ level' = 0 /\ finished' = FALSE
      /\ offset' = offset /\ ahead' = ahead /\ oom' = oom
      /\ http_response' = http_response /\ rc' = rc
      /\ depth' = depth /\ yajl_gen_buf' = yajl_gen_buf /\ last_open_map' = last_open_map
      /\ stack_pos' = stack_pos /\ stack_boolean_info' = stack_boolean_info
  BY DEF Restart, zz_reset_xml_handler, genVars, errVars
<1>2. Types /\ chunk \in [from : Nat, to : Nat] /\ offset \in Nat /\ Len(body) \in Nat
  BY DEF IInv, Types
<1> PICK first \in Nat : first = chunk.from
  BY <1>2
<1> PICK end \in Nat : end = chunk.to
  BY <1>2
<1>3. first <= end /\ first <= Len(body) /\ Len(body) <= end
  BY <1>1 DEF IInv, ChunkInv, Parsing
<1>4. children_printed' = children_printed
  BY <1>1 DEF children_printed
<1>5. ErrorInv'
  BY <1>1 DEF IInv, ErrorInv
<1>6. CASE pc' = "crashed"
  <2>1. /\ offset > end - first
        /\ body' = body /\ chunk' = chunk /\ fed' = fed /\ finished' = finished
        /\ level' = level
    BY <1>1, <1>6
  <2>2. Types'
    BY <1>1, <1>2, <1>6, <2>1 DEF Types
  <2>3. ChunkInv'
    BY <1>6, <2>1 DEF IInv, ChunkInv, Parsing
  <2>4. StackInv'
    BY <1>1, <1>4, <1>6, <2>1 DEF IInv, StackInv
  <2>5. WholeInv'
    <3>1. ASSUME ~ahead, ~oom PROVE offset <= end - first
      BY <1>1, <3>1 DEF IInv, WholeInv
    <3>2. ahead \/ oom
      BY <1>2, <2>1, <3>1
    <3> QED
      BY <1>1, <3>2 DEF WholeInv
  <2> QED
    BY <1>5, <2>2, <2>3, <2>4, <2>5 DEF IInv
<1>7. CASE pc' = "parse"
  <2> PICK n \in Int : n = first + offset - Len(body)
    BY <1>2
  <2>1. /\ offset <= end - first
        /\ chunk' = [from |-> first + offset, to |-> end]
        /\ body' = body \o Unseen(n) /\ fed' = 0 /\ level' = 0 /\ finished' = FALSE
    <3>1. /\ ~(offset > chunk.to - chunk.from)
          /\ chunk' = [from |-> chunk.from + offset, to |-> chunk.to]
          /\ body' = body \o Unseen(chunk.from + offset - Len(body))
          /\ fed' = 0 /\ level' = 0 /\ finished' = FALSE
      BY <1>1, <1>7
    <3>2. ~(offset > end - first)
      BY <3>1
    <3>3. offset <= end - first
      BY <1>2, <3>2
    <3>4. body' = body \o Unseen(n)
      BY <3>1, Zenon
    <3> QED
      BY <3>1, <3>3, <3>4
  <2>2. /\ body' \in Seq(Tokens \cup {"?"})
        /\ n <= 0 => body' = body
        /\ n > 0 => Len(body') = Len(body) + n
        /\ ~AllRight => ~AllRight'
    BY <1>2, <2>1, Skipped, Zenon
  <2>3. chunk'.from = first + offset /\ chunk'.to = end
    BY <2>1
  <2>4. Types'
    <3>1. chunk' \in [from : Nat, to : Nat]
      <4> PICK at \in Nat : at = first + offset
        BY <1>2
      <4>1. [from |-> at, to |-> end] \in [from : Nat, to : Nat]
        OBVIOUS
      <4> QED
        BY <2>1, <4>1, Zenon
    <3> QED
      BY <1>1, <1>2, <1>7, <2>1, <2>2, <3>1 DEF Types
  <2>5. ChunkInv'
    <3>1. offset <= end - first
      BY <2>1
    <3>2. CASE n > 0
      <4>1. Len(body') = first + offset
        BY <1>2, <2>2, <3>2
      <4>2. first + offset <= end /\ first + offset <= first + offset
        BY <1>2, <3>1
      <4>3. first + offset <= Len(body') /\ Len(body') <= end
        BY <4>1, <4>2, Zenon
      <4> QED
        BY <2>3, <4>2, <4>3 DEF ChunkInv, Parsing
    <3>3. CASE n <= 0
      <4>1. Len(body') = Len(body)
        BY <2>2, <3>3
      <4>2. first + offset <= end /\ first + offset <= Len(body)
        BY <1>2, <3>1, <3>3
      <4>3. first + offset <= Len(body') /\ Len(body') <= end
        BY <1>3, <4>1, <4>2
      <4> QED
        BY <2>3, <4>2, <4>3 DEF ChunkInv, Parsing
    <3>4. n > 0 \/ n <= 0
      OBVIOUS
    <3> QED
      BY <3>2, <3>3, <3>4
  <2>6. StackInv'
    <3>1. ~http_response => level = 0
      BY <1>1 DEF IInv, StackInv
    <3> QED
      BY <1>1, <1>4, <1>7, <2>1, <3>1 DEF IInv, StackInv
  <2>7. WholeInv'
    <3>1. SUFFICES ASSUME ~ahead, ~oom
                   PROVE  /\ ~http_response => RightInv'
                          /\ http_response => WrongInv'
      BY <1>1, <1>7 DEF WholeInv
    <3>2. ASSUME http_response PROVE WrongInv'
      BY <1>1, <2>2, <3>1, <3>2 DEF IInv, WholeInv, WrongInv
    <3>3. ASSUME ~http_response PROVE RightInv'
      <4>1. /\ RightInv /\ level = 0
        BY <1>1, <3>1, <3>3 DEF IInv, WholeInv, StackInv
      <4>2. first + offset = Len(body)
        BY <1>1, <4>1 DEF RightInv, Parsing
      <4>3. body' = body
        BY <1>2, <2>2, <4>2
      <4>4. AllRight' /\ level' = Level(body', Len(body'))
        BY <2>1, <4>1, <4>3, Zenon DEF RightInv, AllRight
      <4> QED
        BY <1>1, <1>7, <2>1, <2>3, <4>1, <4>2, <4>3, <4>4 DEF RightInv, Parsing
    <3> QED
      BY <3>2, <3>3
  <2> QED
    BY <1>5, <2>4, <2>5, <2>6, <2>7 DEF IInv
<1> QED
  BY <1>1, <1>6, <1>7

\* A chunk ends, between two documents, inside one, or with an error.
LEMMA EndChunkKeeps ==
  ASSUME IInv, EndChunk
  PROVE  IInv'
<1>1. /\ pc = "parse" /\ (http_response \/ Len(body) = chunk.to)
      /\ pc' = IF rc = "OK" THEN "wait" ELSE "failed"
      /\ yajl_gen_buf' = <<>>
      /\ fed' = fed + chunk.to - chunk.from
      /\ body' = body \o Unseen(chunk.to - Len(body))
      /\ ahead' = ahead /\ finished' = finished
      /\ chunk' = chunk /\ level' = level /\ offset' = offset /\ oom' = oom
      /\ http_response' = http_response /\ rc' = rc
      /\ depth' = depth /\ last_open_map' = last_open_map
      /\ stack_pos' = stack_pos /\ stack_boolean_info' = stack_boolean_info
  BY DEF EndChunk, errVars
<1>2. /\ Types /\ chunk \in [from : Nat, to : Nat] /\ fed \in Nat /\ Len(body) \in Nat
      /\ level \in Nat
  BY DEF IInv, Types
<1> PICK first \in Nat : first = chunk.from
  BY <1>2
<1> PICK end \in Nat : end = chunk.to
  BY <1>2
<1> PICK n \in Int : n = end - Len(body)
  BY <1>2
<1>3. first <= end /\ first <= Len(body) /\ Len(body) <= end
  BY <1>1 DEF IInv, ChunkInv, Parsing
<1>4. /\ body' \in Seq(Tokens \cup {"?"})
      /\ n <= 0 => body' = body
      /\ ~AllRight => ~AllRight'
  BY <1>1, <1>2, Skipped, Zenon
<1>5. children_printed' = children_printed
  BY <1>1 DEF children_printed
<1>6. Types'
  <2>1. fed' \in Nat
    <3>1. fed' = fed + end - first
      BY <1>1
    <3> PICK f \in Nat : f = fed
      BY <1>2
    <3>2. f + end - first \in Nat
      BY <1>3
    <3> QED
      BY <3>1, <3>2
  <2>2. ahead' \in BOOLEAN /\ finished' \in BOOLEAN
    BY <1>1, <1>2 DEF Types
  <2> QED
    BY <1>1, <1>2, <1>4, <2>1, <2>2 DEF Types
<1>7. ChunkInv'
  BY <1>1, <1>3 DEF ChunkInv, Parsing
<1>8. StackInv'
  <2>1. IsSequence(yajl_gen_buf')
    BY <1>1, Pieces, Zenon
  <2> QED
    BY <1>1, <1>5, <2>1 DEF IInv, StackInv
<1>9. ErrorInv'
  BY <1>1 DEF IInv, ErrorInv
<1>10. WholeInv'
  <2>1. SUFFICES ASSUME ~ahead, ~oom
                 PROVE  /\ ~http_response => RightInv'
                        /\ http_response => WrongInv'
    BY <1>1, Zenon DEF WholeInv
  <2>2. ASSUME http_response PROVE WrongInv'
    BY <1>1, <1>4, <2>1, <2>2 DEF IInv, WholeInv, WrongInv
  <2>3. ASSUME ~http_response PROVE RightInv'
    <3>1. RightInv
      BY <2>1, <2>3 DEF IInv, WholeInv
    <3>2. end = Len(body) /\ fed = 0
      BY <1>1, <2>3, <3>1 DEF RightInv, Parsing
    <3>3. body' = body
      BY <1>2, <1>4, <3>2
    <3>4. fed' = 0 => level' = 0 /\ ~finished'
      <4>1. fed' = end - first
        BY <1>1, <3>2
      <4>2. fed' = 0 => first = Len(body)
        BY <1>2, <3>2, <4>1
      <4> QED
        BY <1>1, <3>1, <4>2 DEF RightInv
    <3>5. AllRight' /\ level' = Level(body', Len(body')) /\ pc' = "wait" /\ rc' = "OK"
      BY <1>1, <3>1, <3>3, Zenon DEF RightInv, AllRight
    <3> QED
      BY <3>4, <3>5 DEF RightInv, Parsing
  <2> QED
    BY <2>2, <2>3
<1> QED
  BY <1>6, <1>7, <1>8, <1>9, <1>10 DEF IInv

\* Nothing that the invariant is about changes, but for the place of the code.
LEMMA QuietKeeps ==
  ASSUME IInv,
         UNCHANGED <<body, chunk, fed, level, offset, finished, genVars, errVars, ahead, oom>>,
         \/ pc' = pc
         \/ pc = "idle" /\ pc' = "wait"
         \/ pc \in {"wait", "failed"} /\ pc' = "freed"
  PROVE  IInv'
<1>1. /\ body' = body /\ chunk' = chunk /\ fed' = fed /\ finished' = finished
      /\ level' = level
      /\ offset' = offset /\ ahead' = ahead /\ oom' = oom
      /\ http_response' = http_response /\ rc' = rc
      /\ depth' = depth /\ yajl_gen_buf' = yajl_gen_buf /\ last_open_map' = last_open_map
      /\ stack_pos' = stack_pos /\ stack_boolean_info' = stack_boolean_info
  BY DEF genVars, errVars
<1>2. pc' \in {"idle", "wait", "parse", "epilog", "stopped", "failed", "freed",
             "crashed"}
  BY DEF IInv, Types
<1>3. Types'
  BY <1>1, <1>2 DEF IInv, Types
<1>4. ChunkInv'
  BY <1>1 DEF IInv, ChunkInv, Parsing
<1>5. StackInv'
  <2>1. children_printed' = children_printed
    BY <1>1 DEF children_printed
  <2> QED
    BY <1>1, <2>1 DEF IInv, StackInv
<1>6. ErrorInv'
  BY <1>1 DEF IInv, ErrorInv
<1>7. WholeInv'
  <2>1. AllRight' <=> AllRight
    BY <1>1 DEF AllRight
  <2>2. WrongInv' <=> WrongInv
    BY <1>1, <2>1 DEF WrongInv
  <2>3. ASSUME RightInv
        PROVE  RightInv'
    BY <1>1, <2>1, <2>3 DEF RightInv, Parsing
  <2> QED
    BY <1>1, <2>2, <2>3 DEF IInv, WholeInv
<1> QED
  BY <1>3, <1>4, <1>5, <1>6, <1>7 DEF IInv

\* A session that could not be created.
LEMMA NewSessionFailsKeeps ==
  ASSUME IInv, NewSessionFails
  PROVE  IInv'
<1>1. /\ pc = "idle" /\ pc' \in {"idle", "crashed"} /\ oom' = (pc' = "crashed")
      /\ UNCHANGED <<body, chunk, fed, level, offset, finished, genVars, errVars, ahead>>
  BY DEF NewSessionFails, expatVars
<1>2. oom = FALSE
  BY <1>1 DEF IInv, ErrorInv, Types
<1>3. CASE pc' = "idle"
  <2>1. oom' = oom
    BY <1>1, <1>2, <1>3, Zenon
  <2> QED
    BY <1>1, <1>3, <2>1, QuietKeeps
<1>4. CASE pc' = "crashed"
  <2>1. /\ body' = body /\ chunk' = chunk /\ fed' = fed /\ finished' = finished
        /\ level' = level
        /\ offset' = offset /\ ahead' = ahead /\ oom' = TRUE
        /\ http_response' = http_response /\ rc' = rc
        /\ depth' = depth /\ yajl_gen_buf' = yajl_gen_buf /\ last_open_map' = last_open_map
        /\ stack_pos' = stack_pos /\ stack_boolean_info' = stack_boolean_info
    BY <1>1, <1>4, Zenon DEF genVars, errVars
  <2>2. Types'
    BY <1>4, <2>1 DEF IInv, Types
  <2>3. children_printed' = children_printed
    BY <2>1 DEF children_printed
  <2>4. StackInv'
    BY <1>4, <2>1, <2>3 DEF IInv, StackInv
  <2>5. ChunkInv' /\ ErrorInv' /\ WholeInv'
    BY <1>4, <2>1 DEF IInv, ChunkInv, ErrorInv, WholeInv, Parsing
  <2> QED
    BY <2>2, <2>4, <2>5 DEF IInv
<1> QED
  BY <1>1, <1>3, <1>4

\* A chunk comes.
LEMMA ReceiveKeeps ==
  ASSUME IInv, NEW n \in 1..MaxLen, ReceiveChunk(n)
  PROVE  IInv'
<1>1. /\ pc = "wait" /\ pc' = "parse"
      /\ chunk' = [from |-> Len(body), to |-> Len(body) + n]
      /\ body' = body /\ fed' = fed /\ level' = level
      /\ offset' = offset /\ finished' = finished /\ oom' = oom
      /\ ahead' = (ahead \/ fed > 0)
      /\ http_response' = http_response /\ rc' = rc
      /\ depth' = depth /\ yajl_gen_buf' = yajl_gen_buf /\ last_open_map' = last_open_map
      /\ stack_pos' = stack_pos /\ stack_boolean_info' = stack_boolean_info
  BY DEF ReceiveChunk, genVars, errVars
<1>2. n \in Nat /\ Len(body) \in Nat
  BY ConstantsAssumption DEF IInv, Types
<1>3. /\ chunk' \in [from : Nat, to : Nat]
      /\ chunk'.from = Len(body) /\ chunk'.to = Len(body) + n
  BY <1>1, <1>2
<1>4. Types'
  <2>1. ahead' \in BOOLEAN
    BY <1>1
  <2> QED
    BY <1>1, <1>3, <2>1 DEF IInv, Types
<1>5. ChunkInv'
  <2>1. Len(body) <= Len(body) + n
    BY <1>2
  <2>2. body' = body
    BY <1>1
  <2> QED
    BY <1>2, <1>3, <2>1, <2>2 DEF ChunkInv
<1>6. StackInv'
  <2>1. children_printed' = children_printed
    BY <1>1 DEF children_printed
  <2> QED
    BY <1>1, <2>1 DEF IInv, StackInv
<1>7. ErrorInv'
  BY <1>1 DEF IInv, ErrorInv
<1>8. WholeInv'
  <2>1. AllRight' <=> AllRight
    BY <1>1 DEF AllRight
  <2>2. WrongInv' <=> WrongInv
    BY <1>1, <2>1 DEF WrongInv
  <2>3. ASSUME RightInv, ~ahead'
        PROVE  RightInv'
    <3>1. fed = 0
      <4>1. fed \in Nat
        BY DEF IInv, Types
      <4>2. ~(fed > 0)
        BY <1>1, <2>3, Zenon
      <4> QED
        BY <4>1, <4>2
    <3>2. level = 0 /\ ~finished
      BY <1>1, <2>3, <3>1 DEF RightInv
    <3>3. Level(body', Len(body')) = Level(body, Len(body))
      BY <1>1
    <3> QED
      BY <1>1, <2>1, <2>3, <3>1, <3>2, <3>3 DEF RightInv, Parsing
  <2>4. ~ahead' => ~ahead
    BY <1>1, Zenon
  <2> QED
    BY <1>1, <2>2, <2>3, <2>4 DEF IInv, WholeInv
<1> QED
  BY <1>4, <1>5, <1>6, <1>7, <1>8 DEF IInv

\* The invariant holds before the session.
LEMMA InitKeeps == Init => IInv
<1> SUFFICES ASSUME Init PROVE IInv
  OBVIOUS
<1> USE DEF Init
<1>1. body \in Seq(Tokens \cup {"?"}) /\ Len(body) = 0 /\ DOMAIN body = {}
  BY 1..0 = {}
<1>2. stack_boolean_info \in [Bits -> BOOLEAN]
  OBVIOUS
<1>3. chunk \in [from : Nat, to : Nat] /\ chunk.from = 0 /\ chunk.to = 0
  OBVIOUS
<1>4. Types
  BY <1>1, <1>2, <1>3, Zenon DEF Types
<1>5. ChunkInv /\ ErrorInv
  BY <1>3 DEF ChunkInv, ErrorInv
<1>6. StackInv
  <2>1. IsSequence(yajl_gen_buf)
    BY Pieces, Zenon
  <2>2. 0 < YAJL_MAX_DEPTH /\ 1..(0 - 1) = {}
    BY ConstantsAssumption
  <2> QED
    BY <2>1, <2>2 DEF StackInv, DepthOf
<1>7. WholeInv
  <2>1. Level(body, 0) = 0
    BY LevelZero
  <2>2. AllRight
    BY <1>1 DEF AllRight
  <2>3. RightInv
    BY <1>1, <1>3, <2>1, <2>2 DEF RightInv, Parsing
  <2> QED
    BY <2>3 DEF WholeInv
<1> QED
  BY <1>4, <1>5, <1>6, <1>7 DEF IInv

\* It is kept by every step.
LEMMA NextKeeps ==
  ASSUME IInv, [Next]_vars
  PROVE  IInv'
<1>1. CASE NewSession
  BY <1>1, QuietKeeps DEF NewSession, expatVars
<1>2. CASE NewSessionFails
  BY <1>2, NewSessionFailsKeeps
<1>3. CASE FreeSession
  BY <1>3, QuietKeeps DEF FreeSession, expatVars
<1>4. CASE \E n \in 1..MaxLen : ReceiveChunk(n)
  BY <1>4, ReceiveKeeps
<1>5. ASSUME NEW c \in Tokens, StartElement(c)
      PROVE  IInv'
  BY <1>5, StartKeeps
<1>6. ASSUME NEW c \in Tokens, StartTooDeep(c)
      PROVE  IInv'
  BY <1>6, TooDeepKeeps
<1>7. ASSUME NEW c \in Tokens, ParseError(c)
      PROVE  IInv'
  BY <1>7, ParseErrorKeeps
<1>8. CASE FirstText
  BY <1>8, FirstTextKeeps
<1>9. CASE MoreText
  BY <1>9, MoreTextKeeps
<1>10. CASE EndElement
  BY <1>10, EndElementKeeps
<1>11. ASSUME NEW added \in BOOLEAN, EndRoot(added)
       PROVE  IInv'
  BY <1>11, EndRootKeeps
<1>12. CASE Restart
  BY <1>12, RestartKeeps
<1>13. CASE EndChunk
  BY <1>13, EndChunkKeeps
<1>14. CASE UNCHANGED vars
  BY <1>14, QuietKeeps DEF vars, expatVars
<1>15. CASE NoCallback
  BY <1>15, NoCallbackKeeps
<1>16. CASE Epilog
  BY <1>16, EpilogKeeps
<1>17. CASE ParseFinished
  BY <1>17, ParseFinishedKeeps
<1> QED
  BY <1>1, <1>2, <1>3, <1>4, <1>5, <1>6, <1>7, <1>8, <1>9, <1>10, <1>11, <1>12, <1>13,
     <1>14, <1>15, <1>16, <1>17 DEF Next

\* Every step of a session keeps the inductive invariant: the callbacks of expat,
\* also those that find no memory, zz_decode() for each chunk, and the end of
\* the session.
THEOREM Invariance == Spec => []IInv
<1>1. IInv /\ [Next]_vars => IInv'
  BY NextKeeps
<1> QED
  BY <1>1, InitKeeps, PTL DEF Spec
-----------------------------------------------------------------------------
\* Every variable of an XML session keeps the type of the field it stands for;
\* the depth of the generator and the stack of frames never go below zero.
THEOREM TypeCorrect == Spec => []TypeOK
<1>1. IInv => TypeOK
  <2>1. SUFFICES ASSUME Types PROVE TypeOK
    BY DEF IInv
  <2>2. {chunk.from, chunk.to, fed, level, offset, depth, stack_pos} \subseteq Nat
    BY <2>1 DEF Types
  <2>3. {http_response, finished, ahead, oom} \subseteq BOOLEAN
    BY <2>1, Zenon DEF Types
  <2> QED
    BY <2>1, <2>2, <2>3, Zenon DEF Types, TypeOK
<1> QED
  BY <1>1, Invariance, PTL

\* For every YAJL_MAX_DEPTH, the elements that expat has open, the frames of the
\* session and the depth of the generator agree whenever a callback of
\* zz_http2k_parser_xml.c can run, however the chunks end and failed allocations
\* included, and no frame is outside of stack_boolean_info.
THEOREM StacksStayTogether == Spec => []StacksAgree
<1>1. IInv => StacksAgree
  BY DEF IInv, StackInv, StacksAgree, DepthOf
<1> QED
  BY <1>1, Invariance, PTL

\* No assertion of the callbacks or of process_xml_buffer() fails, whatever the
\* tokens of the body are, white space and comments around the documents included,
\* for expat before 2.2.8 and after, as long as every chunk comes at a reset of
\* the parser and there is memory.
THEOREM NoAssertionFails == Spec => []AssertionsHold
<1>1. IInv => AssertionsHold
  BY DEF IInv, WholeInv, AssertionsHold
<1> QED
  BY <1>1, Invariance, PTL

\* For bodies of every length and every YAJL_MAX_DEPTH, zz_decode() answers
\* INVALID_REQUEST if, and only if, some token of the body is no XML, outside of
\* the documents or too deep, and OK else, also for a body without a document or
\* with one that is not complete, as long as every chunk comes at a reset of the
\* parser and there is memory.
THEOREM OnlyInvalidIsRefused == Spec => []InvalidIsReported
<1>1. IInv => InvalidIsReported
  <2>1. SUFFICES ASSUME IInv, pc \in {"wait", "failed"}, ~ahead, ~oom
                 PROVE  /\ rc = IF \E n \in DOMAIN body : Wrong(body, n)
                                THEN "INVALID_REQUEST" ELSE "OK"
                        /\ pc = "failed" <=> rc # "OK"
    BY DEF InvalidIsReported
  <2>2. CASE http_response
    <3>1. rc = "INVALID_REQUEST" /\ ~AllRight
      BY <2>1, <2>2 DEF IInv, WholeInv, WrongInv
    <3>2. pc = "failed"
      BY <2>1, <3>1 DEF IInv, ErrorInv
    <3> QED
      BY <3>1, <3>2 DEF AllRight
  <2>3. CASE ~http_response
    <3>1. rc = "OK" /\ AllRight
      BY <2>1, <2>3 DEF IInv, WholeInv, RightInv
    <3>2. pc # "failed"
      BY <2>1, <3>1 DEF IInv, ErrorInv
    <3> QED
      BY <3>1, <3>2 DEF AllRight
  <2> QED
    BY <2>2, <2>3
<1> QED
  BY <1>1, Invariance, PTL
-----------------------------------------------------------------------------
(* The messages.                                                           *)

\* The documents that ended are messages, and the messages fill the buffer.
MsgInv ==
  /\ ~ahead /\ ~oom => /\ kafka_msgs \in Seq([payload : Nat, len : Nat])
                     /\ IsSequence(offered)
  /\ OneMessagePerDocument
  /\ MessagesTile

\* What the next token does to the ends of documents.
LEMMA EndsConsumed ==
  ASSUME Types, NEW c \in Tokens, Take(c)
  PROVE  /\ IsFiniteSet(Ends(body)) /\ Len(body') \notin Ends(body)
         /\ Ends(body') = IF c = "close" /\ Level(body', Len(body')) = 0
                          THEN Ends(body) \cup {Len(body')} ELSE Ends(body)
<1> PICK n \in Nat : n = Len(body)
  BY DEF Types
<1>1. body \in Seq(Tokens \cup {"?"}) /\ body' = Append(body, c)
  BY DEF Types, Take
<1> PICK new : new = body'
  OBVIOUS
<1>2. /\ Len(new) = n + 1
      /\ \A k \in 1..n : new[k] = body[k]
      /\ new[n + 1] = c
      /\ DOMAIN body = 1..n /\ DOMAIN new = 1..(n + 1)
  BY <1>1
<1>3. \A k \in 0..n : Level(new, k) = Level(body, k)
  BY <1>2, Agree
<1>4. IsFiniteSet(Ends(body))
  <2>1. IsFiniteSet(1..n)
    BY FS_Interval
  <2>2. Ends(body) \subseteq 1..n
    BY <1>2 DEF Ends
  <2> QED
    BY <2>1, <2>2, FS_Subset
<1>5. n + 1 \notin Ends(body)
  BY <1>2 DEF Ends
<1>6. \A k \in 1..n : new[k] = body[k] /\ Level(new, k) = Level(body, k)
  BY <1>2, <1>3
<1>7. 1..(n + 1) = (1..n) \cup {n + 1}
  OBVIOUS
<1>8. Ends(new) = IF c = "close" /\ Level(new, n + 1) = 0
                  THEN Ends(body) \cup {n + 1} ELSE Ends(body)
  BY <1>2, <1>6, <1>7 DEF Ends
<1> QED
  BY <1>2, <1>4, <1>5, <1>8

\* A body that goes on with tokens that nobody looks at has no more ends.
LEMMA EndsAgree ==
  ASSUME NEW b, NEW p, NEW m \in Nat, NEW l \in Nat, m <= l,
         DOMAIN b = 1..m, DOMAIN p = 1..l,
         \A k \in 1..m : p[k] = b[k],
         \A k \in (m + 1)..l : p[k] = "?"
  PROVE  Ends(p) = Ends(b)
<1>1. \A k \in 0..m : Level(p, k) = Level(b, k)
  BY Agree
<1>2. \A k \in 1..m : p[k] = b[k] /\ Level(p, k) = Level(b, k)
  BY <1>1
<1>3. \A k \in 1..l : k \in 1..m \/ p[k] = "?"
  OBVIOUS
<1>4. 1..m \subseteq 1..l
  OBVIOUS
<1> QED
  BY <1>2, <1>3, <1>4 DEF Ends

\* What is in the part that nobody looks at.
LEMMA UnseenAt ==
  ASSUME NEW S, NEW b \in Seq(S), NEW n \in Nat,
         NEW k \in (Len(b) + 1)..(Len(b) + n)
  PROVE  (b \o Unseen(n))[k] = "?"
<1> PICK m \in Nat : m = Len(b)
  OBVIOUS
<1> PICK j \in 1..n : j = k - m
  OBVIOUS
<1>1. Unseen(n) \in Seq({"?"}) /\ Len(Unseen(n)) = n /\ Unseen(n)[j] = "?"
  BY DEF Unseen
<1>2. (b \o Unseen(n))[k] = Unseen(n)[j]
  BY <1>1
<1> QED
  BY <1>1, <1>2

\* What is skipped ends no document.
LEMMA EndsSkipped ==
  ASSUME Types, NEW n \in Int, body' = body \o Unseen(n)
  PROVE  Ends(body') = Ends(body)
<1>1. body \in Seq(Tokens \cup {"?"})
  BY DEF Types
<1>2. CASE n <= 0
  BY <1>2, Skipped, Zenon
<1>3. CASE n > 0
  <2> PICK m \in Nat : m = Len(body)
    BY <1>1
  <2>1. n \in Nat
    BY <1>3
  <2>2. /\ body \o Unseen(n) \in Seq(Tokens \cup {"?"})
        /\ Len(body \o Unseen(n)) = m + n
        /\ \A k \in 1..m : (body \o Unseen(n))[k] = body[k]
    BY <1>1, <1>3, Padding
  <2>3. \A k \in (m + 1)..(m + n) : (body \o Unseen(n))[k] = "?"
    BY <1>1, <2>1, UnseenAt, Zenon
  <2>4. DOMAIN (body \o Unseen(n)) = 1..(m + n) /\ DOMAIN body = 1..m
    BY <1>1, <2>2
  <2>5. m <= m + n /\ m + n \in Nat
    BY <2>1
  <2> QED
    BY <2>2, <2>3, <2>4, <2>5, EndsAgree, Zenon
<1>4. n <= 0 \/ n > 0
  OBVIOUS
<1> QED
  BY <1>2, <1>3, <1>4

\* The messages stay as they are, and the buffer gets no shorter.
LEMMA SameMessages ==
  ASSUME MsgInv, ~ahead' /\ ~oom' => ~ahead /\ ~oom,
         kafka_msgs' = kafka_msgs, offered' = offered,
         ~ahead' /\ ~oom' =>
           /\ Ends(body') = Ends(body)
           /\ Filled <= Len(yajl_gen_buf')
           /\ Parsing' /\ ~http_response' =>
                Filled = IF level' > 0 THEN last_open_map' ELSE Len(yajl_gen_buf')
  PROVE  MsgInv'
<1>1. Filled' = Filled
  BY DEF Filled
<1>2. OneMessagePerDocument'
  BY DEF MsgInv, OneMessagePerDocument
<1>3. MessagesTile'
  BY <1>1 DEF MsgInv, MessagesTile
<1> QED
  BY <1>2, <1>3 DEF MsgInv

\* The messages lie one behind the other, and none is empty.
Tiled(msgs) ==
  \A k \in DOMAIN msgs :
    /\ msgs[k].len > 0
    /\ msgs[k].payload = IF k = 1 THEN 0 ELSE msgs[k - 1].payload + msgs[k - 1].len

\* Where the last one of them ends.
FilledBy(msgs) ==
  IF msgs = <<>> THEN 0 ELSE msgs[Len(msgs)].payload + msgs[Len(msgs)].len

\* A message is added behind the others.
LEMMA MessageAdded ==
  ASSUME NEW msgs \in Seq([payload : Nat, len : Nat]), Tiled(msgs),
         NEW e \in [payload : Nat, len : Nat], e.payload = FilledBy(msgs), e.len > 0
  PROVE  /\ Append(msgs, e) \in Seq([payload : Nat, len : Nat])
         /\ Len(Append(msgs, e)) = Len(msgs) + 1
         /\ FilledBy(Append(msgs, e)) = e.payload + e.len
         /\ Tiled(Append(msgs, e))
<1> PICK new : new = Append(msgs, e)
  BY Zenon
<1> PICK at \in Nat : at = e.payload
  OBVIOUS
<1> PICK n \in Nat : n = e.len
  OBVIOUS
<1> PICK m \in Nat : m = Len(msgs)
  OBVIOUS
<1>1. /\ new \in Seq([payload : Nat, len : Nat]) /\ new # <<>>
      /\ Len(new) = m + 1
      /\ new[m + 1] = e
      /\ \A k \in 1..m : new[k] = msgs[k]
      /\ DOMAIN new = 1..(m + 1) /\ DOMAIN msgs = 1..m
  OBVIOUS
<1>2. ASSUME NEW k \in 1..m
      PROVE  /\ new[k].len > 0
             /\ new[k].payload = IF k = 1 THEN 0 ELSE new[k - 1].payload + new[k - 1].len
  <2>1. k \in DOMAIN msgs /\ new[k] = msgs[k]
    BY <1>1
  <2>2. k # 1 => k - 1 \in 1..m
    OBVIOUS
  <2>3. k # 1 => new[k - 1] = msgs[k - 1]
    BY <1>1, <2>2
  <2> QED
    BY <2>1, <2>3 DEF Tiled
<1>3. at = IF m = 0 THEN 0 ELSE msgs[m].payload + msgs[m].len
  BY <1>1 DEF FilledBy
<1>4. ASSUME NEW k, k = m + 1
      PROVE  /\ new[k].len > 0
             /\ new[k].payload = IF k = 1 THEN 0 ELSE new[k - 1].payload + new[k - 1].len
  <2>1. k - 1 = m /\ (k = 1 <=> m = 0) /\ (m # 0 => m \in 1..m)
    BY <1>4
  <2>2. m # 0 => new[m] = msgs[m]
    BY <1>1, <2>1
  <2> QED
    BY <1>1, <1>3, <1>4, <2>1, <2>2
<1>5. \A k \in DOMAIN new : k \in 1..m \/ k = m + 1
  BY <1>1
<1>6. ASSUME NEW k \in DOMAIN new
      PROVE  /\ new[k].len > 0
             /\ new[k].payload = IF k = 1 THEN 0 ELSE new[k - 1].payload + new[k - 1].len
  <2>1. CASE k \in 1..m
    BY <1>2, <2>1
  <2>2. CASE k = m + 1
    BY <1>4, <2>2
  <2> QED
    BY <1>5, <2>1, <2>2
<1>7. Tiled(new)
  BY <1>6 DEF Tiled
<1>8. FilledBy(new) = at + n
  BY <1>1 DEF FilledBy
<1> QED
  BY <1>1, <1>7, <1>8

\* What IInv and MsgInv say of a callback that runs in memory, in a document or
\* before it.
LEMMA BufferInCallback ==
  ASSUME IInv, MsgInv, NEW c \in Tokens, Consume(c), ~ahead, ~oom
  PROVE  /\ level \in Nat
         /\ IsSequence(yajl_gen_buf) /\ Len(yajl_gen_buf) \in Nat
         /\ level > 0 => last_open_map \in Nat /\ last_open_map < Len(yajl_gen_buf)
         /\ Filled = IF level > 0 THEN last_open_map ELSE Len(yajl_gen_buf)
<1>1. pc = "parse" /\ http_response = FALSE /\ level \in Nat
  BY InCallback, Zenon DEF IInv, Types
<1>2. IsSequence(yajl_gen_buf)
  BY <1>1 DEF IInv, StackInv
<1>3. Len(yajl_gen_buf) \in Nat
  BY <1>2, Concat
<1>4. level > 0 => last_open_map >= 0 /\ last_open_map < Len(yajl_gen_buf)
  BY <1>1 DEF IInv, WholeInv, RightInv, Parsing
<1>5. last_open_map \in Nat \cup {-1}
  BY DEF IInv, Types, NO_JSON_LAST_OPEN_MAP
<1>6. Filled = IF level > 0 THEN last_open_map ELSE Len(yajl_gen_buf)
  BY <1>1 DEF MsgInv, MessagesTile, Parsing
<1> QED
  BY <1>1, <1>2, <1>3, <1>4, <1>5, <1>6

\* A callback prints inside of a document, or starts one.
LEMMA StartMessages ==
  ASSUME IInv, IInv', MsgInv, NEW c \in Tokens, StartElement(c)
  PROVE  MsgInv'
<1> DEFINE s == (IF stack_pos = 0 THEN <<>> ELSE OpensChild) \o Tag(c, Len(body'))
<1>1. /\ c \in {"open", "open@"} /\ Consume(c)
      /\ level' = level + 1 /\ last_open_map' = OpenedAt
      /\ PrintTo(yajl_gen_buf, s)
      /\ ahead' = ahead /\ kafka_msgs' = kafka_msgs /\ offered' = offered
  BY DEF StartElement
<1>2. IsSequence(s)
  <2>1. /\ IsSequence(IF stack_pos = 0 THEN <<>> ELSE OpensChild)
        /\ IsSequence(Tag(c, Len(body')))
    BY Pieces, Zenon
  <2> QED
    BY <2>1, Concat
<1> HIDE DEF s
<1>3. Printed(yajl_gen_buf, s)
  BY <1>1, Prints
<1>4. http_response = FALSE /\ Types
  BY <1>1, InCallback, Zenon DEF IInv
<1>5. ASSUME ~ahead', ~oom'
      PROVE  /\ ~ahead /\ ~oom
             /\ Ends(body') = Ends(body)
             /\ Filled <= Len(yajl_gen_buf')
             /\ ~http_response' =>
                  Filled = IF level' > 0 THEN last_open_map' ELSE Len(yajl_gen_buf')
  <2>1. ~ahead /\ ~oom /\ yajl_gen_buf' = yajl_gen_buf \o s
    BY <1>1, <1>3, <1>5 DEF Printed
  <2>2. Ends(body') = Ends(body)
    BY <1>1, <1>4, EndsConsumed DEF Consume
  <2>3. /\ level \in Nat
        /\ IsSequence(yajl_gen_buf) /\ Len(yajl_gen_buf) \in Nat
        /\ level > 0 => last_open_map \in Nat /\ last_open_map < Len(yajl_gen_buf)
        /\ Filled = IF level > 0 THEN last_open_map ELSE Len(yajl_gen_buf)
    BY <1>1, <2>1, BufferInCallback
  <2>4. Len(s) \in Nat /\ Len(yajl_gen_buf') = Len(yajl_gen_buf) + Len(s)
    BY <1>2, <2>1, <2>3, Concat
  <2>5. stack_pos = level
    BY <1>4 DEF IInv, StackInv
  <2>6. Filled = last_open_map'
    BY <1>1, <2>3, <2>5 DEF OpenedAt
  <2>7. Filled <= Len(yajl_gen_buf')
    BY <2>3, <2>4
  <2>8. level' > 0
    BY <1>1, <2>3
  <2> QED
    BY <2>1, <2>2, <2>6, <2>7, <2>8
<1> QED
  BY <1>1, <1>5, SameMessages

\* A callback that prints inside of a document.
LEMMA InnerMessages ==
  ASSUME IInv, IInv', MsgInv, NEW c \in Tokens, Consume(c), NEW s, IsSequence(s),
         Printed(yajl_gen_buf, s),
         \/ c = "text" /\ level > 0 /\ level' = level
         \/ c = "close" /\ level > 1 /\ level' = level - 1,
         last_open_map' = last_open_map, ahead' = ahead, kafka_msgs' = kafka_msgs,
         offered' = offered
  PROVE  MsgInv'
<1>1. http_response = FALSE /\ Types
  BY InCallback, Zenon DEF IInv
<1>2. ASSUME ~ahead', ~oom'
      PROVE  /\ ~ahead /\ ~oom
             /\ Ends(body') = Ends(body)
             /\ Filled <= Len(yajl_gen_buf')
             /\ ~http_response' =>
                  Filled = IF level' > 0 THEN last_open_map' ELSE Len(yajl_gen_buf')
  <2>1. ~ahead /\ ~oom /\ yajl_gen_buf' = yajl_gen_buf \o s /\ http_response' = FALSE
    BY <1>1, <1>2 DEF Printed
  <2>2. /\ level \in Nat
        /\ IsSequence(yajl_gen_buf) /\ Len(yajl_gen_buf) \in Nat
        /\ level > 0 => last_open_map \in Nat /\ last_open_map < Len(yajl_gen_buf)
        /\ Filled = IF level > 0 THEN last_open_map ELSE Len(yajl_gen_buf)
    BY <2>1, BufferInCallback
  <2>3. level > 0 /\ level' > 0
    BY <2>2
  <2>4. level' = Level(body', Len(body'))
    BY <1>2, <2>1 DEF IInv, WholeInv, RightInv
  <2>5. Ends(body') = Ends(body)
    <3>1. Level(body', Len(body')) # 0
      BY <2>2, <2>3, <2>4
    <3> QED
      BY <1>1, <3>1, EndsConsumed DEF Consume
  <2>6. Len(s) \in Nat /\ Len(yajl_gen_buf') = Len(yajl_gen_buf) + Len(s)
    BY <2>1, <2>2, Concat
  <2>7. Filled <= Len(yajl_gen_buf')
    BY <2>2, <2>3, <2>6
  <2> QED
    BY <2>1, <2>2, <2>3, <2>5, <2>7
<1> QED
  BY <1>2, SameMessages

\* More text makes no piece longer than it was, counted in pieces.
LEMMA MoreTextMessages ==
  ASSUME IInv, IInv', MsgInv, MoreText
  PROVE  MsgInv'
<1> PICK c \in Tokens : c = "text"
  BY DEF Tokens
<1>1. /\ Consume(c) /\ level > 0 /\ level' = level
      /\ last_open_map' = last_open_map /\ ahead' = ahead
      /\ kafka_msgs' = kafka_msgs /\ offered' = offered
  BY DEF MoreText
<1>2. http_response = FALSE /\ Types
  BY <1>1, InCallback, Zenon DEF IInv
<1>3. ASSUME ~ahead', ~oom'
      PROVE  /\ ~ahead /\ ~oom
             /\ Ends(body') = Ends(body)
             /\ Filled <= Len(yajl_gen_buf')
             /\ ~http_response' =>
                  Filled = IF level' > 0 THEN last_open_map' ELSE Len(yajl_gen_buf')
  <2>1. /\ ~ahead /\ oom' = oom
        /\ \/ yajl_gen_buf' = yajl_gen_buf
           \/ /\ yajl_gen_buf # <<>>
              /\ yajl_gen_buf' = [yajl_gen_buf EXCEPT ![Len(yajl_gen_buf)] =
                                     Append(@, Len(body'))]
    BY <1>1, <1>3 DEF MoreText
  <2>2. ~oom
    BY <1>3, <2>1
  <2>3. /\ level \in Nat
        /\ IsSequence(yajl_gen_buf) /\ Len(yajl_gen_buf) \in Nat
        /\ level > 0 => last_open_map \in Nat /\ last_open_map < Len(yajl_gen_buf)
        /\ Filled = IF level > 0 THEN last_open_map ELSE Len(yajl_gen_buf)
    BY <1>1, <2>1, <2>2, BufferInCallback
  <2>4. Ends(body') = Ends(body)
    BY <1>1, <1>2, EndsConsumed DEF Consume
  <2>5. Len(yajl_gen_buf') = Len(yajl_gen_buf)
    <3>1. CASE yajl_gen_buf # <<>> /\
               yajl_gen_buf' = [yajl_gen_buf EXCEPT ![Len(yajl_gen_buf)] =
                                  Append(@, Len(body'))]
      <4> PICK e : yajl_gen_buf' = [yajl_gen_buf EXCEPT ![Len(yajl_gen_buf)] = e]
        BY <3>1, Zenon
      <4>1. Len([yajl_gen_buf EXCEPT ![Len(yajl_gen_buf)] = e]) = Len(yajl_gen_buf)
        BY <2>3, <3>1, ChangeLast, Zenon
      <4> QED
        BY <4>1, Zenon
    <3> QED
      BY <2>1, <3>1
  <2>6. Filled <= Len(yajl_gen_buf')
    BY <1>1, <2>3, <2>5
  <2> QED
    BY <1>1, <2>1, <2>2, <2>3, <2>4, <2>6
<1> QED
  BY <1>1, <1>3, SameMessages

\* A token that ends the session: the messages before it stay.
LEMMA RefusedMessages ==
  ASSUME IInv, IInv', MsgInv, NEW c \in Tokens, StartTooDeep(c) \/ ParseError(c)
  PROVE  MsgInv'
<1>1. /\ Consume(c) /\ ahead' = ahead /\ kafka_msgs' = kafka_msgs /\ offered' = offered
      /\ oom' = oom \/ oom' = TRUE
      /\ \/ yajl_gen_buf' = yajl_gen_buf
         \/ yajl_gen_buf' = Append(yajl_gen_buf, <<"children">>)
         \/ yajl_gen_buf' = yajl_gen_buf \o OpensChild \o Tag("open", Len(body'))
                              \o <<<<"attributes">>>>
  <2>1. CASE StartTooDeep(c)
    BY <2>1 DEF StartTooDeep
  <2>2. CASE ParseError(c)
    BY <2>2 DEF ParseError, genVars
  <2> QED
    BY <2>1, <2>2, Zenon
<1>2. http_response' = TRUE
  BY DEF StartTooDeep, ParseError, queue_xml_error
<1>3. http_response = FALSE /\ Types
  BY <1>1, InCallback, Zenon DEF IInv
<1>4. ASSUME ~ahead', ~oom'
      PROVE  /\ ~ahead /\ ~oom
             /\ Ends(body') = Ends(body)
             /\ Filled <= Len(yajl_gen_buf')
  <2>1. ~ahead /\ ~oom
    BY <1>1, <1>4
  <2>2. /\ level \in Nat
        /\ IsSequence(yajl_gen_buf) /\ Len(yajl_gen_buf) \in Nat
        /\ level > 0 => last_open_map \in Nat /\ last_open_map < Len(yajl_gen_buf)
        /\ Filled = IF level > 0 THEN last_open_map ELSE Len(yajl_gen_buf)
    BY <1>1, <2>1, BufferInCallback
  <2>3. level = Level(body, Len(body))
    BY <1>3, <2>1 DEF IInv, WholeInv, RightInv
  <2>4. c = "close" => level = 0
    <3>1. CASE StartTooDeep(c)
      BY <3>1 DEF StartTooDeep
    <3>2. CASE ParseError(c)
      BY <1>4, <3>2 DEF ParseError
    <3> QED
      BY <3>1, <3>2
  <2>5. Ends(body') = Ends(body)
    <3>1. c = "close" => Level(body', Len(body')) = -1
      BY <1>1, <1>3, <2>3, <2>4, Consumed DEF Consume
    <3> QED
      BY <1>1, <1>3, <3>1, EndsConsumed DEF Consume
  <2>6. Len(yajl_gen_buf') >= Len(yajl_gen_buf)
    <3>1. CASE yajl_gen_buf' = yajl_gen_buf
      BY <2>2, <3>1
    <3>2. CASE yajl_gen_buf' = Append(yajl_gen_buf, <<"children">>)
      <4> PICK S : yajl_gen_buf \in Seq(S)
        BY <2>2 DEF IsSequence
      <4>1. Len(Append(yajl_gen_buf, <<"children">>)) = Len(yajl_gen_buf) + 1
        OBVIOUS
      <4> QED
        BY <2>2, <3>2, <4>1
    <3>3. CASE yajl_gen_buf' = yajl_gen_buf \o OpensChild \o Tag("open", Len(body'))
                                 \o <<<<"attributes">>>>
      <4> DEFINE t == Tag("open", Len(body'))
                 a == <<<<"attributes">>>>
      <4>1. IsSequence(OpensChild) /\ IsSequence(t) /\ IsSequence(a)
        BY Pieces, Zenon
      <4> HIDE DEF t, a
      <4>2. /\ IsSequence(yajl_gen_buf \o OpensChild) /\ Len(OpensChild) \in Nat
            /\ Len(yajl_gen_buf \o OpensChild) = Len(yajl_gen_buf) + Len(OpensChild)
        BY <2>2, <4>1, Concat
      <4> DEFINE u == yajl_gen_buf \o OpensChild
      <4> HIDE DEF u
      <4>3. /\ IsSequence(u \o t) /\ Len(t) \in Nat
            /\ Len(u \o t) = Len(u) + Len(t)
        BY <4>1, <4>2, Concat DEF u
      <4> DEFINE v == u \o t
      <4> HIDE DEF v
      <4>4. Len(a) \in Nat /\ Len(v \o a) = Len(v) + Len(a)
        BY <4>1, <4>3, Concat DEF v
      <4>5. yajl_gen_buf' = v \o a
        BY <3>3 DEF u, v, t, a
      <4>6. Len(u) = Len(yajl_gen_buf) + Len(OpensChild) /\ Len(v) = Len(u) + Len(t)
        BY <4>2, <4>3 DEF u, v
      <4> QED
        BY <2>2, <4>2, <4>3, <4>4, <4>5, <4>6
    <3> QED
      BY <1>1, <3>1, <3>2, <3>3
  <2>7. Filled <= Len(yajl_gen_buf)
    BY <2>2
  <2>8. Len(yajl_gen_buf') \in Int
    BY <1>1, <2>2, <2>6
  <2> QED
    BY <2>1, <2>2, <2>5, <2>6, <2>7, <2>8
<1> QED
  BY <1>1, <1>2, <1>4, SameMessages

\* The first text of an element is printed in the document that is open.
LEMMA FirstTextMessages ==
  ASSUME IInv, IInv', MsgInv, FirstText
  PROVE  MsgInv'
<1> DEFINE s == <<<<IF children_printed THEN "tail" ELSE "text", Len(body')>>>>
<1> PICK c \in Tokens : c = "text"
  BY DEF Tokens
<1>1. /\ Consume(c) /\ level > 0 /\ level' = level
      /\ PrintTo(yajl_gen_buf, s)
      /\ last_open_map' = last_open_map /\ ahead' = ahead
      /\ kafka_msgs' = kafka_msgs /\ offered' = offered
  BY DEF FirstText
<1>2. IsSequence(s)
  BY Pieces
<1> HIDE DEF s
<1>3. Printed(yajl_gen_buf, s)
  BY <1>1, Prints
<1> QED
  BY <1>1, <1>2, <1>3, InnerMessages

\* So is the end of a child.
LEMMA EndElementMessages ==
  ASSUME IInv, IInv', MsgInv, EndElement
  PROVE  MsgInv'
<1> PICK c \in Tokens : c = "close"
  BY DEF Tokens
<1>1. /\ Consume(c) /\ level > 1 /\ level' = level - 1
      /\ PrintTo(yajl_gen_buf, ClosesChildren)
      /\ last_open_map' = last_open_map /\ ahead' = ahead
      /\ kafka_msgs' = kafka_msgs /\ offered' = offered
  BY DEF EndElement
<1>2. IsSequence(ClosesChildren)
  BY Pieces, Zenon
<1>3. Printed(yajl_gen_buf, ClosesChildren)
  BY <1>1, Prints
<1> QED
  BY <1>1, <1>2, <1>3, InnerMessages

\* The end of the root adds the message of the document, which fills the buffer.
LEMMA EndRootMessages ==
  ASSUME IInv, IInv', MsgInv, NEW added \in BOOLEAN, EndRoot(added)
  PROVE  MsgInv'
<1> DEFINE s == ClosesChildren \o <<<<"map_close">>>>
<1> PICK c \in Tokens : c = "close"
  BY DEF Tokens
<1>1. /\ Consume(c) /\ level = 1 /\ level' = 0
      /\ \/ added /\ PrintTo(yajl_gen_buf, s)
         \/ ~added /\ oom' = TRUE
      /\ offered' = offered /\ ahead' = ahead
  BY Zenon DEF EndRoot
<1>2. IsSequence(s)
  <2>1. IsSequence(ClosesChildren) /\ IsSequence(<<<<"map_close">>>>)
    BY Pieces
  <2> QED
    BY <2>1, Concat
<1> HIDE DEF s
<1>3. SUFFICES ASSUME ~ahead', ~oom'
               PROVE  /\ kafka_msgs' \in Seq([payload : Nat, len : Nat])
                      /\ IsSequence(offered')
                      /\ OneMessagePerDocument'
                      /\ MessagesTile'
  BY DEF MsgInv, OneMessagePerDocument, MessagesTile
<1>4. added /\ Printed(yajl_gen_buf, s)
  BY <1>1, <1>3, Prints
<1>5. http_response = FALSE /\ Types
  BY <1>1, InCallback, Zenon DEF IInv
<1>6. ~ahead /\ ~oom /\ yajl_gen_buf' = yajl_gen_buf \o s /\ http_response' = FALSE
  BY <1>1, <1>3, <1>4, <1>5 DEF Printed
<1> PICK at : at = last_open_map
  OBVIOUS
<1>7. /\ IsSequence(yajl_gen_buf) /\ Len(yajl_gen_buf) \in Nat
      /\ at \in Nat /\ at < Len(yajl_gen_buf)
      /\ Filled = at
  BY <1>1, <1>6, BufferInCallback
<1>8. Len(s) \in Nat /\ Len(yajl_gen_buf') = Len(yajl_gen_buf) + Len(s)
  BY <1>2, <1>6, <1>7, Concat
<1> PICK n \in Nat : n > 0 /\ n = Len(yajl_gen_buf') - at
  BY <1>7, <1>8
<1>9. kafka_msgs' = Append(kafka_msgs, [payload |-> at, len |-> n])
  <2>1. last_open_map >= 0 /\ Len(yajl_gen_buf') > last_open_map
    BY <1>7, <1>8
  <2> QED
    BY <1>4, <2>1 DEF EndRoot
<1>10. /\ kafka_msgs \in Seq([payload : Nat, len : Nat]) /\ IsSequence(offered)
       /\ Len(offered) + Len(kafka_msgs) = Cardinality(Ends(body))
       /\ Tiled(kafka_msgs) /\ at = FilledBy(kafka_msgs)
  BY <1>6, <1>7 DEF MsgInv, OneMessagePerDocument, MessagesTile, Tiled, Filled, FilledBy
<1> PICK new : new = kafka_msgs'
  OBVIOUS
<1>11. /\ new \in Seq([payload : Nat, len : Nat])
       /\ Len(new) = Len(kafka_msgs) + 1
       /\ FilledBy(new) = at + n
       /\ Tiled(new)
  <2> DEFINE e == [payload |-> at, len |-> n]
  <2>1. e \in [payload : Nat, len : Nat] /\ e.payload = at /\ e.len = n
    BY <1>7
  <2>2. new = Append(kafka_msgs, e)
    BY <1>9
  <2> HIDE DEF e
  <2> QED
    BY <1>10, <2>1, <2>2, MessageAdded
<1>12. OneMessagePerDocument'
  <2>1. Level(body', Len(body')) = 0
    BY <1>1, <1>3, <1>6 DEF IInv, WholeInv, RightInv
  <2>2. /\ IsFiniteSet(Ends(body)) /\ Len(body') \notin Ends(body)
        /\ Ends(body') = Ends(body) \cup {Len(body')}
    BY <1>1, <1>5, <2>1, EndsConsumed DEF Consume
  <2>3. Cardinality(Ends(body')) = Cardinality(Ends(body)) + 1
    BY <2>2, FS_AddElement, Zenon
  <2>4. Len(offered) \in Nat /\ Len(kafka_msgs) \in Nat
    BY <1>10, Concat
  <2>5. Len(offered) + Len(new) = Cardinality(Ends(body'))
    BY <1>10, <1>11, <2>3, <2>4
  <2> QED
    BY <1>1, <2>5 DEF OneMessagePerDocument
<1>13. MessagesTile'
  <2>1. Filled' = at + n
    BY <1>11 DEF Filled, FilledBy
  <2>2. at + n = Len(yajl_gen_buf') /\ Len(yajl_gen_buf') \in Nat
    BY <1>7, <1>8
  <2>3. Filled' <= Len(yajl_gen_buf')
    BY <2>1, <2>2
  <2>4. Filled' = IF level' > 0 THEN last_open_map' ELSE Len(yajl_gen_buf')
    BY <1>1, <2>1, <2>2
  <2> QED
    BY <1>11, <2>3, <2>4 DEF MessagesTile, Tiled
<1> QED
  BY <1>1, <1>10, <1>11, <1>12, <1>13

\* The parser goes on behind a document.
LEMMA RestartMessages ==
  ASSUME IInv, IInv', MsgInv, Restart
  PROVE  MsgInv'
<1>1. /\ pc = "stopped"
      /\ \/ body' = body /\ level' = level
         \/ body' = body \o Unseen(chunk.from + offset - Len(body)) /\ level' = 0
      /\ yajl_gen_buf' = yajl_gen_buf /\ last_open_map' = last_open_map
      /\ http_response' = http_response /\ ahead' = ahead /\ oom' = oom
      /\ kafka_msgs' = kafka_msgs /\ offered' = offered
  BY DEF Restart, zz_reset_xml_handler, genVars, errVars
<1>2. Types /\ chunk.from + offset - Len(body) \in Int
  BY DEF IInv, Types
<1>3. Ends(body') = Ends(body)
  BY <1>1, <1>2, EndsSkipped, Zenon
<1>4. ~http_response => level = 0
  BY <1>1 DEF IInv, StackInv
<1>5. ASSUME ~ahead', ~oom'
      PROVE  /\ Filled <= Len(yajl_gen_buf')
             /\ ~http_response' =>
                  Filled = IF level' > 0 THEN last_open_map' ELSE Len(yajl_gen_buf')
  <2>1. Filled <= Len(yajl_gen_buf)
    BY <1>1, <1>5 DEF MsgInv, MessagesTile
  <2>2. ~http_response => Filled = IF level > 0 THEN last_open_map ELSE Len(yajl_gen_buf)
    BY <1>1, <1>5 DEF MsgInv, MessagesTile, Parsing
  <2>3. ~http_response => level' = level
    BY <1>1, <1>4
  <2> QED
    BY <1>1, <2>1, <2>2, <2>3
<1> QED
  BY <1>1, <1>3, <1>5, SameMessages

\* At the end of a chunk the messages are offered, and the next buffer is empty.
LEMMA EndChunkMessages ==
  ASSUME IInv, MsgInv, EndChunk
  PROVE  MsgInv'
<1>1. /\ offered' = offered \o Payloads /\ kafka_msgs' = <<>> /\ yajl_gen_buf' = <<>>
      /\ body' = body \o Unseen(chunk.to - Len(body))
      /\ pc' \in {"wait", "failed"} /\ ahead' = ahead
      /\ level' = level /\ oom' = oom /\ http_response' = http_response
  BY DEF EndChunk, errVars
<1>2. Types /\ chunk.to - Len(body) \in Int /\ level \in Nat
  BY DEF IInv, Types
<1>3. Ends(body') = Ends(body)
  BY <1>1, <1>2, EndsSkipped, Zenon
<1>4. SUFFICES ASSUME ~ahead', ~oom'
               PROVE  /\ kafka_msgs' \in Seq([payload : Nat, len : Nat])
                      /\ IsSequence(offered')
                      /\ OneMessagePerDocument'
                      /\ MessagesTile'
  BY DEF MsgInv, OneMessagePerDocument, MessagesTile
<1>5. ~ahead /\ ~oom
  BY <1>1, <1>4
<1>6. /\ kafka_msgs \in Seq([payload : Nat, len : Nat]) /\ IsSequence(offered)
      /\ Len(offered) + Len(kafka_msgs) = Cardinality(Ends(body))
  BY <1>5 DEF MsgInv, OneMessagePerDocument
<1>7. IsSequence(Payloads) /\ Len(Payloads) = Len(kafka_msgs)
  <2> DEFINE P(k) == SubSeq(yajl_gen_buf, kafka_msgs[k].payload + 1,
                            kafka_msgs[k].payload + kafka_msgs[k].len)
  <2> PICK m \in Nat : m = Len(kafka_msgs) /\ DOMAIN kafka_msgs = 1..m
    BY <1>6
  <2>1. Payloads = [k \in 1..m |-> P(k)]
    BY DEF Payloads
  <2> HIDE DEF P
  <2>2. [k \in 1..m |-> P(k)] \in Seq({P(k) : k \in 1..m})
    OBVIOUS
  <2>3. Len([k \in 1..m |-> P(k)]) = m
    OBVIOUS
  <2> QED
    BY <2>1, <2>2, <2>3, Zenon DEF IsSequence
<1>8. /\ IsSequence(offered')
      /\ Len(offered) \in Nat /\ Len(Payloads) \in Nat
      /\ Len(offered') = Len(offered) + Len(Payloads)
  BY <1>1, <1>6, <1>7, Concat, Zenon
<1>9. OneMessagePerDocument'
  <2>1. Len(offered') + Len(kafka_msgs') = Cardinality(Ends(body'))
    BY <1>1, <1>3, <1>6, <1>7, <1>8
  <2> QED
    BY <2>1 DEF OneMessagePerDocument
<1>10. MessagesTile'
  <2>1. Filled' = 0 /\ Len(yajl_gen_buf') = 0 /\ DOMAIN kafka_msgs' = {}
    BY <1>1 DEF Filled
  <2> QED
    BY <1>1, <2>1 DEF MessagesTile, Parsing
<1>11. kafka_msgs' \in Seq([payload : Nat, len : Nat])
  BY <1>1
<1> QED
  BY <1>8, <1>9, <1>10, <1>11

\* Nothing of a message changes.
LEMMA QuietMessages ==
  ASSUME MsgInv, ~oom' => ~oom, ahead' = ahead, Parsing' => Parsing,
         http_response' = http_response, body' = body, level' = level,
         yajl_gen_buf' = yajl_gen_buf, last_open_map' = last_open_map,
         kafka_msgs' = kafka_msgs, offered' = offered
  PROVE  MsgInv'
<1>1. ASSUME ~ahead', ~oom'
      PROVE  /\ Ends(body') = Ends(body)
             /\ Filled <= Len(yajl_gen_buf')
             /\ Parsing' /\ ~http_response' =>
                  Filled = IF level' > 0 THEN last_open_map' ELSE Len(yajl_gen_buf')
  BY <1>1 DEF MsgInv, MessagesTile
<1> QED
  BY <1>1, SameMessages

\* A chunk comes: the buffer is empty.
LEMMA ReceiveMessages ==
  ASSUME IInv, IInv', MsgInv, NEW n \in 1..MaxLen, ReceiveChunk(n)
  PROVE  MsgInv'
<1>1. /\ pc = "wait" /\ pc' = "parse" /\ ahead' = (ahead \/ fed > 0)
      /\ chunk' = [from |-> Len(body), to |-> Len(body) + n]
      /\ oom' = oom /\ http_response' = http_response /\ body' = body
      /\ level' = level /\ yajl_gen_buf' = yajl_gen_buf
      /\ kafka_msgs' = kafka_msgs /\ offered' = offered
  BY DEF ReceiveChunk, genVars, errVars
<1>2. ASSUME ~ahead', ~oom'
      PROVE  /\ ~ahead /\ ~oom
             /\ Ends(body') = Ends(body)
             /\ Filled <= Len(yajl_gen_buf')
             /\ ~http_response' =>
                  Filled = IF level' > 0 THEN last_open_map' ELSE Len(yajl_gen_buf')
  <2>1. ~ahead /\ ~oom
    BY <1>1, <1>2
  <2>2. Len(yajl_gen_buf') = 0
    BY <1>1 DEF IInv, ErrorInv
  <2>3. Filled <= 0 /\ Filled \in Nat
    <3>1. kafka_msgs \in Seq([payload : Nat, len : Nat]) /\ Filled <= Len(yajl_gen_buf)
      BY <2>1 DEF MsgInv, MessagesTile
    <3>2. CASE kafka_msgs = <<>>
      BY <3>2 DEF Filled
    <3>3. CASE kafka_msgs # <<>>
      <4>1. PICK k \in 1..Len(kafka_msgs) : k = Len(kafka_msgs)
        BY <3>1, <3>3
      <4>2. kafka_msgs[k] \in [payload : Nat, len : Nat]
        <5> DEFINE M == [payload : Nat, len : Nat]
        <5>1. kafka_msgs \in Seq(M)
          BY <3>1
        <5> HIDE DEF M
        <5>2. kafka_msgs[k] \in M
          BY <5>1
        <5> QED
          BY <5>2 DEF M
      <4>3. Filled = kafka_msgs[k].payload + kafka_msgs[k].len
        BY <3>3, <4>1 DEF Filled
      <4>4. Filled \in Nat
        BY <4>2, <4>3
      <4> QED
        BY <1>1, <2>2, <3>1, <4>4
    <3> QED
      BY <3>2, <3>3
  <2>4. ~http_response' => level' = 0
    <3>1. ~http_response' => RightInv'
      BY <1>2 DEF IInv, WholeInv
    <3>2. Len(body') = chunk'.from
      BY <1>1
    <3> QED
      BY <1>1, <3>1, <3>2 DEF RightInv
  <2> QED
    BY <1>1, <2>1, <2>2, <2>3, <2>4
<1> QED
  BY <1>1, <1>2, SameMessages

\* What is read without a callback is no part of a message.
LEMMA SpaceMessages ==
  ASSUME IInv, MsgInv, NoCallback \/ Epilog
  PROVE  MsgInv'
<1> PICK c \in Tokens : c = "space"
  BY DEF Tokens
<1>1. /\ Parsing
      /\ body' = body \/ Take(c)
      /\ oom' = oom /\ ahead' = ahead /\ http_response' = http_response
      /\ level' = level /\ yajl_gen_buf' = yajl_gen_buf
      /\ last_open_map' = last_open_map
      /\ kafka_msgs' = kafka_msgs /\ offered' = offered
  BY DEF NoCallback, Epilog, Consume, Parsing, expatVars, genVars, errVars
<1>2. Ends(body') = Ends(body)
  <2>1. CASE Take(c)
    BY <2>1, EndsConsumed DEF IInv
  <2> QED
    BY <1>1, <2>1
<1>3. ASSUME ~ahead', ~oom'
      PROVE  /\ Filled <= Len(yajl_gen_buf')
             /\ ~http_response' =>
                  Filled = IF level' > 0 THEN last_open_map' ELSE Len(yajl_gen_buf')
  BY <1>1, <1>3 DEF MsgInv, MessagesTile
<1> QED
  BY <1>1, <1>2, <1>3, SameMessages

\* Every step keeps the messages in their places.
LEMMA NextMessages ==
  ASSUME IInv, IInv', MsgInv, [Next]_vars
  PROVE  MsgInv'
<1>1. CASE NewSession \/ FreeSession \/ UNCHANGED vars
  <2>1. /\ oom' = oom /\ ahead' = ahead /\ http_response' = http_response /\ body' = body
        /\ level' = level /\ yajl_gen_buf' = yajl_gen_buf
        /\ last_open_map' = last_open_map
        /\ kafka_msgs' = kafka_msgs /\ offered' = offered
        /\ pc' = pc \/ pc' \in {"wait", "freed"}
    BY <1>1 DEF NewSession, FreeSession, vars, expatVars, genVars, errVars
  <2> QED
    BY <2>1, QuietMessages DEF Parsing
<1>2. CASE NewSessionFails
  <2>1. /\ ahead' = ahead /\ http_response' = http_response /\ body' = body
        /\ level' = level /\ yajl_gen_buf' = yajl_gen_buf
        /\ last_open_map' = last_open_map
        /\ kafka_msgs' = kafka_msgs /\ offered' = offered
        /\ pc' \in {"idle", "crashed"}
    BY <1>2 DEF NewSessionFails, expatVars, genVars, errVars
  <2>2. ~oom
    BY <1>2 DEF NewSessionFails, IInv, ErrorInv
  <2> QED
    BY <2>1, <2>2, QuietMessages DEF Parsing
<1>3. ASSUME NEW c \in Tokens, StartElement(c)
      PROVE  MsgInv'
  BY <1>3, StartMessages
<1>4. ASSUME NEW c \in Tokens, StartTooDeep(c) \/ ParseError(c)
      PROVE  MsgInv'
  BY <1>4, RefusedMessages
<1>5. CASE FirstText
  BY <1>5, FirstTextMessages
<1>6. CASE MoreText
  BY <1>6, MoreTextMessages
<1>7. CASE EndElement
  BY <1>7, EndElementMessages
<1>8. ASSUME NEW added \in BOOLEAN, EndRoot(added)
      PROVE  MsgInv'
  BY <1>8, EndRootMessages
<1>9. CASE Restart
  BY <1>9, RestartMessages
<1>10. CASE EndChunk
  BY <1>10, EndChunkMessages
<1>11. CASE \E n \in 1..MaxLen : ReceiveChunk(n)
  BY <1>11, ReceiveMessages
<1>12. CASE NoCallback \/ Epilog
  BY <1>12, SpaceMessages
<1>13. CASE ParseFinished
  <2>1. ~(~ahead' /\ ~oom')
    BY <1>13, ParseFinishedKeeps DEF ParseFinished
  <2> QED
    BY <2>1 DEF MsgInv, OneMessagePerDocument, MessagesTile
<1> QED
  BY <1>1, <1>2, <1>3, <1>4, <1>5, <1>6, <1>7, <1>8, <1>9, <1>10, <1>11, <1>12, <1>13
     DEF Next

\* A session starts without a document and without a message.
LEMMA InitMessages == Init => MsgInv
<1> SUFFICES ASSUME Init PROVE MsgInv
  OBVIOUS
<1> USE DEF Init
<1>1. DOMAIN body = {} /\ DOMAIN kafka_msgs = {}
  BY 1..0 = {}
<1>2. Ends(body) = {}
  BY <1>1 DEF Ends
<1>3. Cardinality(Ends(body)) = 0
  BY <1>2, FS_EmptySet, Zenon
<1>4. IsSequence(offered)
  BY Pieces, Zenon
<1>5. OneMessagePerDocument
  BY <1>3 DEF OneMessagePerDocument
<1>6. MessagesTile
  BY <1>1 DEF MessagesTile, Filled
<1>7. kafka_msgs \in Seq([payload : Nat, len : Nat])
  OBVIOUS
<1> QED
  BY <1>4, <1>5, <1>6, <1>7 DEF MsgInv

\* Both invariants hold together in every state of a session.
LEMMA MessagesInvariance == Spec => []MsgInv
<1>1. IInv /\ IInv' /\ MsgInv /\ [Next]_vars => MsgInv'
  BY NextMessages
<1> QED
  BY <1>1, InitMessages, Invariance, PTL DEF Spec

\* For every body, every document that zz_parse_end_xml_element() closes is one
\* message of its session, added to the batch or already offered, as long as
\* every chunk came at a reset of the parser and there was memory.
THEOREM EveryDocumentOnce == Spec => []OneMessagePerDocument
<1>1. MsgInv => OneMessagePerDocument
  BY DEF MsgInv
<1> QED
  BY <1>1, MessagesInvariance, PTL

\* For every body, the payloads of a batch, which are offsets into the
\* generator's buffer, follow each other without a gap from its first byte on,
\* also when an error ends the session.
THEOREM MessagesFillTheBuffer == Spec => []MessagesTile
<1>1. MsgInv => MessagesTile
  BY DEF MsgInv
<1> QED
  BY <1>1, MessagesInvariance, PTL
==============================================================================
