---------------------------- MODULE ZzJsonProofs ----------------------------
(* Proofs about ZzJson, for bodies of every length, however they are cut into *)
(* chunks and whatever allocations fail.                                      *)
EXTENDS ZzJson, FiniteSetTheorems, SequenceTheorems, TLAPS

Bytes == {"open", "close", "other", "bad"}

\* lo is where the top-level object that is open after k bytes of b starts.
IsOpen(b, k, lo) ==
  /\ lo \in 1..k
  /\ Depth(b, lo - 1) = 0
  /\ \A j \in lo..k : Depth(b, j) > 0

\* m is a message for one of the objects S, damaged at most if an allocation
\* for that object failed.
MessageOf(m, S, sp) ==
  \E o \in S : m[Len(m)] = o[2] /\ (o[1] \notin sp => m = Slice(o[1], o[2]))

\* The types, with those of the variables that TypeOK leaves out.
Types ==
  /\ body \in Bodies
  /\ pc \in {"idle", "wait", "parse", "failed"}
  /\ pos \in 0..Len(body)
  /\ chunk \in [first : Nat, last : Nat]
  /\ last_open_map \in 0..pos
  /\ last_object \in Seq(Nat)
  /\ offered \in Seq(Seq(Nat))
  /\ kafka_msgs \in Seq(Seq(Nat))
  /\ rc \in {"OK", "INVALID_REQUEST", "MEMORY_ERROR"}
  /\ spoiled \subseteq 1..MaxLen

\* What a call of zz_decode() does not leave behind, and where it is.
CallInv ==
  /\ pc = "idle" => /\ body = <<>> /\ pos = 0 /\ offered = <<>>
                    /\ last_object = <<>> /\ spoiled = {}
  /\ pc # "parse" => kafka_msgs = <<>> /\ last_open_map = NULL
  /\ pc = "parse" => /\ chunk.first \in 1..(pos + 1)
                     /\ chunk.last \in pos..Len(body)
                     /\ chunk.first <= chunk.last

\* The decoder counts the levels as yajl does, and some object is open when the
\* level is not zero.
DepthInv ==
  /\ stack_pos = Depth(body, pos)
  /\ stack_pos >= 0
  /\ stack_pos > 0 => IsOpen(body, pos, OpenObject(body, pos))

\* Between two chunks, last_object is what was received of the open object.
KeptInv ==
  pc = "wait" =>
    /\ last_object # <<>> => stack_pos > 0
    /\ stack_pos > 0 /\ OpenObject(body, pos) \notin spoiled =>
         last_object = Slice(OpenObject(body, pos), pos)

\* In a chunk, the open object is in last_object if it started before, and starts
\* at last_open_map if it started here.  No object of this chunk has ended
\* before one that started earlier.
ChunkInv ==
  pc = "parse" =>
    /\ last_open_map # NULL => /\ stack_pos > 0
                               /\ last_open_map = OpenObject(body, pos)
                               /\ chunk.first <= last_open_map
                               /\ last_object = <<>>
    /\ last_object # <<>> => /\ stack_pos > 0
                             /\ OpenObject(body, pos) < chunk.first
                             /\ kafka_msgs = <<>>
    /\ stack_pos > 0 /\ OpenObject(body, pos) \notin spoiled =>
         IF OpenObject(body, pos) < chunk.first
         THEN last_object = Slice(OpenObject(body, pos), chunk.first - 1)
         ELSE last_open_map = OpenObject(body, pos)

\* The messages ms are right for the first k bytes of b: EveryObjectOnce and
\* BodyOrder, of values.
MessagesRight(ms, b, k, sp) ==
  /\ ms \in Seq(Seq(Nat))
  /\ \A o \in Objects(b, k) :
       o[1] \notin sp => \E i \in 1..Len(ms) : ms[i] = Slice(o[1], o[2])
  /\ \A i \in 1..Len(ms) : MessageOf(ms[i], Objects(b, k), sp)
  /\ \A i, j \in 1..Len(ms) : i < j => ms[i][Len(ms[i])] < ms[j][Len(ms[j])]

IInv == /\ Types /\ CallInv /\ DepthInv /\ KeptInv /\ ChunkInv
        /\ MessagesRight(Messages, body, pos, spoiled)
-----------------------------------------------------------------------------
(* Lemmas about the operators of the model.                                *)

\* A body is a sequence of bytes of bounded length.
LEMMA BodyType ==
  ASSUME NEW b \in Bodies
  PROVE  /\ b \in Seq(Bytes)
         /\ Len(b) \in 0..MaxLen
         /\ \A k \in 1..Len(b) : b[k] \in Bytes
<1>1. PICK n \in 0..MaxLen : b \in [1..n -> Bytes]
  BY DEF Bodies, Bytes
<1>2. n \in Nat /\ Len(b) = n
  BY <1>1, ConstantsAssumption
<1> QED  BY <1>1, <1>2

\* How many of the first n bytes of b are c, as n grows.
Count(b, c, n) == Cardinality({j \in 1..n : b[j] = c})

LEMMA CountStep ==
  ASSUME NEW b, NEW c, NEW k \in Nat
  PROVE  /\ Count(b, c, k) \in 0..k
         /\ Count(b, c, k + 1) =
              IF b[k + 1] = c THEN Count(b, c, k) + 1 ELSE Count(b, c, k)
<1> DEFINE S == {j \in 1..k : b[j] = c}
           T == {j \in 1..(k + 1) : b[j] = c}
<1>1. IsFiniteSet(1..k) /\ Cardinality(1..k) = k
  BY FS_Interval
<1>2. S \in SUBSET (1..k)
  OBVIOUS
<1>3. IsFiniteSet(S) /\ Cardinality(S) <= k
  BY <1>1, <1>2, FS_Subset
<1>4. Cardinality(S) \in Nat
  BY <1>3, FS_CardinalityType
<1>5. Count(b, c, k) = Cardinality(S) /\ Count(b, c, k + 1) = Cardinality(T)
  BY DEF Count
<1>6. CASE b[k + 1] = c
  <2>1. T = S \cup {k + 1} /\ k + 1 \notin S
    BY <1>6
  <2>2. Cardinality(S \cup {k + 1}) = Cardinality(S) + 1
    BY <1>3, <2>1, FS_AddElement
  <2> QED  BY <1>3, <1>4, <1>5, <1>6, <2>1, <2>2
<1>7. CASE b[k + 1] # c
  <2>1. T = S
    BY <1>7
  <2> QED  BY <1>3, <1>4, <1>5, <1>7, <2>1
<1> QED  BY <1>6, <1>7

\* The depth is zero at the start, changes with the brackets only, and is never
\* larger than the number of bytes.
LEMMA DepthStep ==
  ASSUME NEW b, NEW k \in Nat
  PROVE  /\ Depth(b, k) \in Int /\ Depth(b, k) <= k
         /\ Depth(b, k + 1) =
              Depth(b, k) + (IF b[k + 1] = "open" THEN 1
                             ELSE IF b[k + 1] = "close" THEN -1 ELSE 0)
<1>1. /\ Depth(b, k) = Count(b, "open", k) - Count(b, "close", k)
      /\ Depth(b, k + 1) = Count(b, "open", k + 1) - Count(b, "close", k + 1)
  BY DEF Depth, Count
<1> QED  BY <1>1, CountStep

LEMMA DepthZero == \A b : Depth(b, 0) = 0
<1> TAKE b
<1>1. {j \in 1..0 : b[j] = "open"} = {} /\ {j \in 1..0 : b[j] = "close"} = {}
  OBVIOUS
<1> QED  BY <1>1, FS_EmptySet DEF Depth

\* There is one open object at most, and OpenObject is it.
LEMMA OpenChoice ==
  ASSUME NEW b, NEW k \in Nat, NEW lo, IsOpen(b, k, lo)
  PROVE  OpenObject(b, k) = lo
<1> DEFINE P(i) == Depth(b, i - 1) = 0 /\ \A j \in i..k : Depth(b, j) > 0
<1>1. lo \in 1..k /\ P(lo)
  BY DEF IsOpen
<1>2. ASSUME NEW i \in 1..k, P(i) PROVE i = lo
  <2>1. CASE i < lo
    <3>1. lo - 1 \in i..k /\ Depth(b, lo - 1) = 0
      BY <1>1, <2>1
    <3> QED  BY <1>2, <3>1
  <2>2. CASE lo < i
    <3>1. i - 1 \in lo..k /\ Depth(b, i - 1) = 0
      BY <1>1, <1>2, <2>2
    <3> QED  BY <1>1, <3>1
  <2> QED  BY <1>1, <2>1, <2>2
<1>3. OpenObject(b, k) = CHOOSE i \in 1..k : P(i)
  BY DEF OpenObject
<1> HIDE DEF P
<1> QED  BY <1>1, <1>2, <1>3, Zenon

\* An object opens where the depth leaves zero.
LEMMA OpenStarts ==
  ASSUME NEW b, NEW k \in Nat, Depth(b, k) = 0, b[k + 1] = "open"
  PROVE  IsOpen(b, k + 1, k + 1) /\ OpenObject(b, k + 1) = k + 1
<1>1. Depth(b, k + 1) = 1
  BY DepthStep
<1>2. IsOpen(b, k + 1, k + 1)
  BY <1>1 DEF IsOpen
<1> QED  BY <1>2, OpenChoice

\* It stays open while the depth is not zero.
LEMMA OpenStays ==
  ASSUME NEW b, NEW k \in Nat, NEW lo, IsOpen(b, k, lo), Depth(b, k + 1) > 0
  PROVE  IsOpen(b, k + 1, lo) /\ OpenObject(b, k + 1) = lo
<1>1. IsOpen(b, k + 1, lo)
  BY DEF IsOpen
<1> QED  BY <1>1, OpenChoice

\* The objects that have ended: one more exactly when the open one ends.
LEMMA ObjectsStay ==
  ASSUME NEW b, NEW k \in Nat, b[k + 1] # "close" \/ Depth(b, k + 1) # 0
  PROVE  Objects(b, k + 1) = Objects(b, k)
<1>1. ASSUME NEW o \in Objects(b, k) PROVE o \in Objects(b, k + 1)
  BY <1>1 DEF Objects
<1>2. ASSUME NEW o \in Objects(b, k + 1) PROVE o \in Objects(b, k)
  <2>1. PICK i \in 1..(k + 1), j \in 1..(k + 1) : o = <<i, j>>
    BY <1>2 DEF Objects
  <2>2. i < j /\ b[j] = "close" /\ Depth(b, j) = 0
    BY <1>2, <2>1 DEF Objects
  <2>3. j # k + 1
    BY <2>2
  <2>4. o \in (1..k) \X (1..k)
    BY <2>1, <2>2, <2>3
  <2> QED  BY <1>2, <2>4 DEF Objects
<1> QED  BY <1>1, <1>2

LEMMA ObjectEnds ==
  ASSUME NEW b, NEW k \in Nat, NEW lo, IsOpen(b, k, lo), b[k + 1] = "close",
         Depth(b, k + 1) = 0
  PROVE  Objects(b, k + 1) = Objects(b, k) \cup {<<lo, k + 1>>}
<1>0. lo \in 1..k /\ Depth(b, lo - 1) = 0 /\ \A j \in lo..k : Depth(b, j) > 0
  BY DEF IsOpen
<1>1. ASSUME NEW o \in Objects(b, k) PROVE o \in Objects(b, k + 1)
  BY <1>1 DEF Objects
<1>2. b[lo] = "open"
  <2>1. lo - 1 \in Nat /\ (lo - 1) + 1 = lo /\ Depth(b, lo) > 0
    BY <1>0
  <2> QED  BY <1>0, <2>1, DepthStep
<1>3. <<lo, k + 1>> \in Objects(b, k + 1)
  BY <1>0, <1>2 DEF Objects
<1>4. ASSUME NEW o \in Objects(b, k + 1), o # <<lo, k + 1>> PROVE o \in Objects(b, k)
  <2>1. PICK i \in 1..(k + 1), j \in 1..(k + 1) : o = <<i, j>>
    BY <1>4 DEF Objects
  <2>2. /\ i < j /\ b[j] = "close" /\ Depth(b, j) = 0 /\ Depth(b, i - 1) = 0
        /\ \A n \in i..(j - 1) : Depth(b, n) > 0
    BY <1>4, <2>1 DEF Objects
  <2>3. j # k + 1
    <3> SUFFICES ASSUME j = k + 1 PROVE FALSE
      OBVIOUS
    <3>1. IsOpen(b, k, i)
      BY <2>1, <2>2 DEF IsOpen
    <3>2. i = lo
      BY <3>1, OpenChoice
    <3> QED  BY <1>4, <2>1, <3>2
  <2>4. o \in (1..k) \X (1..k)
    BY <2>1, <2>2, <2>3
  <2> QED  BY <1>4, <2>4 DEF Objects
<1> QED  BY <1>1, <1>3, <1>4

\* Slices: their type, their last byte, and two that are one.
LEMMA SliceType ==
  ASSUME NEW lo \in Nat, NEW hi \in Nat, lo <= hi
  PROVE  /\ Slice(lo, hi) \in Seq(Nat)
         /\ Slice(lo, hi) # <<>>
         /\ Slice(lo, hi)[Len(Slice(lo, hi))] = hi
         /\ lo # NULL => Len(Slice(lo, hi)) = hi - lo + 1
<1>1. CASE lo = NULL
  BY <1>1 DEF Slice
<1>2. CASE lo # NULL
  <2>1. Slice(lo, hi) = [k \in 1..(hi - lo + 1) |-> lo + k - 1]
    BY <1>2 DEF Slice
  <2>2. hi - lo + 1 \in Nat \ {0}
    OBVIOUS
  <2>3. Slice(lo, hi) \in Seq(Nat) /\ Len(Slice(lo, hi)) = hi - lo + 1
    BY <2>1, <2>2
  <2> QED  BY <2>1, <2>2, <2>3
<1> QED  BY <1>1, <1>2

LEMMA SliceConcat ==
  ASSUME NEW lo \in Nat \ {0}, NEW m \in Nat, NEW hi \in Nat, lo <= m, m < hi
  PROVE  Slice(lo, m) \o Slice(m + 1, hi) = Slice(lo, hi)
<1> DEFINE s == Slice(lo, m)
           t == Slice(m + 1, hi)
           u == Slice(lo, hi)
<1>0. lo # NULL /\ m + 1 # NULL
  BY DEF NULL
<1>1. /\ s = [k \in 1..(m - lo + 1) |-> lo + k - 1]
      /\ t = [k \in 1..(hi - m) |-> m + k]
      /\ u = [k \in 1..(hi - lo + 1) |-> lo + k - 1]
  <2>1. hi - (m + 1) + 1 = hi - m /\ \A k \in 1..(hi - m) : (m + 1) + k - 1 = m + k
    OBVIOUS
  <2> QED  BY <1>0, <2>1 DEF Slice
<1> HIDE DEF s, t, u
<1>2. /\ s \in Seq(Nat) /\ Len(s) = m - lo + 1
      /\ t \in Seq(Nat) /\ Len(t) = hi - m
      /\ u \in Seq(Nat) /\ Len(u) = hi - lo + 1
  <2>1. m - lo + 1 \in Nat /\ hi - m \in Nat /\ hi - lo + 1 \in Nat
    OBVIOUS
  <2>2. s \in Seq(Nat) /\ Len(s) = m - lo + 1
    BY <1>1, <2>1
  <2>3. t \in Seq(Nat) /\ Len(t) = hi - m
    BY <1>1, <2>1
  <2>4. u \in Seq(Nat) /\ Len(u) = hi - lo + 1
    BY <1>1, <2>1
  <2> QED  BY <2>2, <2>3, <2>4
<1>3. /\ s \o t \in Seq(Nat)
      /\ Len(s \o t) = Len(s) + Len(t)
      /\ \A i \in 1..(Len(s) + Len(t)) :
           (s \o t)[i] = IF i <= Len(s) THEN s[i] ELSE t[i - Len(s)]
  BY <1>2, ConcatProperties
<1>4. ASSUME NEW i \in 1..Len(u) PROVE (s \o t)[i] = u[i]
  <2>1. u[i] = lo + i - 1
    BY <1>1, <1>2
  <2>2. CASE i <= Len(s)
    <3>1. s[i] = lo + i - 1
      BY <1>1, <1>2, <2>2
    <3> QED  BY <1>2, <1>3, <2>1, <2>2, <3>1
  <2>3. CASE i > Len(s)
    <3>1. i - Len(s) \in 1..(hi - m)
      BY <1>2, <2>3
    <3>2. t[i - Len(s)] = m + (i - Len(s))
      BY <1>1, <3>1
    <3>3. i \in 1..(Len(s) + Len(t)) /\ ~(i <= Len(s))
      BY <1>2, <2>3
    <3>4. (s \o t)[i] = t[i - Len(s)]
      BY <1>3, <3>3
    <3>5. m + (i - Len(s)) = lo + i - 1
      BY <1>2
    <3> QED  BY <2>1, <3>2, <3>4, <3>5
  <2>4. i <= Len(s) \/ i > Len(s)
    BY <1>2
  <2> QED  BY <2>2, <2>3, <2>4
<1>5. Len(s \o t) = Len(u)
  BY <1>2, <1>3
<1>6. s \o t = u
  BY <1>2, <1>3, <1>4, <1>5, SeqEqual
<1> QED  BY <1>6 DEF s, t, u

\* What follows a sequence of numbers ends the result.
LEMMA ConcatEnd ==
  ASSUME NEW s \in Seq(Nat), NEW t \in Seq(Nat), t # <<>>
  PROVE  /\ s \o t \in Seq(Nat) /\ s \o t # <<>>
         /\ (s \o t)[Len(s \o t)] = t[Len(t)]
<1>1. Len(s) \in Nat /\ Len(t) \in Nat \ {0}
  BY EmptySeq, LenProperties
<1>2. /\ s \o t \in Seq(Nat)
      /\ Len(s \o t) = Len(s) + Len(t)
      /\ \A i \in 1..(Len(s) + Len(t)) :
           (s \o t)[i] = IF i <= Len(s) THEN s[i] ELSE t[i - Len(s)]
  BY ConcatProperties
<1>3. (s \o t)[Len(s \o t)] = t[Len(t)]
  BY <1>1, <1>2
<1>4. s \o t # <<>>
  BY <1>1, <1>2
<1> QED  BY <1>2, <1>3, <1>4

LEMMA ConcatAppend ==
  ASSUME NEW S, NEW s \in Seq(S), NEW t \in Seq(S), NEW e \in S
  PROVE  s \o Append(t, e) = Append(s \o t, e)
<1>1. /\ Append(t, e) = t \o <<e>> /\ <<e>> \in Seq(S)
      /\ s \o t \in Seq(S)
  BY AppendIsConcat, ConcatProperties
<1>2. Append(s \o t, e) = (s \o t) \o <<e>>
  BY <1>1, AppendIsConcat
<1> QED  BY <1>1, <1>2, ConcatAssociative
-----------------------------------------------------------------------------
(* What a byte does to the messages.                                       *)

\* No object has ended within no bytes.
LEMMA NoMessages ==
  ASSUME NEW b, NEW sp PROVE MessagesRight(<<>>, b, 0, sp)
<1>1. Objects(b, 0) = {}
  BY DEF Objects
<1> QED  BY <1>1 DEF MessagesRight

\* A message is added for the object that ends with the byte.
LEMMA MessageAdded ==
  ASSUME NEW b, NEW k \in Nat, NEW lo, IsOpen(b, k, lo), b[k + 1] = "close",
         Depth(b, k + 1) = 0, NEW sp, NEW ms, MessagesRight(ms, b, k, sp),
         NEW m \in Seq(Nat), m[Len(m)] = k + 1, lo \notin sp => m = Slice(lo, k + 1)
  PROVE  MessagesRight(Append(ms, m), b, k + 1, sp)
<1> DEFINE ns == Append(ms, m)
           o1 == <<lo, k + 1>>
<1>1. Objects(b, k + 1) = Objects(b, k) \cup {o1}
  BY ObjectEnds
<1>2. /\ ms \in Seq(Seq(Nat)) /\ ns \in Seq(Seq(Nat)) /\ Len(ms) \in Nat
      /\ Len(ns) = Len(ms) + 1 /\ ns[Len(ms) + 1] = m
      /\ \A i \in 1..Len(ms) : ns[i] = ms[i]
  BY AppendProperties, LenProperties DEF MessagesRight
<1> HIDE DEF ns
<1>3. ASSUME NEW o \in Objects(b, k + 1), o[1] \notin sp
      PROVE  \E i \in 1..Len(ns) : ns[i] = Slice(o[1], o[2])
  <2>1. CASE o \in Objects(b, k)
    <3>1. PICK i \in 1..Len(ms) : ms[i] = Slice(o[1], o[2])
      BY <1>3, <2>1 DEF MessagesRight
    <3>2. i \in 1..Len(ns) /\ ns[i] = Slice(o[1], o[2])
      BY <1>2, <3>1
    <3> QED  BY <3>2
  <2>2. CASE o = o1
    <3>1. o[1] = lo /\ o[2] = k + 1
      BY <2>2
    <3>2. ns[Len(ms) + 1] = Slice(o[1], o[2]) /\ Len(ms) + 1 \in 1..Len(ns)
      BY <1>2, <1>3, <3>1
    <3> QED  BY <3>2
  <2> QED  BY <1>1, <1>3, <2>1, <2>2
<1>4. ASSUME NEW i \in 1..Len(ms)
      PROVE  MessageOf(ns[i], Objects(b, k + 1), sp) /\ ns[i][Len(ns[i])] \in 1..k
  <2>1. PICK o \in Objects(b, k) :
          /\ ms[i][Len(ms[i])] = o[2]
          /\ o[1] \notin sp => ms[i] = Slice(o[1], o[2])
    BY DEF MessagesRight, MessageOf
  <2>2. o[2] \in 1..k
    BY DEF Objects
  <2>3. ns[i] = ms[i] /\ o \in Objects(b, k + 1)
    BY <1>1, <1>2
  <2> QED  BY <2>1, <2>2, <2>3 DEF MessageOf
<1>5. MessageOf(ns[Len(ms) + 1], Objects(b, k + 1), sp)
  <2>1. o1 \in Objects(b, k + 1) /\ o1[1] = lo /\ o1[2] = k + 1
    BY <1>1
  <2> HIDE DEF o1
  <2> QED  BY <1>2, <2>1 DEF MessageOf
<1>6. ASSUME NEW i \in 1..Len(ns), NEW j \in 1..Len(ns), i < j
      PROVE  ns[i][Len(ns[i])] < ns[j][Len(ns[j])]
  <2>0. i \in 1..Len(ms)
    BY <1>2, <1>6
  <2>1. i \in 1..Len(ms) /\ ns[i] = ms[i]
    BY <1>2, <2>0
  <2>2. CASE j = Len(ms) + 1
    <3>1. ns[i][Len(ns[i])] \in 1..k
      BY <1>4, <2>1
    <3>2. ns[j][Len(ns[j])] = k + 1
      BY <1>2, <2>2
    <3> QED  BY <3>1, <3>2
  <2>3. CASE j # Len(ms) + 1
    <3>1. j \in 1..Len(ms)
      BY <1>2, <2>3
    <3>2. ns[j] = ms[j]
      BY <1>2, <3>1
    <3> QED  BY <1>6, <2>1, <3>1, <3>2 DEF MessagesRight
  <2> QED  BY <2>2, <2>3
<1>7. \A i \in 1..Len(ns) : i \in 1..Len(ms) \/ i = Len(ms) + 1
  BY <1>2
<1>8. \A i \in 1..Len(ns) : MessageOf(ns[i], Objects(b, k + 1), sp)
  BY <1>4, <1>5, <1>7
<1>9. MessagesRight(ns, b, k + 1, sp)
  BY <1>2, <1>3, <1>6, <1>8 DEF MessagesRight
<1> QED  BY <1>9 DEF ns

\* Or none, and the object is spoiled.
LEMMA MessageLost ==
  ASSUME NEW b, NEW k \in Nat, NEW lo, IsOpen(b, k, lo), b[k + 1] = "close",
         Depth(b, k + 1) = 0, NEW sp, NEW ms, MessagesRight(ms, b, k, sp)
  PROVE  MessagesRight(ms, b, k + 1, sp \cup {lo})
<1>1. Objects(b, k + 1) = Objects(b, k) \cup {<<lo, k + 1>>}
  BY ObjectEnds
<1>2. ASSUME NEW o \in Objects(b, k + 1), o[1] \notin sp \cup {lo}
      PROVE  \E i \in 1..Len(ms) : ms[i] = Slice(o[1], o[2])
  <2>1. o \in Objects(b, k)
    BY <1>1, <1>2
  <2> QED  BY <1>2, <2>1 DEF MessagesRight
<1>3. ASSUME NEW i \in 1..Len(ms)
      PROVE  MessageOf(ms[i], Objects(b, k + 1), sp \cup {lo})
  BY <1>1 DEF MessagesRight, MessageOf
<1> QED  BY <1>2, <1>3 DEF MessagesRight

\* Without the end of an object nothing changes.
LEMMA MessagesStay ==
  ASSUME NEW b, NEW k \in Nat, b[k + 1] # "close" \/ Depth(b, k + 1) # 0,
         NEW sp, NEW ms, MessagesRight(ms, b, k, sp)
  PROVE  MessagesRight(ms, b, k + 1, sp)
BY ObjectsStay DEF MessagesRight

\* An object that is spoiled is one with less to be said about it.
LEMMA MessagesSpoiled ==
  ASSUME NEW b, NEW k, NEW sp, NEW lo, NEW ms, MessagesRight(ms, b, k, sp)
  PROVE  MessagesRight(ms, b, k, sp \cup {lo})
BY DEF MessagesRight, MessageOf
-----------------------------------------------------------------------------
(* The invariant.                                                          *)

\* A session at its start, with any body.
LEMMA Fresh ==
  ASSUME NEW b \in Bodies
  PROVE  /\ 0 \in 0..Len(b) /\ Depth(b, 0) = 0
         /\ MessagesRight(<<>>, b, 0, {})
BY BodyType, DepthZero, NoMessages

LEMMA EmptyBody == <<>> \in Bodies
<1>1. <<>> \in [1..0 -> {"open", "close", "other", "bad"}]
  OBVIOUS
<1>2. 0 \in 0..MaxLen
  BY ConstantsAssumption
<1> QED  BY <1>1, <1>2 DEF Bodies

LEMMA InitIInv == Init => IInv
<1> SUFFICES ASSUME Init PROVE IInv
  OBVIOUS
<1>1. /\ body \in Bodies /\ pos = 0 /\ spoiled = {} /\ Messages = <<>>
      /\ stack_pos = 0
  BY EmptyBody DEF Init, Messages
<1>2. Types
  BY <1>1, Fresh DEF Init, Types, NULL
<1>3. CallInv /\ KeptInv /\ ChunkInv
  BY DEF Init, CallInv, KeptInv, ChunkInv
<1>4. DepthInv
  BY <1>1, Fresh DEF DepthInv
<1>5. MessagesRight(Messages, body, pos, spoiled)
  BY <1>1, Fresh
<1> QED  BY <1>2, <1>3, <1>4, <1>5 DEF IInv

\* yajl consumes a byte.
LEMMA ConsumeFacts ==
  ASSUME IInv, NEW c, Consume(c)
  PROVE  /\ pc = "parse" /\ pc' = "parse" /\ body' = body /\ chunk' = chunk /\ rc' = rc
         /\ pos \in Nat /\ pos' = pos + 1 /\ pos + 1 \in 1..Len(body)
         /\ chunk \in [first : Nat, last : Nat]
         /\ chunk.first \in 1..(pos + 1) /\ chunk.last \in (pos + 1)..Len(body)
         /\ Len(body) \in 0..MaxLen
         /\ body[pos + 1] = c
         /\ stack_pos = Depth(body, pos) /\ stack_pos \in Nat
         /\ Depth(body, pos + 1) = stack_pos + (IF c = "open" THEN 1
                                                ELSE IF c = "close" THEN -1 ELSE 0)
<1>1. body \in Bodies /\ pos \in 0..Len(body) /\ chunk \in [first : Nat, last : Nat]
  BY DEF IInv, Types
<1>2. Len(body) \in 0..MaxLen /\ MaxLen \in Nat
  BY <1>1, BodyType, ConstantsAssumption
<1>3. pos \in Nat
  BY <1>1, <1>2
<1>4. /\ pc = "parse" /\ pos < chunk.last /\ body[pos + 1] = c
      /\ pc' = "parse" /\ body' = body /\ chunk' = chunk /\ rc' = rc /\ pos' = pos + 1
  BY DEF Consume
<1>5. chunk.first \in 1..(pos + 1) /\ chunk.last \in pos..Len(body)
  BY <1>4 DEF IInv, CallInv
<1>6. stack_pos = Depth(body, pos) /\ stack_pos >= 0
  BY DEF IInv, DepthInv
<1>7. stack_pos \in Nat
  BY <1>3, <1>6, DepthStep
<1>8. Depth(body, pos + 1) = stack_pos + (IF c = "open" THEN 1
                                          ELSE IF c = "close" THEN -1 ELSE 0)
  BY <1>3, <1>4, <1>6, DepthStep
<1> QED  BY <1>1, <1>2, <1>3, <1>4, <1>5, <1>6, <1>7, <1>8

\* A byte that ends no object: the open object stays, and so do the messages.
LEMMA StartMapStep == ASSUME IInv, StartMap PROVE IInv'
<1>0. Consume("open")
  BY DEF StartMap
<1> DEFINE lo == OpenObject(body, pos)
           lo1 == OpenObject(body, pos + 1)
<1>1. /\ pc = "parse" /\ pc' = "parse" /\ body' = body /\ chunk' = chunk /\ rc' = rc
      /\ pos \in Nat /\ pos' = pos + 1 /\ pos + 1 \in 1..Len(body)
      /\ chunk \in [first : Nat, last : Nat]
      /\ chunk.first \in 1..(pos + 1) /\ chunk.last \in (pos + 1)..Len(body)
      /\ Len(body) \in 0..MaxLen
      /\ body[pos + 1] = "open"
      /\ stack_pos = Depth(body, pos) /\ stack_pos \in Nat
      /\ Depth(body, pos + 1) = stack_pos + 1
  BY <1>0, ConsumeFacts
<1>2. /\ stack_pos' = stack_pos + 1
      /\ last_open_map' = IF stack_pos = 0 THEN pos + 1 ELSE last_open_map
      /\ last_object' = last_object /\ kafka_msgs' = kafka_msgs
      /\ offered' = offered /\ spoiled' = spoiled
  BY DEF StartMap
<1>3. Types'
  BY <1>1, <1>2 DEF IInv, Types
<1>4. CallInv'
  BY <1>1, <1>2 DEF IInv, CallInv
<1>5. /\ IsOpen(body, pos + 1, lo1)
      /\ lo1 = IF stack_pos = 0 THEN pos + 1 ELSE lo
  <2>1. CASE stack_pos = 0
    BY <1>1, <2>1, OpenStarts
  <2>2. CASE stack_pos # 0
    <3>1. IsOpen(body, pos, lo)
      BY <1>1, <2>2 DEF IInv, DepthInv
    <3> QED  BY <1>1, <2>2, <3>1, OpenStays
  <2> QED  BY <2>1, <2>2
<1>6. OpenObject(body, pos)' = lo1
  BY <1>1
<1>7. DepthInv'
  BY <1>1, <1>2, <1>5 DEF DepthInv
<1>8. KeptInv'
  BY <1>1 DEF KeptInv
<1>9. ChunkInv'
  <2>1. /\ last_open_map # NULL => /\ stack_pos > 0 /\ last_open_map = lo
                                   /\ chunk.first <= last_open_map
                                   /\ last_object = <<>>
        /\ last_object # <<>> => /\ stack_pos > 0 /\ lo < chunk.first
                                 /\ kafka_msgs = <<>>
        /\ stack_pos > 0 /\ lo \notin spoiled =>
             IF lo < chunk.first THEN last_object = Slice(lo, chunk.first - 1)
             ELSE last_open_map = lo
    BY <1>1 DEF IInv, ChunkInv
  <2>2. CASE stack_pos = 0
    BY <1>1, <1>2, <1>5, <1>6, <2>1, <2>2 DEF ChunkInv
  <2>3. CASE stack_pos # 0
    BY <1>1, <1>2, <1>5, <1>6, <2>1, <2>3 DEF ChunkInv
  <2> QED  BY <2>2, <2>3
<1>10. MessagesRight(Messages', body, pos + 1, spoiled)
  <2>1. MessagesRight(Messages, body, pos, spoiled) /\ Messages' = Messages
    BY <1>2 DEF IInv, Messages
  <2> QED  BY <1>1, <2>1, MessagesStay
<1>11. MessagesRight(Messages, body, pos, spoiled)'
  BY <1>1, <1>2, <1>10
<1> QED  BY <1>3, <1>4, <1>7, <1>8, <1>9, <1>11 DEF IInv

LEMMA InsideStep ==
  ASSUME IInv, NEW c, Consume(c), stack_pos' = Depth(body, pos + 1), stack_pos' >= 0,
         stack_pos > 0 <=> stack_pos' > 0, c = "close" => stack_pos' > 0,
         UNCHANGED <<last_open_map, last_object, kafka_msgs, offered, spoiled>>
  PROVE  IInv'
<1> DEFINE lo == OpenObject(body, pos)
           lo1 == OpenObject(body, pos + 1)
<1>1. /\ pc = "parse" /\ pc' = "parse" /\ body' = body /\ chunk' = chunk /\ rc' = rc
      /\ pos \in Nat /\ pos' = pos + 1 /\ pos + 1 \in 1..Len(body)
      /\ chunk \in [first : Nat, last : Nat]
      /\ chunk.first \in 1..(pos + 1) /\ chunk.last \in (pos + 1)..Len(body)
      /\ Len(body) \in 0..MaxLen
      /\ body[pos + 1] = c
      /\ stack_pos = Depth(body, pos) /\ stack_pos \in Nat
  BY ConsumeFacts
<1>2. /\ last_open_map' = last_open_map
      /\ last_object' = last_object /\ kafka_msgs' = kafka_msgs
      /\ offered' = offered /\ spoiled' = spoiled
  OBVIOUS
<1>3. Types'
  BY <1>1, <1>2 DEF IInv, Types
<1>4. CallInv'
  BY <1>1, <1>2 DEF IInv, CallInv
<1>5. stack_pos' > 0 => IsOpen(body, pos + 1, lo1) /\ lo1 = lo
  <2> SUFFICES ASSUME stack_pos' > 0 PROVE IsOpen(body, pos + 1, lo1) /\ lo1 = lo
    OBVIOUS
  <2>1. IsOpen(body, pos, lo)
    BY DEF IInv, DepthInv
  <2> QED  BY <1>1, <2>1, OpenStays
<1>6. OpenObject(body, pos)' = lo1
  BY <1>1
<1>7. DepthInv'
  BY <1>1, <1>2, <1>5 DEF DepthInv
<1>8. KeptInv'
  BY <1>1 DEF KeptInv
<1>9. ChunkInv'
  <2>1. /\ last_open_map # NULL => /\ stack_pos > 0 /\ last_open_map = lo
                                   /\ chunk.first <= last_open_map
                                   /\ last_object = <<>>
        /\ last_object # <<>> => /\ stack_pos > 0 /\ lo < chunk.first
                                 /\ kafka_msgs = <<>>
        /\ stack_pos > 0 /\ lo \notin spoiled =>
             IF lo < chunk.first THEN last_object = Slice(lo, chunk.first - 1)
             ELSE last_open_map = lo
    BY <1>1 DEF IInv, ChunkInv
  <2> QED  BY <1>1, <1>2, <1>5, <1>6, <2>1 DEF ChunkInv
<1>10. MessagesRight(Messages', body, pos + 1, spoiled)
  <2>1. MessagesRight(Messages, body, pos, spoiled) /\ Messages' = Messages
    BY <1>2 DEF IInv, Messages
  <2>2. body[pos + 1] # "close" \/ Depth(body, pos + 1) # 0
    BY <1>1
  <2> QED  BY <1>1, <2>1, <2>2, MessagesStay
<1>11. MessagesRight(Messages, body, pos, spoiled)'
  BY <1>1, <1>2, <1>10
<1> QED  BY <1>3, <1>4, <1>7, <1>8, <1>9, <1>11 DEF IInv

LEMMA OtherByteStep == ASSUME IInv, OtherByte PROVE IInv'
<1>1. /\ Consume("other") /\ stack_pos' = stack_pos
      /\ UNCHANGED <<last_open_map, last_object, kafka_msgs, offered, spoiled>>
  BY DEF OtherByte, sessVars
<1>2. stack_pos \in Nat /\ Depth(body, pos + 1) = stack_pos
  BY <1>1, ConsumeFacts
<1> QED  BY <1>1, <1>2, InsideStep

LEMMA EndInnerMapStep == ASSUME IInv, EndInnerMap PROVE IInv'
<1>1. /\ Consume("close") /\ ~Refuses /\ stack_pos # 1 /\ stack_pos' = stack_pos - 1
      /\ UNCHANGED <<last_open_map, last_object, kafka_msgs, offered, spoiled>>
  BY DEF EndInnerMap
<1>2. /\ stack_pos \in Nat /\ Depth(body, pos + 1) = stack_pos - 1
      /\ body[pos + 1] = "close" /\ stack_pos = Depth(body, pos)
  BY <1>1, ConsumeFacts
<1>3. stack_pos # 0
  BY <1>1, <1>2 DEF Refuses
<1>4. stack_pos' = Depth(body, pos + 1) /\ stack_pos' > 0 /\ stack_pos > 0
  BY <1>1, <1>2, <1>3
<1> QED  BY <1>1, <1>4, InsideStep

\* The byte that ends the open object, whatever becomes of its message.
LEMMA EndFacts ==
  ASSUME IInv, Consume("close"), ~Refuses, stack_pos = 1
  PROVE  /\ IsOpen(body, pos, OpenObject(body, pos))
         /\ OpenObject(body, pos) \in 1..pos
         /\ body[pos + 1] = "close" /\ Depth(body, pos + 1) = 0
         /\ OpenObject(body, pos) \in 1..MaxLen
<1>1. /\ pos \in Nat /\ pos + 1 \in 1..Len(body) /\ Len(body) \in 0..MaxLen
      /\ body[pos + 1] = "close" /\ Depth(body, pos + 1) = 0
  BY ConsumeFacts
<1>2. IsOpen(body, pos, OpenObject(body, pos))
  BY DEF IInv, DepthInv
<1>3. OpenObject(body, pos) \in 1..pos
  BY <1>2 DEF IsOpen
<1>4. OpenObject(body, pos) \in 1..MaxLen
  BY <1>1, <1>3, ConstantsAssumption
<1> QED  BY <1>1, <1>2, <1>3, <1>4

\* After it no object is open, and nothing is kept of one.
LEMMA EndStep ==
  ASSUME IInv, Consume("close"), ~Refuses, stack_pos = 1, stack_pos' = 0,
         last_open_map' = NULL, last_object' = <<>>,
         offered' \in Seq(Seq(Nat)), kafka_msgs' \in Seq(Seq(Nat)),
         spoiled' \in SUBSET (1..MaxLen),
         MessagesRight(Messages', body, pos + 1, spoiled')
  PROVE  IInv'
<1>1. /\ pc = "parse" /\ pc' = "parse" /\ body' = body /\ chunk' = chunk /\ rc' = rc
      /\ pos \in Nat /\ pos' = pos + 1 /\ pos + 1 \in 1..Len(body)
      /\ chunk \in [first : Nat, last : Nat]
      /\ chunk.first \in 1..(pos + 1) /\ chunk.last \in (pos + 1)..Len(body)
      /\ Len(body) \in 0..MaxLen
  BY ConsumeFacts
<1>2. Depth(body, pos + 1) = 0
  BY EndFacts
<1>3. Types'
  BY <1>1 DEF IInv, Types, NULL
<1>4. CallInv'
  BY <1>1 DEF IInv, CallInv
<1>5. DepthInv'
  BY <1>1, <1>2 DEF DepthInv
<1>6. KeptInv' /\ ChunkInv'
  BY <1>1 DEF KeptInv, ChunkInv
<1>7. MessagesRight(Messages, body, pos, spoiled)'
  BY <1>1
<1> QED  BY <1>3, <1>4, <1>5, <1>6, <1>7 DEF IInv

\* The parts of the invariant that are about a chunk, with the open object named.
LEMMA ChunkFacts ==
  ASSUME IInv, pc = "parse", NEW lo, lo = OpenObject(body, pos)
  PROVE  /\ last_open_map # NULL => /\ stack_pos > 0 /\ last_open_map = lo
                                    /\ chunk.first <= last_open_map
                                    /\ last_object = <<>>
         /\ last_object # <<>> => /\ stack_pos > 0 /\ lo < chunk.first
                                  /\ kafka_msgs = <<>> /\ last_open_map = NULL
         /\ stack_pos > 0 /\ lo \notin spoiled =>
              \/ lo < chunk.first /\ last_object = Slice(lo, chunk.first - 1)
              \/ lo >= chunk.first /\ last_open_map = lo
         /\ stack_pos > 0 => IsOpen(body, pos, lo) /\ lo \in 1..pos
         /\ chunk.first \in Nat \ {0} /\ chunk.last \in Nat /\ pos \in Nat
         /\ pos <= chunk.last /\ chunk.first <= chunk.last
         /\ pos <= MaxLen /\ chunk.first <= pos + 1
<1>1. ChunkInv /\ CallInv /\ Types /\ DepthInv
  BY DEF IInv
<1>2. /\ last_open_map # NULL => /\ stack_pos > 0 /\ last_open_map = lo
                                 /\ chunk.first <= last_open_map
                                 /\ last_object = <<>>
      /\ last_object # <<>> => /\ stack_pos > 0 /\ lo < chunk.first
                               /\ kafka_msgs = <<>>
      /\ stack_pos > 0 /\ lo \notin spoiled =>
           IF lo < chunk.first THEN last_object = Slice(lo, chunk.first - 1)
           ELSE last_open_map = lo
  BY <1>1 DEF ChunkInv
<1>3. stack_pos > 0 => IsOpen(body, pos, lo) /\ lo \in 1..pos
  BY <1>1 DEF DepthInv, IsOpen
<1>4. Len(body) \in 0..MaxLen /\ MaxLen \in Nat /\ pos \in 0..Len(body)
  BY <1>1, BodyType, ConstantsAssumption DEF Types
<1>5. /\ chunk.first \in 1..(pos + 1) /\ chunk.last \in pos..Len(body)
      /\ chunk.first <= chunk.last
  BY <1>1 DEF CallInv
<1>6. /\ chunk.first \in Nat \ {0} /\ chunk.last \in Nat /\ pos \in Nat
      /\ pos <= chunk.last /\ chunk.first <= chunk.last
      /\ pos <= MaxLen /\ chunk.first <= pos + 1
  BY <1>4, <1>5
<1>7. stack_pos > 0 /\ lo \notin spoiled =>
        \/ lo < chunk.first /\ last_object = Slice(lo, chunk.first - 1)
        \/ lo >= chunk.first /\ last_open_map = lo
  BY <1>2, <1>3, <1>6
<1> QED  BY <1>2, <1>3, <1>6, <1>7

\* The end of an object that is a slice of the chunk.
LEMMA EndMap0Step ==
  ASSUME IInv, NEW ok \in BOOLEAN, EndMap0(ok) PROVE IInv'
<1>0. /\ Consume("close") /\ ~Refuses /\ stack_pos = 1 /\ stack_pos' = 0
      /\ last_object = <<>> /\ last_object' = <<>> /\ last_open_map' = NULL
      /\ offered' = offered
      /\ kafka_msgs' = IF ok THEN Append(kafka_msgs, Slice(last_open_map, pos + 1))
                       ELSE kafka_msgs
      /\ spoiled' = IF ok THEN spoiled ELSE spoiled \cup {OpenObject(body, pos)}
  BY DEF EndMap0, Allocation
<1>1. PICK lo : lo = OpenObject(body, pos)
  OBVIOUS
<1>2. /\ IsOpen(body, pos, lo) /\ lo \in 1..pos /\ lo \in 1..MaxLen
      /\ body[pos + 1] = "close" /\ Depth(body, pos + 1) = 0
      /\ pos \in Nat /\ pc = "parse"
  BY <1>0, <1>1, EndFacts, ConsumeFacts
<1>3. /\ offered \in Seq(Seq(Nat)) /\ kafka_msgs \in Seq(Seq(Nat))
      /\ spoiled \in SUBSET (1..MaxLen) /\ last_open_map \in 0..pos
      /\ MessagesRight(offered \o kafka_msgs, body, pos, spoiled)
  BY DEF IInv, Types, Messages
<1>4. CASE ~ok
  <2>1. Messages' = offered \o kafka_msgs
    BY <1>0, <1>4 DEF Messages
  <2>2. MessagesRight(Messages', body, pos + 1, spoiled')
    BY <1>0, <1>1, <1>2, <1>3, <1>4, <2>1, MessageLost
  <2>3. /\ offered' \in Seq(Seq(Nat)) /\ kafka_msgs' \in Seq(Seq(Nat))
        /\ spoiled' \in SUBSET (1..MaxLen)
    BY <1>0, <1>1, <1>2, <1>3, <1>4
  <2> QED  BY <1>0, <2>2, <2>3, EndStep
<1>5. CASE ok
  <2> DEFINE m == Slice(last_open_map, pos + 1)
  <2>1. last_open_map \in Nat /\ pos + 1 \in Nat /\ last_open_map <= pos + 1
    BY <1>2, <1>3
  <2>2. m \in Seq(Nat) /\ m[Len(m)] = pos + 1
    BY <2>1, SliceType
  <2>3. lo \notin spoiled => m = Slice(lo, pos + 1)
    <3> SUFFICES ASSUME lo \notin spoiled PROVE last_open_map = lo
      OBVIOUS
    <3>1. \/ lo < chunk.first /\ last_object = Slice(lo, chunk.first - 1)
          \/ last_open_map = lo
      BY <1>0, <1>1, <1>2, ChunkFacts
    <3>2. PICK first \in Nat : first = chunk.first
      BY <1>1, <1>2, ChunkFacts
    <3>3. lo < first => lo \in Nat /\ first - 1 \in Nat /\ lo <= first - 1
      BY <1>2
    <3>4. lo < first => Slice(lo, first - 1) # <<>>
      BY <3>3, SliceType
    <3> QED  BY <1>0, <3>1, <3>2, <3>4
  <2> HIDE DEF m
  <2>4. kafka_msgs' = Append(kafka_msgs, m) /\ spoiled' = spoiled
    BY <1>0, <1>5 DEF m
  <2>5. Messages' = Append(offered \o kafka_msgs, m)
    <3>0. /\ offered \in Seq(Seq(Nat)) /\ kafka_msgs \in Seq(Seq(Nat))
          /\ m \in Seq(Nat)
      BY <1>3, <2>2
    <3>1. offered \o Append(kafka_msgs, m) = Append(offered \o kafka_msgs, m)
      BY <3>0, ConcatAppend
    <3> QED  BY <1>0, <2>4, <3>1 DEF Messages
  <2>6. MessagesRight(Append(offered \o kafka_msgs, m), body, pos + 1, spoiled)
    BY <1>2, <1>3, <2>2, <2>3, MessageAdded
  <2>7. kafka_msgs' \in Seq(Seq(Nat))
    BY <1>3, <2>2, <2>4, AppendProperties
  <2> QED  BY <1>0, <1>3, <2>4, <2>5, <2>6, <2>7, EndStep
<1> QED  BY <1>4, <1>5

\* The end of an object that started in an earlier chunk.
LEMMA EndMapSplitStep ==
  ASSUME IInv, NEW ok \in BOOLEAN, EndMapSplit(ok) PROVE IInv'
<1>0. /\ Consume("close") /\ ~Refuses /\ stack_pos = 1 /\ stack_pos' = 0
      /\ last_object # <<>> /\ last_object' = <<>> /\ last_open_map' = last_open_map
      /\ kafka_msgs' = kafka_msgs
      /\ offered' = IF ok THEN Append(offered, last_object \o
                                                 Slice(chunk.first, pos + 1))
                    ELSE offered
      /\ spoiled' = IF ok THEN spoiled ELSE spoiled \cup {OpenObject(body, pos)}
  BY DEF EndMapSplit, Allocation
<1>1. PICK lo : lo = OpenObject(body, pos)
  OBVIOUS
<1>2. /\ IsOpen(body, pos, lo) /\ lo \in 1..pos /\ lo \in 1..MaxLen
      /\ body[pos + 1] = "close" /\ Depth(body, pos + 1) = 0
      /\ pos \in Nat /\ pc = "parse"
  BY <1>0, <1>1, EndFacts, ConsumeFacts
<1>3. /\ offered \in Seq(Seq(Nat)) /\ kafka_msgs \in Seq(Seq(Nat))
      /\ spoiled \in SUBSET (1..MaxLen) /\ last_object \in Seq(Nat)
      /\ MessagesRight(offered \o kafka_msgs, body, pos, spoiled)
  BY DEF IInv, Types, Messages
<1>4. /\ kafka_msgs = <<>> /\ last_open_map = NULL /\ lo < chunk.first
      /\ chunk.first \in Nat \ {0} /\ chunk.first <= pos + 1
      /\ lo \notin spoiled => last_object = Slice(lo, chunk.first - 1)
  BY <1>0, <1>1, <1>2, ChunkFacts
<1> PICK first \in Nat \ {0} : first = chunk.first
  BY <1>4
<1>5. CASE ~ok
  <2>1. Messages' = offered \o kafka_msgs
    BY <1>0, <1>5 DEF Messages
  <2>2. MessagesRight(Messages', body, pos + 1, spoiled')
    BY <1>0, <1>1, <1>2, <1>3, <1>5, <2>1, MessageLost
  <2>3. /\ offered' \in Seq(Seq(Nat)) /\ kafka_msgs' \in Seq(Seq(Nat))
        /\ spoiled' \in SUBSET (1..MaxLen)
    BY <1>0, <1>1, <1>2, <1>3, <1>5
  <2> QED  BY <1>0, <1>4, <2>2, <2>3, EndStep
<1>6. CASE ok
  <2> DEFINE t == Slice(first, pos + 1)
             m == last_object \o t
  <2>0. first \in Nat /\ pos + 1 \in Nat /\ first <= pos + 1
    BY <1>2, <1>4
  <2>1. t \in Seq(Nat) /\ t # <<>> /\ t[Len(t)] = pos + 1
    BY <2>0, SliceType
  <2> HIDE DEF t
  <2>2. m \in Seq(Nat) /\ m[Len(m)] = pos + 1
    BY <1>3, <2>1, ConcatEnd
  <2>3. lo \notin spoiled => m = Slice(lo, pos + 1)
    <3> SUFFICES ASSUME lo \notin spoiled PROVE m = Slice(lo, pos + 1)
      OBVIOUS
    <3>1. /\ first - 1 \in Nat /\ lo <= first - 1 /\ first - 1 < pos + 1
          /\ (first - 1) + 1 = first /\ lo \in Nat \ {0} /\ pos + 1 \in Nat
      BY <1>2, <1>4
    <3>2. Slice(lo, first - 1) \o Slice((first - 1) + 1, pos + 1) = Slice(lo, pos + 1)
      BY <3>1, SliceConcat
    <3> QED  BY <1>4, <3>1, <3>2 DEF t
  <2>4. offered' = Append(offered, m) /\ spoiled' = spoiled
    BY <1>0, <1>6 DEF t
  <2> HIDE DEF m
  <2>5. offered \o kafka_msgs = offered /\ Append(offered, m) \in Seq(Seq(Nat))
    BY <1>3, <1>4, <2>2, ConcatEmptySeq, AppendProperties
  <2>6. Messages' = Append(offered, m)
    BY <1>0, <1>4, <2>4, <2>5, ConcatEmptySeq DEF Messages
  <2>7. MessagesRight(Append(offered, m), body, pos + 1, spoiled)
    BY <1>2, <1>3, <2>2, <2>3, <2>5, MessageAdded
  <2> QED  BY <1>0, <1>3, <1>4, <2>4, <2>5, <2>6, <2>7, EndStep
<1> QED  BY <1>5, <1>6

\* A call begins or fails, and a session begins or ends.
LEMMA ReceiveChunkStep ==
  ASSUME IInv, NEW n \in 1..MaxLen, ReceiveChunk(n) PROVE IInv'
<1>0. /\ pc = "wait" /\ pos + n <= Len(body) /\ pc' = "parse"
      /\ chunk' = [first |-> pos + 1, last |-> pos + n]
      /\ body' = body /\ pos' = pos /\ offered' = offered /\ rc' = rc
      /\ spoiled' = spoiled /\ stack_pos' = stack_pos /\ last_open_map' = last_open_map
      /\ last_object' = last_object /\ kafka_msgs' = kafka_msgs
  BY DEF ReceiveChunk, sessVars
<1>1. Types /\ CallInv /\ DepthInv /\ KeptInv
      /\ MessagesRight(Messages, body, pos, spoiled)
  BY DEF IInv
<1>2. body \in Bodies /\ pos \in 0..Len(body)
  BY <1>1 DEF Types
<1>3. Len(body) \in 0..MaxLen /\ MaxLen \in Nat /\ n \in Nat \ {0}
  BY <1>2, BodyType, ConstantsAssumption
<1>4. /\ pos \in Nat /\ pos + 1 \in Nat /\ pos + n \in Nat /\ pos + 1 <= pos + n
      /\ pos + n \in pos..Len(body) /\ (pos + 1) - 1 = pos
  BY <1>0, <1>2, <1>3
<1>5. Types'
  BY <1>0, <1>1, <1>4 DEF Types
<1>6. CallInv'
  BY <1>0, <1>4 DEF CallInv
<1>7. DepthInv' /\ KeptInv'
  BY <1>0, <1>1 DEF DepthInv, KeptInv
<1>8. ChunkInv'
  <2>1. PICK lo : lo = OpenObject(body, pos)
    OBVIOUS
  <2>2. stack_pos > 0 => lo < pos + 1
    BY <1>1, <1>4, <2>1 DEF DepthInv, IsOpen
  <2>3. last_open_map = NULL /\ kafka_msgs = <<>>
    BY <1>0, <1>1 DEF CallInv
  <2>4. /\ last_object # <<>> => stack_pos > 0
        /\ stack_pos > 0 /\ lo \notin spoiled => last_object = Slice(lo, (pos + 1) - 1)
    BY <1>0, <1>1, <1>4, <2>1 DEF KeptInv
  <2>5. OpenObject(body, pos)' = lo /\ chunk'.first = pos + 1
    BY <1>0, <2>1
  <2> QED  BY <1>0, <2>2, <2>3, <2>4, <2>5 DEF ChunkInv
<1>9. MessagesRight(Messages, body, pos, spoiled)'
  BY <1>0, <1>1 DEF Messages
<1> QED  BY <1>5, <1>6, <1>7, <1>8, <1>9 DEF IInv

LEMMA ReceiveNoMemoryStep == ASSUME IInv, ReceiveNoMemory PROVE IInv'
<1>0. /\ pc = "wait" /\ pc' = "failed" /\ rc' = "MEMORY_ERROR"
      /\ body' = body /\ pos' = pos /\ offered' = offered /\ chunk' = chunk
      /\ spoiled' = spoiled /\ stack_pos' = stack_pos /\ last_open_map' = last_open_map
      /\ last_object' = last_object /\ kafka_msgs' = kafka_msgs
  BY DEF ReceiveNoMemory, sessVars
<1>1. Types' /\ CallInv'
  BY <1>0 DEF IInv, Types, CallInv
<1>2. DepthInv' /\ KeptInv' /\ ChunkInv'
  BY <1>0 DEF IInv, DepthInv, KeptInv, ChunkInv
<1>3. MessagesRight(Messages, body, pos, spoiled)'
  BY <1>0 DEF IInv, Messages
<1> QED  BY <1>1, <1>2, <1>3 DEF IInv

LEMMA NewSessionStep ==
  ASSUME IInv, NEW b \in Bodies, NewSession(b) PROVE IInv'
<1>0. /\ pc = "idle" /\ pc' = "wait" /\ body' = b
      /\ pos' = pos /\ offered' = offered /\ chunk' = chunk /\ rc' = rc
      /\ spoiled' = spoiled /\ stack_pos' = stack_pos /\ last_open_map' = last_open_map
      /\ last_object' = last_object /\ kafka_msgs' = kafka_msgs
  BY DEF NewSession, sessVars
<1>1. /\ pos = 0 /\ offered = <<>> /\ last_object = <<>> /\ spoiled = {}
      /\ kafka_msgs = <<>> /\ last_open_map = NULL
  BY <1>0 DEF IInv, CallInv
<1>2. stack_pos = 0
  BY <1>1, DepthZero DEF IInv, DepthInv
<1>3. Types'
  BY <1>0, <1>1, Fresh DEF IInv, Types
<1>4. CallInv' /\ ChunkInv'
  BY <1>0, <1>1 DEF CallInv, ChunkInv
<1>5. DepthInv' /\ KeptInv'
  BY <1>0, <1>1, <1>2, Fresh DEF DepthInv, KeptInv
<1>6. MessagesRight(Messages, body, pos, spoiled)'
  <2>1. Messages' = <<>>
    BY <1>0, <1>1 DEF Messages
  <2> QED  BY <1>0, <1>1, <2>1, Fresh
<1> QED  BY <1>3, <1>4, <1>5, <1>6 DEF IInv

LEMMA FreeSessionStep == ASSUME IInv, FreeSession PROVE IInv'
<1>0. /\ pc # "parse" /\ pc' = "idle" /\ body' = <<>> /\ pos' = 0
      /\ chunk' = [first |-> 1, last |-> 0] /\ stack_pos' = 0 /\ last_object' = <<>>
      /\ offered' = <<>> /\ rc' = "OK" /\ spoiled' = {}
      /\ last_open_map' = last_open_map /\ kafka_msgs' = kafka_msgs
  BY DEF FreeSession
<1>1. kafka_msgs = <<>> /\ last_open_map = NULL
  BY <1>0 DEF IInv, CallInv
<1>2. Types'
  BY <1>0, <1>1, EmptyBody, Fresh DEF Types, NULL
<1>3. CallInv' /\ KeptInv' /\ ChunkInv'
  BY <1>0, <1>1 DEF CallInv, KeptInv, ChunkInv
<1>4. DepthInv'
  BY <1>0, DepthZero DEF DepthInv
<1>5. MessagesRight(Messages, body, pos, spoiled)'
  <2>1. Messages' = <<>>
    BY <1>0, <1>1 DEF Messages
  <2> QED  BY <1>0, <2>1, EmptyBody, Fresh
<1> QED  BY <1>2, <1>3, <1>4, <1>5 DEF IInv

\* The end of a call moves messages only.
LEMMA EndOfCallFacts ==
  ASSUME IInv, EndOfCall
  PROVE  /\ offered' \in Seq(Seq(Nat)) /\ kafka_msgs' = <<>> /\ last_open_map' = NULL
         /\ body' = body /\ pos' = pos /\ chunk' = chunk /\ stack_pos' = stack_pos
         /\ Messages' = Messages
<1>1. offered \in Seq(Seq(Nat)) /\ kafka_msgs \in Seq(Seq(Nat))
  BY DEF IInv, Types
<1>2. offered \o kafka_msgs \in Seq(Seq(Nat))
  BY <1>1, ConcatProperties
<1>3. (offered \o kafka_msgs) \o <<>> = offered \o kafka_msgs
  BY <1>2, ConcatEmptySeq
<1> QED  BY <1>2, <1>3 DEF EndOfCall, Messages

LEMMA ParseErrorStep == ASSUME IInv, ParseError PROVE IInv'
<1>0. /\ EndOfCall /\ pc' = "failed" /\ rc' = "INVALID_REQUEST"
      /\ last_object' = last_object /\ spoiled' = spoiled
  BY DEF ParseError
<1>1. /\ offered' \in Seq(Seq(Nat)) /\ kafka_msgs' = <<>> /\ last_open_map' = NULL
      /\ body' = body /\ pos' = pos /\ chunk' = chunk /\ stack_pos' = stack_pos
      /\ Messages' = Messages
  BY <1>0, EndOfCallFacts
<1>2. Types'
  <2>1. 0 \in 0..pos
    BY BodyType, ConstantsAssumption DEF IInv, Types
  <2> QED  BY <1>0, <1>1, <2>1 DEF IInv, Types, NULL
<1>3. CallInv' /\ KeptInv' /\ ChunkInv'
  BY <1>0, <1>1 DEF CallInv, KeptInv, ChunkInv
<1>4. DepthInv'
  BY <1>1 DEF IInv, DepthInv
<1>5. MessagesRight(Messages, body, pos, spoiled)'
  BY <1>0, <1>1 DEF IInv
<1> QED  BY <1>2, <1>3, <1>4, <1>5 DEF IInv

\* What last_object becomes at the end of a chunk.
LEMMA LastObjectFacts ==
  ASSUME IInv, pc = "parse", pos = chunk.last
  PROVE  /\ LastObject \in Seq(Nat)
         /\ LastObject # <<>> => stack_pos > 0
         /\ LastObject # last_object => stack_pos > 0
         /\ stack_pos > 0 /\ OpenObject(body, pos) \notin spoiled =>
              LastObject = Slice(OpenObject(body, pos), pos)
<1>1. PICK lo : lo = OpenObject(body, pos)
  OBVIOUS
<1>2. PICK first \in Nat \ {0} : first = chunk.first
  BY <1>1, ChunkFacts
<1>3. /\ last_open_map # NULL => /\ stack_pos > 0 /\ last_open_map = lo
                                 /\ last_object = <<>>
      /\ last_object # <<>> => /\ stack_pos > 0 /\ lo < first /\ last_open_map = NULL
      /\ stack_pos > 0 /\ lo \notin spoiled =>
           \/ lo < first /\ last_object = Slice(lo, first - 1)
           \/ lo >= first /\ last_open_map = lo
      /\ stack_pos > 0 => lo \in 1..pos
      /\ pos \in Nat /\ first <= pos
  BY <1>1, <1>2, ChunkFacts
<1>4. last_object \in Seq(Nat)
  BY DEF IInv, Types
<1>5. CASE last_open_map # NULL
  <2>1. lo \in Nat /\ lo <= pos
    BY <1>3, <1>5
  <2>2. Slice(lo, pos) \in Seq(Nat)
    BY <1>3, <2>1, SliceType
  <2>3. <<>> \o Slice(lo, pos) = Slice(lo, pos)
    BY <2>2, ConcatEmptySeq
  <2>4. LastObject = Slice(lo, pos)
    BY <1>3, <1>5, <2>3 DEF LastObject
  <2> QED  BY <1>1, <1>3, <1>5, <2>2, <2>4
<1>6. CASE last_open_map = NULL /\ last_object # <<>>
  <2>1. LastObject = last_object \o Slice(first, pos)
    BY <1>2, <1>6 DEF LastObject
  <2>2. first \in Nat /\ first <= pos
    BY <1>3
  <2>3. Slice(first, pos) \in Seq(Nat)
    BY <1>3, <2>2, SliceType
  <2>4. LastObject \in Seq(Nat)
    BY <1>4, <2>1, <2>3, ConcatProperties
  <2>5. lo \notin spoiled => LastObject = Slice(lo, pos)
    <3> SUFFICES ASSUME lo \notin spoiled PROVE LastObject = Slice(lo, pos)
      OBVIOUS
    <3>1. lo \in 1..pos /\ lo < first
      BY <1>3, <1>6
    <3>2. last_object = Slice(lo, first - 1)
      BY <1>3, <1>6, <3>1
    <3>3. /\ lo \in Nat \ {0} /\ first - 1 \in Nat /\ lo <= first - 1 /\ first - 1 < pos
          /\ (first - 1) + 1 = first
      BY <1>3, <3>1
    <3>4. Slice(lo, first - 1) \o Slice((first - 1) + 1, pos) = Slice(lo, pos)
      BY <1>3, <3>3, SliceConcat
    <3> QED  BY <2>1, <3>2, <3>3, <3>4
  <2> QED  BY <1>1, <1>3, <1>6, <2>4, <2>5
<1>7. CASE last_open_map = NULL /\ last_object = <<>>
  <2>1. LastObject = <<>>
    BY <1>7 DEF LastObject
  <2>2. stack_pos > 0 => lo \in spoiled
    <3> SUFFICES ASSUME stack_pos > 0, lo \notin spoiled PROVE FALSE
      OBVIOUS
    <3>1. lo \in 1..pos /\ lo # NULL
      BY <1>3 DEF NULL
    <3>2. lo < first /\ last_object = Slice(lo, first - 1)
      BY <1>3, <1>7, <3>1
    <3>3. lo \in Nat /\ first - 1 \in Nat /\ lo <= first - 1
      BY <1>3, <3>1, <3>2
    <3>4. Slice(lo, first - 1) # <<>>
      BY <3>3, SliceType
    <3> QED  BY <1>7, <3>2, <3>4
  <2> QED  BY <1>1, <1>7, <2>1, <2>2
<1> QED  BY <1>5, <1>6, <1>7

LEMMA EndChunkStep ==
  ASSUME IInv, NEW ok \in BOOLEAN, EndChunk(ok) PROVE IInv'
<1>0. /\ EndOfCall /\ pc = "parse" /\ pos = chunk.last /\ pc' = "wait" /\ rc' = "OK"
      /\ ok \/ LastObject # last_object
      /\ last_object' = IF ok THEN LastObject ELSE last_object
      /\ spoiled' = IF ok THEN spoiled ELSE spoiled \cup {OpenObject(body, pos)}
  BY DEF EndChunk, Allocation
<1>1. /\ offered' \in Seq(Seq(Nat)) /\ kafka_msgs' = <<>> /\ last_open_map' = NULL
      /\ body' = body /\ pos' = pos /\ chunk' = chunk /\ stack_pos' = stack_pos
      /\ Messages' = Messages
  BY <1>0, EndOfCallFacts
<1>2. PICK lo : lo = OpenObject(body, pos)
  OBVIOUS
<1>3. /\ stack_pos > 0 => lo \in 1..pos
      /\ pos \in Nat /\ pos <= MaxLen
      /\ last_object # <<>> => stack_pos > 0
  BY <1>0, <1>2, ChunkFacts
<1>4. /\ LastObject \in Seq(Nat)
      /\ LastObject # <<>> => stack_pos > 0
      /\ LastObject # last_object => stack_pos > 0
      /\ stack_pos > 0 /\ lo \notin spoiled => LastObject = Slice(lo, pos)
  BY <1>0, <1>2, LastObjectFacts
<1>5. ~ok => lo \in 1..MaxLen
  BY <1>0, <1>3, <1>4, ConstantsAssumption
<1>6. Types'
  <2>1. last_object' \in Seq(Nat)
    BY <1>0, <1>4 DEF IInv, Types
  <2>2. spoiled' \subseteq 1..MaxLen
    BY <1>0, <1>2, <1>5 DEF IInv, Types
  <2>3. 0 \in 0..pos
    BY <1>3
  <2> QED  BY <1>0, <1>1, <2>1, <2>2, <2>3 DEF IInv, Types, NULL
<1>7. CallInv' /\ ChunkInv'
  BY <1>0, <1>1 DEF CallInv, ChunkInv
<1>8. DepthInv'
  BY <1>1 DEF IInv, DepthInv
<1>9. KeptInv'
  <2>1. OpenObject(body, pos)' = lo
    BY <1>1, <1>2
  <2>2. CASE ok
    BY <1>0, <1>1, <1>4, <2>1, <2>2 DEF KeptInv
  <2>3. CASE ~ok
    BY <1>0, <1>1, <1>2, <1>3, <2>1, <2>3 DEF KeptInv
  <2> QED  BY <2>2, <2>3
<1>10. MessagesRight(Messages, body, pos, spoiled)'
  <2>1. MessagesRight(Messages, body, pos, spoiled)
    BY DEF IInv
  <2>2. MessagesRight(Messages, body, pos, spoiled')
    BY <1>0, <2>1, MessagesSpoiled
  <2> QED  BY <1>1, <2>2
<1> QED  BY <1>6, <1>7, <1>8, <1>9, <1>10 DEF IInv

LEMMA NextIInv == IInv /\ [Next]_vars => IInv'
<1>1. ASSUME IInv, UNCHANGED vars PROVE IInv'
  <2>1. UNCHANGED <<body, pc, pos, chunk, stack_pos, last_open_map, last_object,
                    kafka_msgs, offered, rc, spoiled>>
    BY <1>1 DEF vars, sessVars
  <2>2. Types' /\ CallInv' /\ DepthInv' /\ KeptInv' /\ ChunkInv'
    BY <1>1, <2>1 DEF IInv, Types, CallInv, DepthInv, KeptInv, ChunkInv
  <2>3. MessagesRight(Messages, body, pos, spoiled)'
    BY <1>1, <2>1 DEF IInv, Messages
  <2> QED  BY <2>2, <2>3 DEF IInv
<1> QED  BY <1>1, NewSessionStep, ReceiveChunkStep, ReceiveNoMemoryStep, StartMapStep,
            EndInnerMapStep, OtherByteStep, ParseErrorStep, EndMap0Step,
            EndMapSplitStep, EndChunkStep, FreeSessionStep DEF Next
-----------------------------------------------------------------------------
\* The inductive invariant of a JSON session: process_json_buffer() keeps of an
\* object what its end will need, wherever the chunks are cut.
THEOREM Invariance == Spec => []IInv
BY InitIInv, NextIInv, PTL DEF Spec

\* The type invariant: among others, stack_pos neither wraps below zero nor goes
\* beyond the length of the body.
THEOREM TypeCorrect == Spec => []TypeOK
<1>1. ASSUME IInv PROVE TypeOK
  <2>1. Types /\ DepthInv /\ Messages \in Seq(Seq(Nat))
    BY <1>1 DEF IInv, MessagesRight
  <2>2. Len(body) \in 0..MaxLen /\ MaxLen \in Nat /\ pos \in 0..Len(body)
    BY <2>1, BodyType, ConstantsAssumption DEF Types
  <2>3. pos \in Nat /\ stack_pos = Depth(body, pos) /\ stack_pos >= 0
    BY <2>1, <2>2 DEF DepthInv
  <2>4. stack_pos \in Int /\ stack_pos <= pos
    BY <2>3, DepthStep
  <2>5. stack_pos \in 0..MaxLen
    BY <2>2, <2>3, <2>4
  <2>6. \A k \in DOMAIN Messages : Messages[k] \in Seq(Nat)
    BY <2>1, LenProperties, ElementOfSeq
  <2> QED  BY <2>1, <2>5, <2>6 DEF Types, TypeOK
<1> QED  BY Invariance, <1>1, PTL

\* The messages are the top-level objects that have ended, each one once, and
\* librdkafka gets them in the order of the body, however zz_decode() is called.
THEOREM ObjectsAreMessages == Spec => [](EveryObjectOnce /\ BodyOrder)
<1>1. ASSUME IInv PROVE EveryObjectOnce /\ BodyOrder
  <2>1. MessagesRight(Messages, body, pos, spoiled)
    BY <1>1 DEF IInv
  <2>2. DOMAIN Messages = 1..Len(Messages)
    BY <2>1, LenProperties DEF MessagesRight
  <2>3. EveryObjectOnce
    BY <2>1, <2>2 DEF EveryObjectOnce, MessagesRight, MessageOf
  <2>4. BodyOrder
    BY <2>1, <2>2 DEF BodyOrder, MessagesRight
  <2> QED  BY <2>3, <2>4
<1> QED  BY Invariance, <1>1, PTL

\* Between two chunks last_object is the part of the open object that came, byte
\* by byte, and empty if there is none.
THEOREM KeepsOpenObject == Spec => []LastObjectIsOpen
<1>1. ASSUME IInv PROVE LastObjectIsOpen
  <2>1. KeptInv /\ DepthInv
    BY <1>1 DEF IInv
  <2> QED  BY <2>1 DEF KeptInv, DepthInv, LastObjectIsOpen
<1> QED  BY Invariance, <1>1, PTL
=============================================================================
