---------------------------- MODULE ZzXmlDocuments ----------------------------
(***************************************************************************)
(* What the README of the zz_http2k decoder says the messages of an XML    *)
(* request are, and that ZzXml sends them.  The object of an element is    *)
(* made of those of its children: the definition is recursive, and it has  *)
(* a module of its own because nothing is proved from it.                  *)
(***************************************************************************)
EXTENDS ZzXml, SequencesExt

\* The elements of b, from opening to closing tag, that start at level l
\* between two positions, in order.
Elements(b, l, lo, hi) ==
  SetToSortSeq({e \in (lo..hi) \X (lo..hi) :
                  /\ e[1] < e[2]
                  /\ Opens(b, e[1]) /\ Level(b, e[1] - 1) = l
                  /\ b[e[2]] = "close" /\ Level(b, e[2]) = l
                  /\ \A j \in e[1]..(e[2] - 1) : Level(b, j) > l},
               LAMBDA e, f : e[1] < f[1])

Children(b, e) == Elements(b, Level(b, e[1]), e[1] + 1, e[2] - 1)

\* The pieces of text right inside element e: before its first child (k = 0),
\* or after the k-th one.
TextAfter(b, e, k) ==
  LET c == Children(b, e)
      lo == IF k = 0 THEN e[1] ELSE c[k][2]
      hi == IF k = Len(c) THEN e[2] ELSE c[k + 1][1]
  IN SelectSeq([j \in 1..(hi - lo - 1) |-> lo + j], LAMBDA j : b[j] = "text")

Member(key, t) == IF t = <<>> THEN <<>> ELSE <<<<key>> \o t>>

\* The JSON object of element e, with the text after it: its tag, its attributes,
\* its text, its children, and its tail.
RECURSIVE Object(_, _, _)
Object(b, e, tail) ==
  LET c == Children(b, e) IN
  Tag(b[e[1]], e[1])
    \o Member("text", TextAfter(b, e, 0))
    \o (IF c = <<>> THEN <<>>
        ELSE <<<<"children">>, <<"array_open">>>>
               \o FlattenSeq([k \in DOMAIN c |-> Object(b, c[k], TextAfter(b, e, k))])
               \o <<<<"array_close">>>>)
    \o Member("tail", tail)
    \o <<<<"map_close">>>>

Documents(b) == Elements(b, 0, 1, Len(b))

\* No element of document d has text in two places.
TextInOnePlace(b, d) ==
  \A l \in 0..Len(b) : \A e \in Range(Elements(b, l, d[1], d[2])) :
    Cardinality({k \in 0..Len(Children(b, e)) : TextAfter(b, e, k) # <<>>}) <= 1
-----------------------------------------------------------------------------
\* What a message has besides text: its tags, attributes, children and ends.
Skeleton(m) == SelectSeq([k \in DOMAIN m |-> m[k][1]], LAMBDA x : x \notin {"text", "tail"})

==============================================================================
