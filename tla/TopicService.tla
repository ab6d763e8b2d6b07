---------------------------- MODULE TopicService ----------------------------
(***************************************************************************)
(* What the topic database promises to the decoder sessions, with no lock, *)
(* no list, no reference count and no memory: a cache that gives all who   *)
(* ask for a name the same topic handle, until nobody has asked for it for *)
(* more than LiveTime seconds, and that never makes a new handle of one    *)
(* that is cached or in somebody's hands.                                  *)
(***************************************************************************)
EXTENDS Integers

CONSTANTS Sessions, Names, Handles, LiveTime, MaxTime, NULL

VARIABLES
  clock,
  closed,
  cache,   \* entries: a name, its handle, when its last user asked for it
  asked,   \* the name a session asked for, from then to its end
  since,   \* when it asked, until it has its handle
  holds    \* the handle it was given

vars == <<clock, closed, cache, asked, since, holds>>

Init ==
  /\ clock = 0
  /\ closed = FALSE
  /\ cache = {}
  /\ asked = [s \in Sessions |-> NULL]
  /\ since = [s \in Sessions |-> 0]
  /\ holds = [s \in Sessions |-> NULL]

Waits(s) == asked[s] # NULL /\ holds[s] = NULL

Ask(s, name) ==
  /\ asked[s] = NULL
  /\ ~closed
  /\ asked' = [asked EXCEPT ![s] = name]
  /\ since' = [since EXCEPT ![s] = clock]
  /\ UNCHANGED <<clock, closed, cache, holds>>

\* A handle that nobody has is made for the name that s waits for.
Create(s, h) ==
  /\ Waits(s)
  /\ \A e \in cache : e.name # asked[s] /\ e.handle # h
  /\ \A r \in Sessions : holds[r] # h
  /\ cache' = cache \cup {[name |-> asked[s], handle |-> h, stamp |-> 0]}
  /\ UNCHANGED <<clock, closed, asked, since, holds>>

\* s gets the handle of its name.
Grant(s, e) ==
  /\ Waits(s)
  /\ e.name = asked[s]
  /\ holds' = [holds EXCEPT ![s] = e.handle]
  /\ cache' = (cache \ {e})
                \cup {[name |-> e.name, handle |-> e.handle, stamp |-> since[s]]}
  /\ since' = [since EXCEPT ![s] = 0]
  /\ UNCHANGED <<clock, closed, asked>>

Refuse(s) ==
  /\ Waits(s)
  /\ asked' = [asked EXCEPT ![s] = NULL]
  /\ since' = [since EXCEPT ![s] = 0]
  /\ UNCHANGED <<clock, closed, cache, holds>>

Release(s) ==
  /\ holds[s] # NULL
  /\ asked' = [asked EXCEPT ![s] = NULL]
  /\ holds' = [holds EXCEPT ![s] = NULL]
  /\ UNCHANGED <<clock, closed, cache, since>>

Expire(e) ==
  /\ e.stamp < clock - LiveTime
  /\ cache' = cache \ {e}
  /\ UNCHANGED <<clock, closed, asked, since, holds>>

\* The cache is emptied; the handles that were given stay good.
Close ==
  /\ ~closed
  /\ \A s \in Sessions : ~Waits(s)
  /\ closed' = TRUE
  /\ cache' = {}
  /\ UNCHANGED <<clock, asked, since, holds>>

Tick ==
  /\ clock < MaxTime
  /\ clock' = clock + 1
  /\ UNCHANGED <<closed, cache, asked, since, holds>>

Next ==
  \/ \E s \in Sessions :
       \/ \E name \in Names : Ask(s, name)
       \/ \E h \in Handles : Create(s, h)
       \/ \E e \in cache : Grant(s, e)
       \/ Refuse(s)
       \/ Release(s)
  \/ \E e \in cache : Expire(e)
  \/ Close
  \/ Tick

Spec == Init /\ [][Next]_vars
=============================================================================
