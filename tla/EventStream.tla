----------------------------- MODULE EventStream ----------------------------
(***************************************************************************)
(* The one event stream a browser window shares between the registry       *)
(* listeners and the selected project (features/server/events.ts).         *)
(* Effects subscribe and unsubscribe in any order, also twice and also     *)
(* after another project has taken the stream over.                        *)
(***************************************************************************)
EXTENDS Naturals, FiniteSets

CONSTANTS
  Listeners,   \* registry listeners
  Subscribers, \* project subscriptions, each made once
  MaxSources,  \* bound: streams opened
  None

BoundsAssumption == MaxSources \in Nat /\ None \notin Subscribers

VARIABLES
  exists,     \* connections has an entry for the server
  listeners,  \* its listeners
  project,    \* its project subscription, or None
  source,     \* its stream
  opened,     \* opened[n]: the project stream n was opened for
  open,       \* streams not yet closed
  unused,     \* subscriptions not made yet
  live,       \* subscriptions whose effect is mounted
  last        \* the subscription made last

vars == <<exists, listeners, project, source, opened, open, unused, live, last>>

Count == Cardinality(DOMAIN opened)

TypeOK ==
  /\ exists \in BOOLEAN /\ listeners \subseteq Listeners
  /\ project \in Subscribers \cup {None}
  /\ source \in 0..MaxSources
  /\ DOMAIN opened \subseteq 1..MaxSources
  /\ \A n \in DOMAIN opened : opened[n] \in Subscribers \cup {None}
  /\ open \subseteq DOMAIN opened
  /\ unused \subseteq Subscribers /\ live \subseteq Subscribers /\ last \in Subscribers \cup {None}
  /\ exists <=> listeners # {} \/ project # None

Init ==
  /\ exists = FALSE /\ listeners = {} /\ project = None /\ source = 0
  /\ opened = [n \in {} |-> None] /\ open = {}
  /\ unused = Subscribers /\ live = {} /\ last = None

\* Open a stream for p in place of the streams in closed.
connect(p, closed) ==
  /\ Count < MaxSources
  /\ source' = Count + 1
  /\ opened' = [n \in 1..Count + 1 |-> IF n <= Count THEN opened[n] ELSE p]
  /\ open' = (open \ closed) \cup {Count + 1}

\* Nobody is left: close the stream and forget the connection.
release(l, p) ==
  /\ exists' = ~(l = {} /\ p = None)
  /\ open' = IF l = {} /\ p = None THEN open \ {source} ELSE open
  /\ UNCHANGED <<source, opened>>

subscribeServerEvents(l) ==
  /\ l \notin listeners
  /\ listeners' = listeners \cup {l}
  /\ exists' = TRUE
  /\ IF exists THEN UNCHANGED <<source, opened, open>> ELSE connect(None, {})
  /\ UNCHANGED <<project, unused, live, last>>

unsubscribeServer(l) ==
  /\ l \in listeners
  /\ listeners' = listeners \ {l}
  /\ release(listeners', project)
  /\ UNCHANGED <<project, unused, live, last>>

subscribeProjectEvents(p) ==
  /\ p \in unused
  /\ unused' = unused \ {p} /\ live' = live \cup {p}
  /\ project' = p /\ last' = p /\ exists' = TRUE
  /\ connect(p, IF exists THEN {source} ELSE {})
  /\ UNCHANGED listeners

\* The cleanup of an earlier subscription leaves its successor alone.
Bug_unsubscribeProject(p) ==
  /\ p \in live
  /\ live' = live \ {p}
  /\ project' = None
  /\ IF listeners # {} THEN connect(None, {source}) /\ UNCHANGED exists
                       ELSE release(listeners, None)
  /\ UNCHANGED <<listeners, unused, last>>
unsubscribeProject(p) ==
  /\ p \in live
  /\ live' = live \ {p}
  /\ IF project # p THEN UNCHANGED <<exists, project, source, opened, open>>
     ELSE /\ project' = None
          /\ IF listeners # {} THEN connect(None, {source}) /\ UNCHANGED exists
                               ELSE release(listeners, None)
  /\ UNCHANGED <<listeners, unused, last>>

Next ==
  \/ \E l \in Listeners : subscribeServerEvents(l) \/ unsubscribeServer(l)
  \/ \E p \in Subscribers : subscribeProjectEvents(p) \/ unsubscribeProject(p)

Spec == Init /\ [][Next]_vars

\* Exactly one stream is open while anybody listens and none afterwards: no
\* stream is leaked by replacing it or by effects cleaned up late.
OneStream == open = IF listeners # {} \/ project # None THEN {source} ELSE {}

\* Streams are numbered as they are opened; a subscription is made once.
Numbered ==
  /\ DOMAIN opened = 1..Count /\ (exists => source \in DOMAIN opened)
  /\ unused \cap live = {} /\ last \notin unused /\ project \in live \cup {None}

\* The most recent project whose view is mounted receives its own events: the
\* open stream asks for that project, and the cleanup of an earlier view does
\* not take it away.
EventsReachTheirView ==
  /\ exists => opened[source] = project
  /\ last \in live => project = last

\* Inductive.
EventStreamInv == TypeOK /\ Numbered /\ OneStream /\ EventsReachTheirView
=============================================================================
