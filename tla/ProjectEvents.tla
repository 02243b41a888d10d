--------------------------- MODULE ProjectEvents ----------------------------
(***************************************************************************)
(* How a window's query cache follows the project: a commit publishes its  *)
(* scope on a bounded broadcast channel (changes.rs), the event stream     *)
(* forwards it or a reset (api.rs), and one observer of the window         *)
(* (useNativeTasks.ts, projectChanges.ts) cancels and refetches the        *)
(* queries the scope affects, in stages, while further events arrive,      *)
(* views come and go and the stream breaks and reconnects.                 *)
(*                                                                         *)
(* A name is a database object, a resource or an analysis id; Names[q] are *)
(* the names query q declares it depends on.                               *)
(***************************************************************************)
EXTENDS Naturals, Sequences, FiniteSets

CONSTANTS
  Queries,    \* queries of the window
  Kind,       \* "tabs", "schema", "manifest", "rest" or "output" of each
  Objects,    \* names a change may touch
  Names,      \* names each query depends on
  Edges,      \* <<a, b>>: object b is defined over object a
  Tabs,       \* the name of the tab list
  Analysis,   \* the name of the one analysis
  Capacity,   \* scopes the broadcast channel keeps (128 in the code)
  MaxCommits, \* bound: commits, and with them breaks of the stream
  MaxDrops,   \* bound: times the stream breaks
  None        \* nothing cached, nothing found

\* What the analysis has, and what a query can read.
States == {"output", "empty", "deleted"}
Value == [v : 0..MaxCommits, a : States]

QueriesAssumption ==
  /\ IsFiniteSet(Queries) /\ IsFiniteSet(Objects)
  /\ Kind \in [Queries -> {"tabs", "schema", "manifest", "rest", "output"}]
  /\ Names \in [Queries -> SUBSET Objects]
  /\ Edges \subseteq Objects \X Objects
  /\ {Tabs, Analysis} \subseteq Objects
  /\ \A q \in Queries : Kind[q] = "output" => Analysis \in Names[q]
  /\ \A q \in Queries : Kind[q] = "tabs" => Tabs \in Names[q]
  /\ \A s \in SUBSET Objects : s # None
  /\ \A x \in Value : x # None
BoundsAssumption == Capacity \in Nat \ {0} /\ MaxCommits \in Nat /\ MaxDrops \in Nat

VARIABLES
  version,     \* version[q]: what q would read now
  analysis,    \* the analysis: "output", "empty" or "deleted"
  commits,
  unpublished, \* scopes committed and not yet sent
  channel,     \* the subscriber's part of the broadcast channel
  lagged,      \* the channel has dropped a scope the subscriber had not read
  stream,      \* "down", "opening" or "up"
  drops,
  events,      \* scopes on their way to the window; Objects stands for a reset
  pending,     \* scope collected for the next refresh, or None
  stage,       \* where the refresh stands
  scope,       \* the scope being refreshed
  prior,       \* the analysis as the tab list showed it when the refresh began
  active,      \* queries some view displays
  cache,       \* cache[q]: the value shown
  invalid,     \* queries marked invalid
  fetch        \* fetch[q]: Idle, Sent or the answer on its way back

database == <<version, analysis, commits>>
backend == <<unpublished, channel, lagged, stream, drops>>
observer == <<pending, stage, scope, prior>>
queries == <<active, cache, invalid, fetch>>
vars == <<database, backend, events, observer, queries>>

Idle == <<>>
Sent == <<"sent">>
Answer(v) == <<"read", v>>

(* ----------------------------- the database ----------------------------- *)

Current(q) ==
  IF Kind[q] = "output" /\ analysis # "output" THEN None
  ELSE [v |-> version[q], a |-> IF Kind[q] = "tabs" THEN analysis ELSE "output"]

\* The names a change of O reaches: everything defined over them, to the
\* fixed point the loop in finish computes.
closure(O) ==
  {n \in Objects : \A S \in SUBSET Objects :
     O \subseteq S /\ (\A e \in Edges : e[1] \in S => e[2] \in S) => n \in S}
\* What really changes: the same, whatever scope is announced.
Reached(O) ==
  {n \in Objects : \A S \in SUBSET Objects :
     O \subseteq S /\ (\A e \in Edges : e[1] \in S => e[2] \in S) => n \in S}

Write(O, a) ==
  /\ commits + drops < MaxCommits
  /\ commits' = commits + 1
  /\ analysis' = a
  /\ version' = [q \in Queries |-> IF Names[q] \cap Reached(O) # {} THEN commits + 1 ELSE version[q]]
  /\ unpublished' = unpublished \cup {closure(O)}
  /\ UNCHANGED <<channel, lagged, stream, drops, events, observer, queries>>

\* PendingChange::commit: a table changes.
commit(o) == o \notin {Tabs, Analysis} /\ Write({o}, analysis)
\* A run publishes its output, Clear removes it, the tab is deleted.
FinishRun == analysis = "empty" /\ Write({Tabs, Analysis}, "output")
Clear == analysis = "output" /\ Write({Tabs, Analysis}, "empty")
DeleteTab == analysis # "deleted" /\ Write({Tabs, Analysis}, "deleted")

\* Notifications::publish, after the commit and in any order with others.
publish(s) ==
  /\ s \in unpublished
  /\ unpublished' = unpublished \ {s}
  /\ IF stream = "down" THEN UNCHANGED <<channel, lagged>>
     ELSE IF Len(channel) < Capacity
     THEN channel' = Append(channel, s) /\ UNCHANGED lagged
     ELSE channel' = Append(Tail(channel), s) /\ lagged' = TRUE
  /\ UNCHANGED <<database, stream, drops, events, observer, queries>>

(* --------------------------- the event stream --------------------------- *)

\* EventSource connects: the subscription is made before anything is sent.
Connect ==
  /\ stream = "down"
  /\ stream' = "opening" /\ channel' = <<>> /\ lagged' = FALSE
  /\ UNCHANGED <<database, unpublished, drops, events, observer, queries>>

\* The task snapshot and then a reset open every stream.
Open ==
  /\ stream = "opening"
  /\ stream' = "up"
  /\ events' = Append(events, Objects)
  /\ UNCHANGED <<database, unpublished, channel, lagged, drops, observer, queries>>

\* A reader that lagged is told so before it gets the oldest kept scope.
Forward ==
  /\ stream = "up" /\ (lagged \/ channel # <<>>)
  /\ IF lagged
       THEN events' = Append(events, Objects) /\ lagged' = FALSE /\ UNCHANGED channel
       ELSE events' = Append(events, Head(channel)) /\ channel' = Tail(channel) /\ UNCHANGED lagged
  /\ UNCHANGED <<database, unpublished, stream, drops, observer, queries>>

\* The connection breaks; what was under way is lost.
Break ==
  /\ stream # "down" /\ drops < MaxDrops /\ commits + drops < MaxCommits
  /\ drops' = drops + 1 /\ stream' = "down"
  /\ channel' = <<>> /\ lagged' = FALSE /\ events' = <<>>
  /\ UNCHANGED <<database, unpublished, observer, queries>>

(* ------------------------------ the observer ---------------------------- *)

\* refresh: collect the scope, and start a refresh unless one is running.
refresh ==
  /\ events # <<>>
  /\ events' = Tail(events)
  /\ pending' = (IF pending = None THEN {} ELSE pending) \cup Head(events)
  /\ stage' = IF stage = "idle" THEN "next" ELSE stage
  /\ UNCHANGED <<database, backend, scope, prior, queries>>

affectedQuery(q, s) == Names[q] \cap s # {}
TabList == {q \in Queries : Kind[q] = "tabs"}
Outputs == {q \in Queries : Kind[q] = "output"}
\* The analysis as the cached tab list shows it.
Listed == {cache[q].a : q \in {t \in TabList : cache[t] # None}}

After(k) == IF k = "tabs" THEN "schema" ELSE IF k = "schema" THEN "manifest" ELSE "rest"
InStage(k) == {q \in Queries : Kind[q] = k \/ (k = "rest" /\ Kind[q] = "output")}

\* Invalidate the affected queries of stage k and refetch those a view shows
\* (the tab list always); in-flight reads of them are dropped.
Invalidate(k, inv, f) ==
  LET hit == {q \in InStage(k) : affectedQuery(q, scope')}
      again == {q \in hit : q \in active \/ (k = "tabs" /\ cache[q] # None)}
  IN  /\ invalid' = inv \cup hit
      /\ fetch' = [q \in Queries |-> IF q \in again THEN Sent ELSE f[q]]

\* The loop takes the collected scope, cancels the reads it affects, so that
\* no answer from before the change can arrive, and refetches the tab list.
Bug_TakeNext ==
  /\ stage = "next" /\ pending # None
  /\ scope' = pending /\ pending' = None /\ prior' = Listed
  /\ stage' = "tabs"
  /\ Invalidate("tabs", invalid, fetch)
  /\ UNCHANGED <<database, backend, events, active, cache>>
TakeNext ==
  /\ stage = "next" /\ pending # None
  /\ scope' = pending /\ pending' = None /\ prior' = Listed
  /\ stage' = "tabs"
  /\ Invalidate("tabs", invalid, [q \in Queries |-> IF affectedQuery(q, pending) THEN Idle ELSE fetch[q]])
  /\ UNCHANGED <<database, backend, events, active, cache>>

Settled(k) == \A q \in InStage(k) : affectedQuery(q, scope) => fetch[q] = Idle

\* Output of an analysis that has none any more, or has gone, leaves the
\* cache before anything else is refetched.
Ghosts ==
  IF "empty" \in Listed \/ ("deleted" \in Listed /\ prior \cap {"empty", "output"} # {})
  THEN Outputs ELSE {}
NextStage ==
  /\ stage \in {"tabs", "schema", "manifest"} /\ Settled(stage)
  /\ stage' = After(stage)
  /\ LET removed == IF stage = "tabs" THEN Ghosts ELSE {}
     IN  /\ cache' = [q \in Queries |-> IF q \in removed THEN None ELSE cache[q]]
         /\ scope' = scope
         /\ Invalidate(After(stage), invalid \ removed,
                       [q \in Queries |-> IF q \in removed THEN Idle ELSE fetch[q]])
  /\ UNCHANGED <<database, backend, events, pending, prior, active>>

\* The refresh is over: once more if scopes were collected meanwhile.
EndRefresh ==
  /\ stage = "rest" /\ Settled("rest")
  /\ stage' = IF pending = None THEN "idle" ELSE "next"
  /\ UNCHANGED <<database, backend, events, pending, scope, prior, queries>>

(* ------------------------------- the views ------------------------------ *)

\* A view appears: a query without a valid value is fetched, another one may
\* be.  Output is only shown for an analysis the tab list says has some.
Mount(q) ==
  /\ q \notin active
  /\ q \in Outputs => Listed = {"output"}
  /\ active' = active \cup {q}
  /\ fetch' \in {fetch, [fetch EXCEPT ![q] = IF @ = Idle THEN Sent ELSE @]}
  /\ cache[q] = None \/ q \in invalid => fetch'[q] # Idle
  /\ UNCHANGED <<database, backend, events, observer, cache, invalid>>

Unmount(q) ==
  /\ q \in active
  /\ active' = active \ {q}
  /\ UNCHANGED <<database, backend, events, observer, cache, invalid, fetch>>

\* The backend reads for a request.
Read(q) ==
  /\ fetch[q] = Sent
  /\ fetch' = [fetch EXCEPT ![q] = Answer(Current(q))]
  /\ UNCHANGED <<database, backend, events, observer, active, cache, invalid>>

\* The answer arrives; an error leaves what is cached.  A tab list without
\* output for the analysis takes the views of its output away.
Deliver(q) ==
  /\ fetch[q] \notin {Idle, Sent}
  /\ fetch' = [fetch EXCEPT ![q] = Idle]
  /\ cache' = [cache EXCEPT ![q] = IF fetch[q] = Answer(None) THEN @ ELSE fetch[q][2]]
  /\ invalid' = IF fetch[q] = Answer(None) THEN invalid \cup {q} ELSE invalid \ {q}
  /\ active' = IF q \in TabList /\ fetch[q][2].a # "output" THEN active \ Outputs ELSE active
  /\ UNCHANGED <<database, backend, events, observer>>

Init ==
  /\ version = [q \in Queries |-> 0]
  /\ analysis = "output" /\ commits = 0
  /\ unpublished = {} /\ channel = <<>> /\ lagged = FALSE
  /\ stream = "down" /\ drops = 0 /\ events = <<>>
  /\ pending = None /\ stage = "idle" /\ scope = {} /\ prior = {}
  /\ active = {} /\ invalid = {}
  /\ cache = [q \in Queries |-> None]
  /\ fetch = [q \in Queries |-> Idle]

Next ==
  \/ \E o \in Objects : commit(o)
  \/ FinishRun \/ Clear \/ DeleteTab
  \/ \E s \in unpublished : publish(s)
  \/ Connect \/ Open \/ Forward \/ Break
  \/ refresh \/ TakeNext \/ NextStage \/ EndRefresh
  \/ \E q \in Queries : Mount(q) \/ Unmount(q) \/ Read(q) \/ Deliver(q)

Spec == Init /\ [][Next]_vars

(* ------------------------------ properties ------------------------------ *)

TypeOK ==
  /\ version \in [Queries -> 0..MaxCommits] /\ analysis \in States /\ commits \in 0..MaxCommits
  /\ unpublished \subseteq SUBSET Objects
  /\ channel \in Seq(SUBSET Objects) /\ Len(channel) <= Capacity
  /\ lagged \in BOOLEAN /\ stream \in {"down", "opening", "up"} /\ drops \in 0..MaxDrops
  /\ events \in Seq(SUBSET Objects)
  /\ pending \in (SUBSET Objects) \cup {None}
  /\ stage \in {"idle", "next", "tabs", "schema", "manifest", "rest"}
  /\ stage = "next" => pending # None
  /\ scope \subseteq Objects /\ prior \subseteq States
  /\ active \subseteq Queries /\ invalid \subseteq Queries
  /\ cache \in [Queries -> Value \cup {None}]
  /\ fetch \in [Queries -> {Idle, Sent} \cup {Answer(v) : v \in Value \cup {None}}]

\* Nothing is on its way: no scope, event, refresh or read.
Quiet ==
  /\ unpublished = {} /\ stream = "up" /\ channel = <<>> /\ ~lagged /\ events = <<>>
  /\ stage = "idle" /\ \A q \in Queries : fetch[q] = Idle

\* When everything announced has been worked off, every view shows what the
\* project holds: no commit is missed by a lost connection, a full channel or
\* a scope collected during a refresh, and no answer read before a commit is
\* kept.
ShownIsCurrent == Quiet => \A q \in active : cache[q] \in {None, Current(q)}

\* A value no view shows is current too, or marked so that it is read again
\* before it is shown; and output does not survive in the cache under the
\* identity that Clear retains.
HiddenIsMarked ==
  Quiet => \A q \in Queries \ active : cache[q] # None =>
             /\ Current(q) = None => analysis = "deleted"
             /\ q \in invalid \/ cache[q] = Current(q) \/ Current(q) = None

\* A change of the names N is on its way to the observer: announced, or lost
\* with what a reset will make up for.
Coming(N) ==
  \/ stream # "up" \/ lagged
  \/ \E s \in unpublished : N \subseteq s
  \/ \E k \in 1..Len(channel) : N \subseteq channel[k]
  \/ \E k \in 1..Len(events) : N \subseteq events[k]
  \/ pending # None /\ N \subseteq pending
Told(q) == \E n \in Names[q] : Coming({n})
\* The refresh will get to the stage of q, which it affects.
Refreshing(q) ==
  /\ affectedQuery(q, scope)
  /\ \/ stage = "tabs" /\ Kind[q] # "tabs"
     \/ stage = "schema" /\ Kind[q] \notin {"tabs", "schema"}
     \/ stage = "manifest" /\ Kind[q] \in {"rest", "output"}
\* The change of the analysis is on its way, or its refresh has begun.
ToldOfAnalysis == Coming({Tabs, Analysis}) \/ (stage = "tabs" /\ {Tabs, Analysis} \subseteq scope)

\* What the two rest on.  An answer from before a change is dropped when the
\* change is taken up; a value from before it is read again by then.
ChangesAreTold ==
  /\ stage = "idle" => pending = None
  /\ \A q \in Queries :
       /\ fetch[q] = Answer(None) => Kind[q] = "output"
       /\ \A x \in Value \cup {None} : fetch[q] = Answer(x) /\ x # Current(q) => Told(q)
       /\ cache[q] \notin {None, Current(q)} /\ Current(q) # None =>
            Told(q) \/ fetch[q] # Idle \/ Refreshing(q) \/ (q \notin active /\ q \in invalid)

\* Output is read only while the tab list shows it; a list from before the
\* output was cleared is read again before the output's turn comes.
OutputIsListed ==
  /\ active \cap Outputs # {} => Listed = {"output"}
  /\ \A q \in Outputs : cache[q] # None \/ fetch[q] # Idle => Listed # {}
  /\ \A q \in Outputs : analysis = "empty" /\ (cache[q] # None \/ fetch[q] \notin {Idle, Sent, Answer(None)}) =>
       ToldOfAnalysis
  /\ \A t \in TabList :
       /\ cache[t] # None /\ cache[t].a # analysis =>
            Coming({Tabs, Analysis}) \/ (ToldOfAnalysis /\ fetch[t] # Idle)
       /\ \A x \in Value : fetch[t] = Answer(x) /\ x.a # analysis => Coming({Tabs, Analysis})

\* Inductive.
ProjectEventsInv ==
  TypeOK /\ ChangesAreTold /\ OutputIsListed /\ ShownIsCurrent /\ HiddenIsMarked

\* Once commits and disconnections stop, the window catches up for good.
CatchesUp ==
  <>[](\A q \in active : cache[q] \in {None, Current(q)})
=============================================================================
