------------------------------ MODULE TaskFeed ------------------------------
(***************************************************************************)
(* A window's view of the task registry (useNativeTasks.ts): numbered      *)
(* snapshots reach one cached query by the event stream, by its own HTTP   *)
(* read and as answers to Cancel and Dismiss, in any order; an observer of *)
(* that query reports each task that finishes.                             *)
(***************************************************************************)
EXTENDS Naturals, Sequences, FiniteSets

CONSTANTS
  Tasks,        \* tasks that may run
  MaxRevision,  \* bound: snapshots the registry publishes
  MaxRequests,  \* bound: reads and actions of the window
  MaxMounts,    \* bound: times the observer is mounted
  None

\* A snapshot: its revision, and the listed tasks with their state.
Snapshot == [revision : 0..MaxRevision, active : SUBSET Tasks, finished : SUBSET Tasks]

BoundsAssumption ==
  /\ MaxRevision \in Nat /\ MaxRequests \in Nat /\ MaxMounts \in Nat
  /\ IsFiniteSet(Tasks) /\ None \notin Snapshot \cup 0..MaxRevision

VARIABLES
  registry,   \* the registry's current snapshot (the watch channel's value)
  started,    \* tasks submitted so far (identities are never reused)
  seen,       \* revision the stream has sent last
  stream,     \* snapshots on their way by the stream, in order
  answers,    \* snapshots on their way as HTTP answers, in any order
  requests,
  cache,      \* the cached snapshot, or None
  mounts, mounted,
  revision,   \* the observer's revision; None before its first snapshot
  observed,   \* finished tasks the observer knows of
  notified    \* notified[t]: reports of t's end

vars == <<registry, started, seen, stream, answers, requests, cache, mounts, mounted, revision, observed, notified>>

TypeOK ==
  /\ registry \in Snapshot /\ started \subseteq Tasks /\ seen \in 0..MaxRevision
  /\ stream \in Seq(Snapshot) /\ answers \subseteq Snapshot /\ requests \in 0..MaxRequests
  /\ cache \in Snapshot \cup {None}
  /\ mounts \in 0..MaxMounts /\ mounted \in BOOLEAN
  /\ revision \in 0..MaxRevision \cup {None}
  /\ observed \subseteq Tasks
  /\ mounted /\ cache # None => revision = cache.revision /\ cache.finished \subseteq observed
  /\ notified \in [Tasks -> Nat]

Init ==
  /\ registry = [revision |-> 0, active |-> {}, finished |-> {}]
  /\ started = {} /\ seen = 0 /\ stream = <<>> /\ answers = {} /\ requests = 0
  /\ cache = None /\ mounts = 0 /\ mounted = FALSE
  /\ revision = None /\ observed = {}
  /\ notified = [t \in Tasks |-> 0]

(* ------------------------------ the backend ----------------------------- *)

\* Tasks::publish: every change of the list is a new revision.
publish(active, finished) ==
  /\ registry.revision < MaxRevision
  /\ registry' = [revision |-> registry.revision + 1, active |-> active, finished |-> finished]

Start(t) ==
  /\ t \notin started
  /\ started' = started \cup {t}
  /\ publish(registry.active \cup {t}, registry.finished)
  /\ UNCHANGED <<seen, stream, answers, requests, cache, mounts, mounted, revision, observed, notified>>
Finish(t) ==
  /\ t \in registry.active
  /\ publish(registry.active \ {t}, registry.finished \cup {t})
  /\ UNCHANGED <<started, seen, stream, answers, requests, cache, mounts, mounted, revision, observed, notified>>

\* The stream sends the latest snapshot; intermediate ones coalesce.
Stream ==
  /\ mounted /\ seen < registry.revision
  /\ seen' = registry.revision
  /\ stream' = Append(stream, registry)
  /\ UNCHANGED <<registry, started, answers, requests, cache, mounts, mounted, revision, observed, notified>>

\* GET tasks, or Cancel of a task that has ended meanwhile: answered with the
\* snapshot of the moment.
Read ==
  /\ requests < MaxRequests
  /\ requests' = requests + 1
  /\ answers' = answers \cup {registry}
  /\ UNCHANGED <<registry, started, seen, stream, cache, mounts, mounted, revision, observed, notified>>

\* Dismiss removes a finished task and is answered with the new list.
dismiss(t) ==
  /\ requests < MaxRequests
  /\ t \in registry.finished /\ cache # None /\ t \in cache.finished
  /\ requests' = requests + 1
  /\ publish(registry.active, registry.finished \ {t})
  /\ answers' = answers \cup {registry'}
  /\ UNCHANGED <<started, seen, stream, cache, mounts, mounted, revision, observed, notified>>

(* ------------------------------- the window ----------------------------- *)

latestTasks(next) == IF cache # None /\ cache.revision > next.revision THEN cache ELSE next

\* The observer is told of every change of the query: it forgets tasks that
\* are no longer listed and reports those that have newly finished, except on
\* its first snapshot.
Bug_Forget(next) == {}
Forget(next) == observed \cap (next.active \cup next.finished)
Fresh(next) == next.finished \ Forget(next)
observe(next) ==
  IF ~mounted \/ (revision # None /\ next.revision <= revision)
  THEN UNCHANGED <<revision, observed, notified>>
  ELSE /\ revision' = next.revision
       /\ observed' = Forget(next) \cup next.finished
       /\ notified' = IF revision = None THEN notified
                      ELSE [t \in Tasks |-> notified[t] + (IF t \in Fresh(next) THEN 1 ELSE 0)]

Store(next) ==
  /\ cache' = latestTasks(next)
  /\ observe(cache')

Receive ==
  /\ stream # <<>>
  /\ Store(Head(stream))
  /\ stream' = Tail(stream)
  /\ UNCHANGED <<registry, started, seen, answers, requests, mounts, mounted>>

Answer(s) ==
  /\ s \in answers
  /\ Store(s)
  /\ answers' = answers \ {s}
  /\ UNCHANGED <<registry, started, seen, stream, requests, mounts, mounted>>

\* The observer is mounted: a new stream begins with the snapshot of the
\* moment, and what is cached counts as already known.
Mount ==
  /\ ~mounted /\ mounts < MaxMounts
  /\ mounted' = TRUE /\ mounts' = mounts + 1
  /\ stream' = <<registry>> /\ seen' = registry.revision
  /\ IF cache = None THEN revision' = None /\ observed' = {}
                     ELSE revision' = cache.revision /\ observed' = cache.finished
  /\ UNCHANGED <<registry, started, answers, requests, cache, notified>>

Unmount ==
  /\ mounted /\ mounts < MaxMounts
  /\ mounted' = FALSE /\ stream' = <<>>
  /\ UNCHANGED <<registry, started, seen, answers, requests, cache, mounts, revision, observed, notified>>

Next ==
  \/ \E t \in Tasks : Start(t) \/ Finish(t) \/ dismiss(t)
  \/ Stream \/ Read \/ Receive
  \/ \E s \in answers : Answer(s)
  \/ Mount \/ Unmount

Spec == Init /\ [][Next]_vars

(* ------------------------------ properties ------------------------------ *)

\* The list a user sees never goes back to an earlier state of the registry,
\* whichever of the three roads a snapshot took.
ShownForward ==
  [][cache # None => cache' # None /\ cache'.revision >= cache.revision]_vars

\* The end of a task is reported at most once, also across reconnections,
\* dismissal and late answers.
ReportedOnce == \A t \in Tasks : notified[t] <= 1

\* What it rests on.  Wherever a snapshot is, it is one of a history in which a
\* task starts, finishes and is dismissed, once each.
Snapshots ==
  {registry} \cup {stream[i] : i \in DOMAIN stream} \cup answers \cup ({cache} \ {None})
HistoryForward ==
  \A a, b \in Snapshots :
    /\ a.revision <= registry.revision /\ a.active \cup a.finished \subseteq started
    /\ a.revision = b.revision => a = b
    /\ a.revision <= b.revision =>
         /\ a.finished \cap b.active = {}
         /\ \A c \in Snapshots : b.revision <= c.revision => a.finished \cap c.finished \subseteq b.finished

\* A task that has been reported is cached as finished, or no snapshot that is
\* still to be taken lists it; and before its first snapshot the observer reports
\* nothing.
Gone(t) == \A s \in Snapshots : cache.revision <= s.revision => t \notin s.active \cup s.finished
ReportsKnown ==
  /\ \A t \in Tasks : notified[t] > 0 => t \in started /\ cache # None /\ (t \in cache.finished \/ Gone(t))
  /\ mounted /\ cache = None => revision = None

\* Inductive.
TaskFeedInv == TypeOK /\ HistoryForward /\ ReportsKnown /\ ReportedOnce

\* A task the window has shown as active is reported once it has finished,
\* even if snapshots coalesce, unless it is dismissed first.
EndIsReported ==
  \A t \in Tasks :
    (mounted /\ cache # None /\ t \in cache.active /\ t \in registry.finished)
      ~> (notified[t] > 0 \/ t \notin registry.finished \/ ~mounted)
=============================================================================
