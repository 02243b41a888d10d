------------------------------- MODULE MCFeeds -------------------------------
(***************************************************************************)
(* What the server announces and a window follows: changes of the project, *)
(* its tasks, the registry of projects, and the stream that carries them.  *)
(* The models share no state, so each behaviour here runs one of them and  *)
(* the others stay in their initial state.                                 *)
(*                                                                         *)
(* A view over a table that is written, a channel of one scope; two tasks; *)
(* two registry listeners and three project views; a project open when the *)
(* page loads and one opened later.                                        *)
(***************************************************************************)
EXTENDS Naturals, Sequences, TLC

CONSTANTS Capacity, MaxCommits, MaxDrops,
          Tasks, MaxRevision, MaxRequests, MaxMounts,
          Listeners, Subscribers, MaxSources,
          Projects, First, None,
          Parts  \* the components that are checked

VARIABLES
  part, \* the component that runs
  version, analysis, commits, unpublished, channel, lagged, stream, drops,
  events, pending, stage, scope, prior, active, cache, invalid, fetch,
  taskList, started, seen, taskStream, answers, requests, taskCache, mounts,
  mounted, revision, observed, notified,
  exists, listeners, project, source, opened, open, unused, live, last,
  openProjects, closed, announced, registryFetch, registry, selected, clients,
  listed, windowStates, stores, calls, touched, raced, overtaken

rows == <<version, analysis, commits, unpublished, channel, lagged, stream, drops,
          events, pending, stage, scope, prior, active, cache, invalid, fetch>>
tasks == <<taskList, started, seen, taskStream, answers, requests, taskCache, mounts,
           mounted, revision, observed, notified>>
sources == <<exists, listeners, project, source, opened, open, unused, live, last>>
window == <<openProjects, closed, announced, registryFetch, registry, selected, clients,
            listed, windowStates, stores, calls, touched, raced, overtaken>>
vars == <<part, rows, tasks, sources, window>>

Rows == INSTANCE ProjectEvents WITH
  Queries <- {"rows"}, Kind <- "rows" :> "rest", Names <- "rows" :> {"v"},
  Objects <- {"t", "v", "tabs", "a"}, Edges <- {<<"t", "v">>}, Tabs <- "tabs", Analysis <- "a"
Feed == INSTANCE TaskFeed WITH
  registry <- taskList, stream <- taskStream, cache <- taskCache
Source == INSTANCE EventStream
Window == INSTANCE ServerWindow WITH
  opened <- openProjects, notified <- announced, fetch <- registryFetch, observed <- listed

ASSUME FeedsAssumption ==
  /\ Rows!QueriesAssumption /\ Rows!BoundsAssumption /\ Feed!BoundsAssumption
  /\ Source!BoundsAssumption /\ Window!ProjectsAssumption

Init ==
  /\ part \in Parts
  /\ Rows!Init /\ Feed!Init /\ Source!Init /\ Window!Init
  /\ part # "window" => selected = None

Next ==
  /\ UNCHANGED part
  /\ \/ part = "rows" /\ Rows!Next /\ UNCHANGED <<tasks, sources, window>>
     \/ part = "tasks" /\ Feed!Next /\ UNCHANGED <<rows, sources, window>>
     \/ part = "sources" /\ Source!Next /\ UNCHANGED <<rows, tasks, window>>
     \/ part = "window" /\ Window!Next /\ UNCHANGED <<rows, tasks, sources>>

Spec == Init /\ [][Next]_vars

\* Of the component that runs.  Publishing, streaming, answering and the
\* observer's loop go on, the task observer is mounted, and promises whose
\* answer has arrived run; nothing need be written, shown, asked or broken.
FairSpec ==
  /\ Spec
  /\ WF_rows(part = "rows" /\ \E s \in unpublished : Rows!publish(s))
  /\ WF_rows(part = "rows" /\ Rows!Connect)
  /\ WF_rows(part = "rows" /\ Rows!Open)
  /\ WF_rows(part = "rows" /\ Rows!Forward)
  /\ WF_rows(part = "rows" /\ Rows!refresh)
  /\ WF_rows(part = "rows" /\ (Rows!TakeNext \/ Rows!NextStage \/ Rows!EndRefresh))
  /\ WF_rows(part = "rows" /\ (Rows!Read("rows") \/ Rows!Deliver("rows")))
  /\ WF_tasks(part = "tasks" /\ Feed!Stream)
  /\ WF_tasks(part = "tasks" /\ Feed!Receive)
  /\ WF_tasks(part = "tasks" /\ Feed!Mount)
  /\ \A d \in Projects \cup {None} :
       /\ WF_window(part = "window" /\ (Window!Open(d) \/ Window!Close(d)))
       /\ WF_window(part = "window" /\ Window!Refused(d))
       /\ WF_window(part = "window" /\ Window!Refresh(d))
       /\ WF_window(part = "window" /\ Window!Finish(d))
  /\ WF_window(part = "window" /\ Window!ReadRegistry)
  /\ WF_window(part = "window" /\ Window!Invalidate)
  /\ WF_window(part = "window" /\ \E S \in SUBSET Projects : Window!Registry(S))

\* Once commits and disconnections stop, a view over a table that was written
\* shows what the project holds, for good.  A task shown as active is reported
\* once it has finished, even if snapshots coalesce, unless it is dismissed
\* first.  A chosen project gets its workspace and an opened one is chosen, or is
\* closed by then, or another operation ended meanwhile (changes.rs, api.rs,
\* projectChanges.ts, useNativeTasks.ts, ServerApp.tsx).
CatchesUp ==
  /\ Rows!CatchesUp
  /\ Feed!EndIsReported
  /\ Window!WorkspaceAppears /\ Window!OpenedIsChosen

\* Across reconnections, dismissal and late answers the end of a task is
\* reported at most once, and the task list never goes back, whichever road a
\* snapshot took (useNativeTasks.ts, api.rs).
TasksReported ==
  /\ [](part = "tasks" => Feed!TaskFeedInv)
  /\ Feed!ShownForward

\* One stream per server, opened for the project subscribed last, whatever
\* the order in which effects are cleaned up (server/events.ts).
StreamFollowsView ==
  part = "sources" => Source!EventStreamInv

\* The state of one project never turns up in another, switching loses
\* nothing, and a closed project is released, unless an operation ends in a
\* window that has moved on (ServerApp.tsx, projectWindowState.ts,
\* ProjectDataDialog.tsx).
ProjectsKeptApart ==
  part = "window" => Window!ServerWindowInv
=============================================================================
