---------------------------- MODULE ServerWindow ----------------------------
(***************************************************************************)
(* A browser window of the server host over several open projects          *)
(* (ServerApp, ProjectDataDialog, projectWindowState): which project it    *)
(* shows, the query client and the interaction snapshot it keeps for each, *)
(* and how both follow a registry that other windows change.               *)
(*                                                                         *)
(* A project is a session: its id is never used again once closed.  The    *)
(* window-wide stores (selection, pins, preview, inputs, graph) are        *)
(* modelled by the project whose state they hold.  The effects of a render *)
(* run with the state change that caused it.                               *)
(***************************************************************************)
EXTENDS Naturals, FiniteSets

CONSTANTS
  Projects,   \* sessions the server may open
  First,      \* those open at the start
  None        \* no project, empty stores

ProjectsAssumption == IsFiniteSet(Projects) /\ First \subseteq Projects /\ None \notin Projects

VARIABLES
  opened,       \* projects the server has open
  closed,       \* those it has closed
  notified,     \* a registry event is on its way to the window
  fetch,        \* the registry query: "idle", "sent" or the answer coming back
  registry,     \* the cached registry
  selected,     \* the project chosen in this window
  clients,      \* projects with a query client
  observed,     \* projects the last registry answer listed
  windowStates, \* windowStates[p]: the snapshot kept for p, None without one
  stores,       \* whose state the window-wide stores hold
  calls,        \* calls[d]: the operation dialog d waits for
  touched,      \* history: projects with interaction state
  raced,        \* history: projects whose closing met a pending operation
  overtaken     \* history: a select acted on a window it had not seen

server == <<opened, closed, notified>>
query == <<fetch, registry, observed>>
history == <<touched, raced, overtaken>>
vars == <<server, query, selected, clients, windowStates, stores, calls, history>>

Idle == <<>>
Sent == <<"sent">>
Answer(S) == <<"read", S>>
NoCall == <<>>
\* An operation keeps the window as its dialog saw it when it began.
Call == [op : {"open", "close"}, id : Projects, phase : {"sent", "answered", "refreshing", "refreshed"},
         sel : Projects \cup {None}, project : Projects \cup {None}]
\* The manager dialog of each project, and None for the welcome page's.
Dialogs == Projects \cup {None}

\* The project the page shows: chosen, and listed by the registry.
project == IF selected \in registry THEN selected ELSE None
\* Its workspace is mounted.
Mounted == IF project \in clients THEN project ELSE None

TypeOK ==
  /\ opened \subseteq Projects /\ closed \subseteq Projects /\ opened \cap closed = {}
  /\ notified \in BOOLEAN
  /\ fetch \in {Idle, Sent} \cup {Answer(S) : S \in SUBSET Projects}
  /\ registry \subseteq opened \cup closed /\ observed = registry
  /\ selected \in Projects \cup {None} /\ clients \subseteq Projects
  /\ windowStates \in [Projects -> Projects \cup {None}]
  /\ stores \in Projects \cup {None}
  /\ calls \in [Dialogs -> Call \cup {NoCall}]
  /\ touched \subseteq Projects /\ raced \subseteq Projects /\ overtaken \in BOOLEAN
  \* a project is chosen, and given a client, only once the server has opened it
  /\ clients \cup ({selected} \ {None}) \subseteq opened \cup closed

\* The page is loaded with or without ?project= of an open project.
Init ==
  /\ opened = First /\ closed = {} /\ notified = FALSE
  /\ fetch = Idle /\ registry = First /\ observed = First
  /\ selected \in First \cup {None}
  /\ clients = {selected} \ {None}
  /\ windowStates = [p \in Projects |-> None] /\ stores = None
  /\ calls = [d \in Dialogs |-> NoCall]
  /\ touched = {} /\ raced = {} /\ overtaken = FALSE

(* ------------------------------ the server ------------------------------ *)

Pending(d) == calls[d] # NoCall
Opening(p) == \E d \in Dialogs : Pending(d) /\ calls[d].op = "open" /\ calls[d].id = p

\* Another window opens or closes a project.
OpenElsewhere(p) ==
  /\ p \notin opened \cup closed
  /\ opened' = opened \cup {p} /\ notified' = TRUE
  /\ UNCHANGED <<closed, query, selected, clients, windowStates, stores, calls, history>>

ServerClose(p) ==
  /\ p \in opened
  /\ opened' = opened \ {p} /\ closed' = closed \cup {p} /\ notified' = TRUE
  /\ raced' = IF \E d \in Dialogs : Pending(d) THEN raced \cup {p} ELSE raced

CloseElsewhere(p) ==
  /\ ServerClose(p)
  /\ UNCHANGED <<query, selected, clients, windowStates, stores, calls, touched, overtaken>>

\* POST /project: the named file's session, opened unless it is open already.
Open(d) ==
  /\ Pending(d) /\ calls[d].op = "open" /\ calls[d].phase = "sent"
  /\ calls[d].id \notin closed
  /\ opened' = opened \cup {calls[d].id}
  /\ notified' = (notified \/ calls[d].id \notin opened)
  /\ calls' = [calls EXCEPT ![d].phase = "answered"]
  /\ UNCHANGED <<closed, query, selected, clients, windowStates, stores, history>>

\* POST /project/close: refused while tasks run, until the user confirms.
Close(d) ==
  /\ Pending(d) /\ calls[d].op = "close" /\ calls[d].phase = "sent"
  /\ ServerClose(calls[d].id)
  /\ calls' = [calls EXCEPT ![d].phase = "answered"]
  /\ UNCHANGED <<query, selected, clients, windowStates, stores, touched, overtaken>>

\* The request fails: the project is gone, or has tasks running.
Refused(d) ==
  /\ Pending(d) /\ calls[d].phase = "sent"
  /\ calls[d].id \in closed \/ calls[d].op = "close"
  /\ calls' = [calls EXCEPT ![d] = NoCall]
  /\ UNCHANGED <<server, query, selected, clients, windowStates, stores, history>>

ReadRegistry ==
  /\ fetch = Sent
  /\ fetch' = Answer(opened)
  /\ UNCHANGED <<server, registry, observed, selected, clients, windowStates, stores, calls, history>>

(* ----------------------------- the registry ----------------------------- *)

\* A server event invalidates the query; a fetch under way is dropped.
Invalidate ==
  /\ notified /\ notified' = FALSE
  /\ fetch' = Sent
  /\ UNCHANGED <<opened, closed, registry, observed, selected, clients, windowStates, stores, calls, history>>

\* The subscriber of the query cache: what is kept for projects that were
\* listed and are not any more is released.
release(S) ==
  LET gone == (clients \cap observed) \ S
  IN  /\ clients' = clients \ gone
      /\ windowStates' = [p \in Projects |-> IF p \in gone THEN None ELSE windowStates[p]]

\* An answer is cached; whoever awaits refresh() goes on.
Registry(S) ==
  /\ fetch = Answer(S) /\ fetch' = Idle
  /\ registry' = S /\ observed' = S
  /\ release(S)
  /\ calls' = [d \in Dialogs |->
       IF Pending(d) /\ calls[d].phase = "refreshing" THEN [calls[d] EXCEPT !.phase = "refreshed"]
                                                      ELSE calls[d]]
  /\ UNCHANGED <<server, selected, stores, history>>

(* ------------------------------- selecting ------------------------------ *)

\* captureProjectWindowState, then restoreProjectWindowState.
capture(id, shown) ==
  /\ windowStates' = IF shown = None THEN windowStates ELSE [windowStates EXCEPT ![shown] = stores]
  /\ stores' = IF id = None THEN None ELSE windowStates[id]

\* select(id), as the render that saw sel and shown made it.
Bug_select(id, sel, shown) ==
  IF id = sel THEN UNCHANGED <<selected, clients, windowStates, stores, overtaken>>
  ELSE /\ stores' = (IF id = None THEN None ELSE windowStates[id])
       /\ selected' = id
       /\ UNCHANGED <<clients, windowStates, overtaken>>
select(id, sel, shown) ==
  IF id = sel THEN UNCHANGED <<selected, clients, windowStates, stores, overtaken>>
  ELSE /\ capture(id, shown)
       /\ selected' = id
       /\ clients' = clients \cup ({id} \ {None})
       /\ overtaken' = (overtaken \/ sel # selected)

\* The dialog the page offers, the manager of the project shown or the welcome
\* page, is disabled while its own operation is pending.
Offered(d) == d = project /\ (d = None \/ Mounted = d) /\ ~Pending(d)

\* A project of the list is chosen.
onSelectProject(d, p) ==
  /\ Offered(d) /\ p \in registry
  /\ select(p, selected, project)
  /\ UNCHANGED <<server, query, calls, touched, raced>>

\* A file is opened or a new project created; the current project is closed.
Start(d, op, p) ==
  /\ Offered(d)
  /\ op = "close" => p = project
  /\ op = "open" => p \notin closed /\ ~Opening(p)
  /\ calls' = [calls EXCEPT ![d] =
       [op |-> op, id |-> p, phase |-> "sent", sel |-> selected, project |-> project]]
  /\ raced' = raced \cup (closed \cap (observed \cup clients))
  /\ UNCHANGED <<server, query, selected, clients, windowStates, stores, touched, overtaken>>

\* await refresh() after the answer, and again once all is done.
Bug_Refresh(d) ==
  /\ Pending(d) /\ calls[d].op = "open" /\ calls[d].phase = "answered"
  /\ calls' = [calls EXCEPT ![d].phase = "refreshing"]
  /\ UNCHANGED <<server, query, selected, clients, windowStates, stores, history>>
Refresh(d) ==
  /\ Pending(d) /\ calls[d].op = "open" /\ calls[d].phase = "answered"
  /\ fetch' = Sent
  /\ calls' = [calls EXCEPT ![d].phase = "refreshing"]
  /\ UNCHANGED <<server, registry, observed, selected, clients, windowStates, stores, history>>

\* The operation ends: select with the window as it was when it began.
Finish(d) ==
  LET c == calls[d]
  IN  /\ Pending(d)
      /\ c.phase = IF c.op = "open" THEN "refreshed" ELSE "answered"
      /\ select(IF c.op = "open" THEN c.id ELSE None, c.sel, c.project)
      /\ calls' = [calls EXCEPT ![d] = NoCall]
      /\ fetch' = Sent
      /\ UNCHANGED <<server, registry, observed, touched, raced>>

\* The user selects, pins, places or previews in the mounted workspace.
Interact ==
  /\ Mounted # None /\ ~Pending(Mounted)
  /\ stores' = Mounted /\ touched' = touched \cup {Mounted}
  /\ UNCHANGED <<server, query, selected, clients, windowStates, calls, raced, overtaken>>

Next ==
  \/ \E p \in Projects : OpenElsewhere(p)
  \/ \E p \in Projects : CloseElsewhere(p)
  \/ \E d \in Dialogs : Open(d)
  \/ \E d \in Dialogs : Close(d)
  \/ \E d \in Dialogs : Refused(d)
  \/ ReadRegistry
  \/ Invalidate
  \/ \E S \in SUBSET Projects : Registry(S)
  \/ \E d \in Dialogs, p \in Projects : onSelectProject(d, p)
  \/ \E d \in Dialogs, op \in {"open", "close"}, p \in Projects : Start(d, op, p)
  \/ \E d \in Dialogs : Refresh(d)
  \/ \E d \in Dialogs : Finish(d)
  \/ Interact

Spec == Init /\ [][Next]_vars

(* ------------------------------ properties ------------------------------ *)

Quiet == ~notified /\ fetch = Idle /\ \A d \in Dialogs : ~Pending(d)

\* The window-wide stores never hold the state of a project other than the one
\* chosen, and no snapshot that of another project, as long as no operation
\* ends in a window that has moved on (select, projectWindowState.ts).
Isolated ==
  ~overtaken => /\ stores \in {None, selected}
                /\ \A p \in Projects : windowStates[p] \in {None, p}

\* The interaction state of an open project is in the stores while it is
\* chosen and in its snapshot otherwise: switching back and forth loses nothing
\* (select, release).
StateKept ==
  ~overtaken => \A p \in touched \cap opened : IF selected = p THEN stores = p ELSE windowStates[p] = p

\* Once the registry is up to date nothing is kept for a closed project, unless
\* it was closed while an operation of this window was under way (release).
Kept(p) == p \in clients \/ windowStates[p] # None
Released == Quiet => \A p \in closed \ raced : ~Kept(p)

\* What these rest on.  An answer of the registry under way lists every open
\* project that is listed now; a project closed since it was read is announced.
AnswersFit ==
  \A S \in SUBSET Projects : fetch = Answer(S) =>
    /\ S \subseteq opened \cup closed /\ registry \cap opened \subseteq S
    /\ S \cap closed # {} => notified
ClosingTold ==
  \A p \in closed \cap registry :
    notified \/ fetch = Sent \/ \E S \in SUBSET Projects : fetch = Answer(S) /\ p \notin S

\* What is chosen was listed, and has a client as long as it may be shown.
SelectedFits ==
  selected # None =>
    /\ selected \in registry \cup closed
    /\ \/ selected \in clients
       \/ selected \notin registry /\ \A S \in SUBSET Projects : fetch = Answer(S) => selected \notin S

\* An operation remembers a project that it showed, or none because it was gone;
\* what is closed meanwhile has raced with it; and what it opens is listed, or
\* about to be, once it has awaited the registry.
CallsFit ==
  \A d \in Dialogs : Pending(d) =>
    LET c == calls[d]
    IN  /\ c.project \in {None, c.sel}
        /\ c.project = None /\ c.sel # None => c.sel \in closed
        /\ c.project # None => c.project \in (raced \cap closed) \cup (clients \cap registry \cap opened)
        /\ c.op = "open" => (c.id \in closed => c.id \in raced)
        /\ c.phase # "sent" => c.id \in opened \cup closed
        /\ c.phase = "refreshing" =>
             fetch = Sent \/ \E S \in SUBSET Projects : fetch = Answer(S) /\ c.id \in S \cup closed
        /\ c.phase = "refreshed" => c.id \in registry \cup closed

\* State is kept for listed projects with a client, and for those that raced.
KeptListed ==
  /\ \A p \in Projects : Kept(p) => p \in raced \/ p \in clients \cap registry
  /\ touched \subseteq opened \cup closed /\ touched \cap opened \subseteq registry

\* Inductive.
ServerWindowInv ==
  /\ TypeOK /\ AnswersFit /\ ClosingTold /\ SelectedFits /\ CallsFit /\ KeptListed
  /\ Isolated /\ StateKept /\ Released

\* A project that is chosen gets its workspace, or turns out to be closed, or
\* another one is chosen (Finish, Registry, select).
WorkspaceAppears ==
  \A p \in Projects : p \in opened /\ selected = p ~> (Mounted = p \/ p \in closed \/ selected # p)

\* What becomes of an operation: the project it opens is chosen in the end, or
\* closed by then, unless another operation ended meanwhile (Finish).
OpenedIsChosen ==
  \A p \in Projects : Opening(p) ~> (selected = p \/ p \in closed \/ overtaken)

\* What state-and-data-flow.md says: "Shared close releases that project's
\* window state."
\* Not kept in every order of events: see the README, section 5.
ReleasedOnClose == Quiet => \A p \in closed : windowStates[p] = None

\* What state-and-data-flow.md says: "Switching projects restores its
\* selection, graph, Data View and tool drafts".
\* Not kept in every order of events: see the README, section 5.
SwitchRestores ==
  \A p \in touched \cap opened : IF selected = p THEN stores = p ELSE windowStates[p] = p
=============================================================================
