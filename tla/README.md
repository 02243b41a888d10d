# Wordflow: a TLA+ verification of the project runtime, the windows over it and its hosts

Wordflow is a text-analysis application: a Rust backend that owns one DuckDB
project file per runtime (`backend/`), a desktop host (`frontend/src-tauri/`), a
multi-user server that starts one worker per user (`server/`), a text library
(`ldaca-rs/`) and a React frontend (`frontend/src/`). What is hard to test in it is
not SQL but ownership and time: who may touch the project now, what happens to
accepted work when a window closes, and what a window shows when answers, events and
further requests overtake one another, and what a host leaves behind when a step of it fails. These modules model that part, check it with
TLC and prove the central facts about the backend with TLAPS.

## 1. The system

| Part | State | Operations | Talks to |
|---|---|---|---|
| Table protection, `backend/src/project/protection.rs` | map of leases with purpose and targets, a `Notify` | reserve (mutation, editing, analysis), `ready`, drop | every writing operation, editor, Annotation run |
| Task registry, `backend/src/tasks.rs` | list of entries, a token and a tracker of children per task | submit, update, cancel, dismiss, purge, cancel_all, close | runtime (operation per task), tabs, UI snapshots |
| Project runtime, `backend/src/project/runtime.rs` | `Option<Project>`, admission (`available`, `close`), tracker, active work, lifecycle `RwLock`, editor `Mutex` | operation, run, begin/with editor, snapshot, initialize, save, rename, begin_close, discard, close | all of the above; host |
| Desktop host, `frontend/src-tauri/src/documents.rs`, `supervisor.rs`, `desktop_updater.rs` | windows, path ownership, opening gate, Quit lease, a lock per document, a backend per window | open, save, close, export, quit, install update, unload | runtime, supervisor |
| Cell editing, `backend/src/project/cell_edit.rs`, `frontend/src/features/table-editing/` | sessions and the last 100 completions; the editor, its draft, the navigation guard | begin, page, save, cancel; edit, ask, leave, tear down | protection, changes, HTTP |
| Changes, `backend/src/project/changes.rs`, `api.rs`, `frontend/src/features/project/projectChanges.ts`, `useNativeTasks.ts` | scopes on a broadcast channel, the event stream; pending scope and stage of the window's refresh | commit, publish, forward or reset, refresh in stages | every query of a window |
| Event stream of the server window, `frontend/src/features/server/events.ts` | one stream, its listeners and its project | subscribe, unsubscribe | registry, project views |
| Analyses, `backend/src/project/analyses.rs`; `savedAnalysis.ts`, `Tabs.tsx`, `useTabSettings.ts` | tabs, runs, versions, results; cached list, manifests, pending settings | create, update, reorder, begin, publish, clear, delete | task executions, changes |
| Renames, `frontend/src/features/project/reconcileRenames.ts` and the stores | receipts, drafts, references by name | apply, prune, leave, return | graph query, events, answers |
| Project switching, `frontend/src/features/server/ServerApp.tsx` | chosen project, a query client and a snapshot per project | select, open, close, follow the registry | server routes |
| Topic Preview, `backend/src/project/runtime/topic_preview.rs`, `useTopicPreview.ts`, `TopicAdjustments.tsx` | preview per tab, adjustment tokens, admission lock; what the window shows and expects | open, adjust, release, cancel, Run | runtime |
| Project file, `backend/src/project/lifecycle.rs` | path, connection, staging directory, lock of the destination | `save_to` (Save As, Rename) with rollback | runtime, file system, other applications |
| Annotation run, `backend/src/project/runtime/annotation_execution.rs`, `annotation/execution.rs`, `ai/inference.rs` | captured rows and texts, batches under way, predictions | capture, predict, stage, publish | protection, tasks, tabs, a model provider |
| Provider connections, `backend/src/ai.rs`, `ai/credentials.rs` | metadata file, credential store, keys in memory | create, update, remove | Annotation run |
| Reusable caches, `ldaca-rs/src/cache.rs`, `file_lock.rs` | a DuckDB file and its log, two locks of the process, two lock files | look up, fill, rebuild, clear | text analyses, other processes |
| Data library of the web server, `server/src/files.rs`, `routes.rs` | files and folders, the gate, folders that receive an upload | upload, move, delete | clients that may disconnect |
| Server workers, `server/src/workers.rs`, `main.rs` | start cell per user, admission gate, stopping flag; the containers | client, start, shutdown, restart | Docker |
| Other routes, imports, exports, analyses in SQL, text library, drawing of the frontend | none shared, or DuckDB's and the file system's | | |

What makes a part correct:

* Protection: an edit or Annotation run never shares its table with a write; a
  wait ends when the writes before it end.
* Tasks: one run per tab; the list tells the truth about what is executing; a
  cancel is not undone; a closed registry stays empty.
* Runtime: the project outlives whoever uses it; a copy of it is taken at rest;
  a pause is always undone and a final close never; accepted work is never
  abandoned and never blocks a close for ever.
* Cell editing: a Save is applied once, however often it is retried; the editor is told
  what happened; no draft disappears unasked; a gone editor holds no table.
* Changes: no window ends up showing an older state than the last commit.
* Analyses: an output is shown exactly when the tab's analysis has one; tabs and settings
  of a window become those of the project.
* Renames: a reference names what the user chose, however a rename reached the window.
* Switching: states of projects do not mix, survive a switch and go with the project.
* Topic Preview: one per tab; adjustments form a chain; a Run gets past it.
* Project file: whatever fails, the project as last committed is complete on disk, and no
  file of anybody else is lost.
* Workers: never more than the limit, none left and none started after shutdown.
* Desktop documents: a file has one owner; an approved Quit leaves nothing open; no lock
  waits for a dialog.
* Annotation run: at every commit the column holds the provider's answer for exactly the
  rows it was asked about; the report adds up; nothing is sent or written that should not be.
* Provider connections: a key follows its connection through every failure.
* Caches: a lookup's cache is not cleared under it; no log outlives its database.
* Data library: no file is lost or replaced; an upload finds its folder; a batch is all or nothing.

The hazards behind these, each with its source line, are in `PROJECT.json`.

## 2. Modules

| Module | Models | Checked by |
|---|---|---|
| `Exclusion` | what table protection promises | refined by `Protection`, instantiated by `Runtime` |
| `Protection`, `ProtectionProofs` | `protection.rs`; theorems | `MCProtection` |
| `Tasks`, `TasksProofs` | `tasks.rs` and how submitters, tab deletion and close use it; theorems | `MCTasks` |
| `Runtime`, `RuntimeLocks`, `RuntimeProofs` | `runtime.rs`, the close dialog of `documents.rs`; lemmas about its two locks; theorems | `MCRuntime` |
| `CellEdit` | an editor and its session, end to end | `MCSessions` |
| `EditDraft` | what a draft is made of and how it is shown | `MCSessions` |
| `TopicPreview` | Preview, adjustments and Run of a tab, end to end | `MCSessions` |
| `ProjectEvents` | commits, announcement, refresh of a window's queries | `MCSessions` (tab list and output), `MCFeeds` (rows of a view) |
| `TaskFeed` | task snapshots and reports of finished tasks | `MCFeeds` |
| `EventStream` | the shared event source | `MCFeeds` |
| `ServerWindow` | one window over several projects | `MCFeeds` |
| `Renames` | references by name | `MCCaches` |
| `SavedOutput` | the output of a tab | `MCCaches` |
| `TabList` | the tabs of a tool | `MCCaches` |
| `TabSettings` | presentation settings of a tab | `MCCaches` |
| `SaveTo` | Save As and Rename of a project file, system call by system call | `MCHosts` |
| `Workers` | containers of the multi-user gateway | `MCHosts` |
| `Documents` | windows, backends, exports, Quit and updater of the desktop | `MCHosts` |
| `Annotate` | an Annotation run with its provider, beside deletion and clearing of its tab | `MCSessions` |
| `TextCache` | caches of computed texts, used by several processes | `MCHosts` |
| `DataLibrary` | uploads, moves and deletions of the web server | `MCHosts` |
| `Connections` | provider connections and their keys | `MCHosts` |
| `SessionsProofs`, `FeedsProofs`, `CachesProofs`, `HostsProofs` | theorems about the components of the four sums below | |

Definitions keep the names of the code (`reserve`, `ready`, `submit_owned`,
`purge_analysis`, `begin_close`, `reconcileProjectRenames`, `clearSavedAnalysis`).
Definitions called `Bug_...` are deliberate mistakes: each takes the place of the
definition after it in a mutated model, where a property must fail. They are
never part of a specification.

`MCSessions`, `MCFeeds`, `MCCaches` and `MCHosts` are sums: each instantiates several components over
disjoint variables, and a variable `part`, chosen in the initial state, says which one
runs while the others stay in their initial state. Since the components share
nothing, their product has no behaviour of one component that the sum lacks, and a property
of one component is checked on exactly the reachable states of that component. The
sum keeps one configuration for related questions without multiplying state spaces.
The fairness of a component is guarded by its `part`.

What a theorem should hold for is a CONSTANT of the sum, also where the instance has a function
for it: the kinds and names of the queries (`Kind`, `Names` in `MCSessions`), the spellings of a file
(`Identity` in `MCHosts`), the first catalogue (`First` in `MCCaches`). The configurations give them the
definitions `MCKind`, `MCNames`, `MCIdentity` and `MCFirst`.

### Protection

`entries` is the map; `waiter` is where each exclusive lease stands in the loop
of `Lease::ready`: register with the notification (`Enable`), read the map under
its lock (`Scan`), go to sleep (`Sleep`), be woken (`Wake`) or cancelled (`Interrupted`). Dropping
a lease is two steps, as in the destructor: `DropRemove`, then `DropNotify`.
Names are compared by identity (`same` folds case and defaults the schema), so a
`Target` is a spelling and `Identity` what it names. `None` targets (arbitrary
SQL) overlap everything, a write with an empty list overlaps only those.

### Tasks

`exec` follows one submission: `Lookup` of its tab, `Admit`, `submit_owned`
(busy check and push under one lock), then the detached execution: `CheckStart`,
`MarkRunning`, body with children, `Finish`, `Record` after the children are
gone, `Send`, and last `DropOperation`. `publish` is the sort and the cut to the
history limit, and every action that updates an entry applies it. `finishedAt`
and `clock` order finished tasks; `clock` grows only when a task finishes, so it
is bounded by the number of tasks. The tab is deleted in two steps (commit,
purge), because the commit is visible to others before the purge. Close stops
admission, cancels listed tasks, cancels active operations, and waits.

### Runtime

A client is one caller with at most one request or one task. A request goes
through `operation` (admitted, tracked), takes its places in the editor's and
the lifecycle line, reserves, enters `spawn_blocking` (where token and project
are looked at), uses the project, drops its guards and last its operation. A
task keeps its own operation and takes further ones (`Stage`), which a pause
lets through. The session begun by a client is named after it, and keeps the
client's reservation.

The two tokio locks are fair; each is one sequence of its holders and waiters. A
mutex is held by the head. A reader of the lifecycle lock holds it when no
writer is ahead, a writer when it is the head. `try_lock` succeeds on an empty
line. This makes `now_or_never` in `with_editor` and `begin_editor` (a place in
the line before the work is detached) the append itself.

Savers (`User`, `Rename`, `Host`) run `save_project`, which asks no admission
and is not tracked. Discarders (`Closer`, `Unload`) run `discard_cell_edit`. The
host runs `settle_for_close` and `close_document`; dialogs are choices that
need not be answered. `close` may come at any time (the process stops) and, after
approval, from the host.

Steps merged into one action, because no other actor can tell: the editing check
of `save_project` and `snapshot` with their `try_lock`; dropping all guards of one
blocking closure; `admission.cancel` with the rest of `interrupt_and_wait` of a
provisional close, after which no nested operation is admitted either.

### CellEdit and EditDraft

`CellEdit` has both ends and the network between them: `view`, `draft`, `call`, `asking` and
`navigating` are the window's, `sessions`, `completed` and `applied` the server's, `inbox` and
`replies` what is on its way. A request or its answer may be lost, and the user may then repeat
Save or Cancel, amend the draft, or leave. `complete` keeps only `Kept` completions (100 in the
code). Teardown sends a Cancel with keepalive, which may overtake a Save. Values are a set of
edits, of which the database refuses some; a session whose `begin` answer arrives too late
is kept as view `"dropped"`, and nothing is claimed of it. `TableOf` says which table a session
edits; in the runs it is the same for all, the hardest case, in the proofs any function.

`EditDraft` is the arithmetic of the screen: rows of a frozen snapshot in the order of the
sorting, cut into pages; insertions anchored above a row (deleted rows and added rows
included); patches and deletions; and the body `save` builds from them.

### ProjectEvents, TaskFeed and EventStream

`ProjectEvents` separates commit, publication, forwarding and the refresh: `unpublished` may be
sent in any order, `channel` holds at most `Capacity` scopes and then sets `lagged`, which the
stream turns into a reset; a broken stream reconnects with a reset. The observer
collects scopes in `pending` and works them off in stages (tabs, schema, manifests, the rest),
cancelling what is in flight, so an answer read before a commit cannot land after its refresh.
What a query reads is the number of commits that concern it. `TaskFeed` has numbered snapshots on
three roads and an observer that may be mounted twice (Strict Mode). `EventStream` is
`events.ts` with every order of effects and their cleanups.

### Renames and ServerWindow

`Renames` keeps all catalogues the project has had, so that "the table the user chose" has a
meaning: a reference remembers which table it was made for and whether the renames applied to
it came in commit order. Each rename is delivered by answer (here) and by event; `receipts`
are the change ids already seen. The graph query runs at its own pace and prunes.

`ServerWindow` is `select` with its capture and restore, the dialog's Open and Close that end
in a window that may have moved on (closures keep the render that started them), and the registry
query, invalidated by events, whose subscriber releases what has gone.

### SavedOutput, TabList and TabSettings

`SavedOutput` has one tab whose analyses are numbered by Runs, and the two caches that must
agree (tab list and manifest). Reads, the observer's refresh and Clear cancel, remove, patch and
invalidate them as the code does. `TabList` has the calls of one window, of another one, the
effect that makes the first tab of an empty tool, and the read of the list that a create
cancels. `TabSettings` has the queue of whole-object saves, the optimistic base, and the entry
`manual` which the server keeps to itself.

### TopicPreview

A Preview lives as long as its response stream; `registered` is the map of the server, `work` the
computation in the pool, which outlives a dropped connection. Opening releases earlier
Previews under the admission lock, and a Run does so before it fits. An adjustment carries the
projection it expects; `replaced` records which one it really replaced.

### SaveTo

`dir` maps files to what they hold: a version of the project, another application's content, or
nothing. A name is a spelling, `Identity` the file it stands for on a disk that folds case, and
`name` the spelling a file was given. `pc` follows `save_to` from the chooser (`Choose`, `Begin`)
over `lock_destination`, the staged copy, `MoveAside` (Rename to another spelling of itself),
`Install` and `Open` to `MoveOld`, or back through `Remove` and `Restore`. Each of these may
fail, the other application creates, opens and closes files between any two, and `Crash`
stops the process anywhere. A staging directory goes with the operation; `Strand` is the rollback
that keeps it.

### Workers

`at` follows a user's start from the queue at the admission gate over counting, looking up,
`docker run` or `docker start` to the probe; `main` follows the gateway to its signal, the first
shutdown, the drain of requests and the second shutdown. A handler is dropped where it stands when
its client goes (`Abandon`) and all are when the gateway dies (`Crash`); a docker command
then goes on by itself (`orphans`), and a container it starts is remembered in `late`. `new` is a
restart, which refuses a deployment over its limit.

### Documents

`path` is what the registry says of a document and `file` what its backend has open. `gate` is
`opening_gate`, `actions` the lock of each document, which a save or a close keeps across its
dialogs, `quit` and `outcome` the lock of Quit and the approval it protects. `status` and `run`
are the supervisor's published status and its task. A close answers whoever waits for it, so a
Quit and the updater may both visit one document that the user is already closing.
`settle_for_close` is seen from outside here: it refuses, approves or saves; its inside is in
`Runtime`.

### Annotate

`run` is the task: `phase` follows `submit_annotation` from the queue over the reservation,
`begin_analysis_run`, `capture` and the loop of windows to `publish`. `inputs` are the distinct
texts in the order the database numbered them, `after` how many of them have been handed out;
each of `jobs` is a batch of the window with its stack of ranges (`todo`), its attempts and its
output, polled only while the task waits for the next batch. `Claim` is the pair of reversible
writes by which a transaction holds the tab against one that deletes or clears it; whoever comes
second fails. `label` is the column, `analysis` the row of the tab's analysis. Its fields `before` and
`said` remember what the column held and what the provider has said; they decide nothing. Examples,
review and Preview are left out, as are the texts themselves beyond which rows share one.

### TextCache

`at` follows a thread through the locks in the code's order: the lease of its process, the lease
file, the mutex, the lock file. `job` says whether it fetches, stores or clears. The database is
`db` and `full`, its log `wal`; a log that has lost its database is `stale`. `compute_misses` has
the lease but no lock. `Kill` ends all threads of one process between any two steps, and the
operating system releases what they held. Which thread belongs to which process is a constant.

### DataLibrary

`parent` and `name` are the tree. `gate` is the tokio mutex, held by a batch or a publication;
`uploads` maps each upload to the canonical path of its folder, as `Mutations.uploads` does, and
`preflight` compares against it. A batch renames one item after the other, in any order, and goes
`back` when one fails. A rename replaces what has its name, which `NothingOverwritten` would notice.
`Release` is the task that `UploadProtection::drop` spawns. Folder creation only adds names that are
free, under the same gate, and is left out.

### Connections

One connection at a time is followed (the requests are serialized by one lock and each is about
one identity), and its successors under new identities. `op` is the request between its three
accesses: the key (`change_credential`), the file (`persist`), the way back
(`restore_credential`). `wanted` remembers the last request that succeeded.

### What the models of windows take from libraries

TanStack Query, as the code uses it: `cancelQueries` reverts the query to its state before the
read and lets who awaited it go on; an invalidation of a shown query starts a read that
supersedes the one under way; `setQueryData` clears the invalidation; hidden queries are only
marked. React: the effects of a render run with the state change that caused it, and closures
keep the values of their render. The browser's event source reconnects by itself.

## 3. Runs

| Run | Instance | States | Shows |
|---|---|---|---|
| `Protection` | 3 leases, 2 tables, one with 2 spellings | 151 k | exclusive use, refinement of `Exclusion`, the inductive invariant (no lost wakeup is part of it), and that a reservation is settled |
| `Tasks` | 2 tasks, 1 tab, limit 1, 1 child | 112 k | one run per tab, truthful entries, forward only, the inductive invariant (closed is empty is part of it), cancelled tasks end, close completes |
| `RuntimeSafety` | 2 clients, 1 table, all callers, 1 stage | 1.2 M | the seven runtime properties and the structure of the lines |
| `RuntimeLiveness` | 2 clients, host and rename | 120 k | accepted work ends, close completes |
| `SessionsSafety` | a dialog and a panel on 1 table, 1 completion kept, 3 requests each; tables of up to 3 rows, 2 added; 2 Previews, 2 adjustments, 1 Run; 2 queries over a channel of 1, 2 commits or a commit and a break; 5 rows with 3 texts, 2 Annotation runs | 1.1 M | editor, draft, Preview and labels are right, views are current or marked to be read again |
| `SessionsLiveness` | the editor with a refused edit; 2 Previews, 1 Run; 4 rows, 1 Annotation run | 60 k | tables are given back; navigation, Previews and Annotation runs come to an end |
| `Feeds` | a view over a table, 2 commits; 2 tasks, 2 mounts; 2 listeners, 3 views; 2 projects | 190 k | the window catches up, tasks are reported once and forward, one stream, projects kept apart |
| `Caches` | 2 tables, 3 names, 2 columns, 2 renames, 2 choices; two of another Run, a Clear and a change elsewhere; 2 tabs, 2 calls here, 1 elsewhere; 2 entries, 3 changes | 1.2 M | references, the output, tabs and settings agree with the project |
| `HostsSafety` | 4 spellings of 3 files, 2 operations, 2 changes; 2 users, limit 1, 2 faults; 2 documents, 2 paths, 1 Save As, Quit and updater; 3 threads of 2 processes, 4 calls; 2 folders, 2 files, 1 upload, 2 batches; 2 keys, 2 connections, 4 requests; 2 faults in each | 646 k, up to symmetry | files are safe, workers bounded, documents owned; caches, library and keys are sound |
| `HostsLiveness` | 2 users, 1 fault; 2 documents, 1 path, Quit; 3 threads of 2 processes, 3 lookups or clears of a cache | 48 k | starts, shutdown, opens, approved closes and Quit come to an end; cache locks do not deadlock |
| `TasksRetention`, `RuntimeEditorClose` | small | | two disagreements between documents and code |

Why the bounds are enough. Three leases: one waits while one leaves and one
arrives. Two tasks with a history limit of 1 compete for the place, and one is submitted while
the other ends. Two clients: one waits for what the other holds, while
savers, discarders, host and close add five more actors to the same lines; a third
client would repeat the second one's role. One table suffices in `Runtime`, since
disjoint tables do not meet there and `Protection` covers overlap. Two sessions on one table
with one completion kept: the second one's end forgets the first one's. Three rows on pages
of one or two put an anchor first, last, in between and across a page. A channel of one lags at
the second commit, and a stream that breaks loses the only one. Two Previews: one is replaced by the other while a Run releases both. Two
renames over three names make the shortest reuse of a name. Two Runs give an old and a
new analysis to mistake for one another; any two of another Run, a Clear here and a change
elsewhere meet, and `OutputStaysTrue` proves the rest. Three changes over two entries are one sent, one
queued and one optimistic. `SessionsLiveness` leaves adjustments and the accepted edit out,
`Feeds` the break of the stream (it happens in `SessionsSafety`), and `RuntimeLiveness` the
caller `Unload` and some accesses, to stay small. Two operations on the file are one that fails
and one that follows it, and four names give two spellings of one file, a free or foreign one, and
an Untitled project. Two users for one worker race for the last place; two faults are a dropped
start and whatever follows it. Two documents race for one path, and the second path is where a
Save As of one meets an Open of the other. `HostsLiveness` leaves the menu's saves and the updater
out, whose locks are the same. Two of the five rows share a text and one of them has a label, which
is where asking for missing labels and writing by text differ; three texts are sent one by one,
two at once, without retries, which gives a full and a short window; or in batches of two, one
after the other, with one retry, which gives a batch that can be split and repeated. A second
run starts from what the first one has left. Two threads of one process and one of another meet in
each of the four locks. A folder within a folder gives an upload an ancestor and a selection that
contains another; an upload with the name of a file meets it at its destination. Two faults are a
rename and the one that undoes it, or a store and the way back. In `HostsSafety` users,
documents and paths are interchangeable and a symmetry set; it checks no liveness.
`SessionsLiveness` has four rows and one run.

Deadlock checking is off: every one of these systems may come to rest (all leases dropped, all
tasks done, the runtime closed, the user idle); that nobody is stuck is what the liveness
properties show, among them, for the locks of the caches, `HostsSettle`: whenever a thread is at work,
some thread can take a step.

Fairness. Tokio polls every woken future, its locks are first come first served,
and the notification wakes every registered waiter: weak fairness on each actor's
own steps. The Topic Preview's admission lock is held and released over and over, and being a
fair queue it gives strong fairness to the two who ask for it. A database or model call is
assumed to end, in `Tasks` only after its token is cancelled. Requests arrive or are seen to
fail, answers are delivered or seen to be lost, the event stream goes on, the mounted observer
works off what it has. Docker answers, and a worker told to terminate does (the container has a
handler for it); a backend opens its project or fails, and stops when told to. The admission gate
of the workers and the opening gate of the documents are tokio mutexes, hence queues: strong
fairness for those who ask. A provider answers or the request runs into its timeout of 300
seconds. No fairness is assumed of users: nobody has to submit, cancel, answer a
dialog, save, unload or close; and none of losses or breaks.

The properties of the sums join what one component promises. `EditorIsTruthful`, for
example, is applied at most once, told the truth and held by a live session only; a single one
of them would be kept by an editor that never saves. `ProjectsKeptApart` says what must never mix and
`CatchesUp` what must eventually appear, `SessionsSettle` what each conversation must come to. Where a property excuses a race, the
race is a state of the model (`raced`, `overtaken`, `outdated`, `since`, `fresh`) set by the step
in which it happens, and section 5 says what happens in it.

### What the violations show

* `TasksRetention`: `publish` keeps the first 100 finished entries in display order,
  failures before successes. With 100 failures kept, a task that has just succeeded
  disappears at once, while the documents say the latest 100 are retained.
* `RuntimeEditorClose`: `begin_editor` takes its operation and then reserves the table.
  If the close pauses admission and looks for an editor between the two, the session
  opens after the check, and the close is approved over an open editor, which the
  documentation says it returns to. The session holds no saved change by then (admission
  is paused), so what is lost is the session itself.

## 4. Proofs

TLAPS proves what follows for every value of the constants: any number of leases, tables,
clients, tasks, users, documents, queries, Previews, any limits. Every invariant named here is a
conjunction of named parts, is inductive, and is what a run of section 3 checks first; each proof
has a lemma for the initial state and one for each action or group of actions.

* `ProtectionProofs`: `ProtectionCorrect` (`Spec => []ProtectionInv`), and from it
  `MutualExclusion`, `WakeupsAreNotLost` and `ImplementsExclusion`. `ExclusiveUse` is
  not inductive alone: `Scan` grants on what it reads, and the proof needs that a
  mutation cannot have entered since the reservation, so the invariant ties the state of
  each waiter to its entry and says that a sleeper was either notified, or has a
  conflicting write left, or has a dropped lease about to notify. `OverlapsSymmetric`
  is the one fact about the operators. The refinement maps `granted` to the leases
  whose `ready` has returned; wake, sleep and notify steps are stutters.
* `TasksProofs`: `TasksCorrect` (`Spec => []TasksInv`), and from it `TabRunsAreExclusive`,
  `EntriesAreTruthful` and `CloseIsFinal`; and `EntriesMoveForward` (`Spec => ForwardOnly`), an
  action property. The strengthening says where an entry and
  children may exist along `exec`. `PublishFacts` states all the proof uses of
  `publish`: it changes no entry except to remove a finished one. Actions are grouped by
  how they change the list (nothing, one entry, many entries), a lemma for each.
* `RuntimeProofs`: first `AdmissionInv`, from which `PauseIsUndone` (`Spec => []AdmissionRestored`)
  and `RenameFindsRest` (`Spec => []RenameWhenIdle`) follow. A destructor that restores
  admission is right only if nobody else has paused it, so the invariant names the one
  owner of a pause: rename while it is at work, or the host while its dialog is up.
  Rename then stays at rest because work can only be accepted with the token that its
  pause took, and a task's stages, which a pause lets through, belong to a tracked task.
  Then `RuntimeCorrect` (`Spec => []RuntimeInv`), and from it `ReleaseWaits`, `CopiersAreAlone`,
  `CloseIsFinal` and `TablesStayExclusive`, and the action property `SavesAreNotRobbed`. What makes
  these inductive is who stands in the two lines: `LinesInv` says that a line holds each of its users
  once and nobody else, `GuardsHeld` that who has gone on from a line keeps its turn. A release
  needs the lifecycle lock alone, so nobody uses the project; a save looked for sessions while it
  held the editor's lock, which a session needs to begin (`CopiersFindRest`); and every phase of the
  final close has behind it what the ones before awaited (`CloseInv`). `RuntimeLocks` holds the lemmas about
  sequences as lines: joining at the end, leaving from the middle, and what either does to who is ahead.
* `SessionsProofs`: `PreviewStaysOwn` (`Spec => []PreviewIsOwn`). That one Preview holds the tab rests on
  `LockHeld`: whoever waits under the admission lock has cancelled all that are registered, and
  nothing registers meanwhile. That an adjustment replaces what it was computed from rests on
  `ComputedFromShown`: a model other than its base is newer than the projection it expects, and is
  refused; which needs that revisions are numbered in the order they are made (`Numbered`).
  `ViewsStayCurrent` (`Spec => []ViewsAreCurrent`). `ChangesAreTold` is the argument of the design: a
  cached value that is not current has its change announced somewhere on the way (`Told`), or is being read
  again, or waits for its stage of the running refresh, or is hidden and marked; an answer that is not
  current has its change still to come, and will be dropped when the change is taken up. When all is
  quiet none of these is left but the mark. `OutputIsListed` says the same of the analysis'
  identity, which Clear retains. Lost scopes are covered because a lag or a broken
  stream counts as an announcement of everything.
  `EditorStaysTruthful` (`Spec => EditorIsTruthful`, which contains the action property `NoSilentLoss`). What an
  editor is told is true because of what is still on the network: a session begins once, before
  anything else is asked of it, so a begin under way finds no trace of its session
  (`RequestsFit`, `CallsFit`); one answer at most comes back for a request, which is then no
  longer on its way, and what it says stays true until it is heard (`RepliesFit`); and what the
  server remembers of a session agrees with the table, though it forgets the oldest (`CompletionsTrue`).
* `FeedsProofs`: `StreamFollows` (`Spec => []StreamFollowsView`): one event source, for the project
  subscribed last. The strengthening numbers the streams as they are opened.
  `ListMovesForward` (`Spec => TasksReported`, which contains the action property `ShownForward`): all
  snapshots, wherever they are, belong to one history in which a task starts, finishes and is
  dismissed once (`HistoryForward`). A task that was reported is therefore cached as finished or listed
  by no snapshot still to be taken (`ReportsKnown`), and is not new to the observer a second time.
  `ProjectsStayApart` (`Spec => []ProjectsKeptApart`): an operation ends with the window as it was when it
  began, and is right all the same when the project it showed has a client still or has been closed
  meanwhile, which is what `raced` remembers (`CallsFit`). Nothing is kept for a closed project because
  what is kept is listed (`KeptListed`) and the list of a registry that lost it is announced, asked
  for or on its way (`AnswersFit`, `ClosingTold`).
* `CachesProofs`: `ReferencesAreFollowed` (`Spec => []ReferencesFollow`) by `RenamesLead` (each rename leads
  from one catalogue to the next) and `RefsKnown` (an ordered reference has seen exactly the receipts
  before its catalogue). `TabsAreSettled` (`Spec => []TabsSettle`), for the list by `ListCurrent`, `TabsKept` and
  `OneAuto`, for the settings by `LastRequest` (the youngest request carries every choice of its burst)
  and `ReadsFollow`. `OutputStaysTrue` (`Spec => []OutputIsTrue`): a list read before a Clear cannot bring
  the output back because what is absent is gone from every list under way (`AbsentGone`),
  lists only get newer (`ListsInOrder`), and a list or panel that is behind has a refresh or a read on
  its way (`ListTold`, `OutputComing`, `GhostMarked`).
* `HostsProofs`: `KeysAreKept` (`Spec => []KeysFollow`) by `Undoable`, which says what both stores hold at
  each point of a request, and that a remembered and a session key are both read to be put back; only
  `Exit` takes a session key along. `WorkersAreBounded` (`Spec => WorkersBounded`, which contains the action property
  `NoneStarted`) by `CountsHold`: what a start has counted stays an upper bound while it holds the gate;
  and `ShutdownListed`. `DocumentsAreOwned` (`Spec => []DocumentsOwned`) by `PathsKnown` and `LocksHeld`: the
  file of a backend is the registry's path but for an unrecorded Save As, during which nobody else
  owns the destination; and `QuitCounts` for what an approved Quit has seen. `FilesAreKept`
  (`Spec => FilesAreSafe`, which contains the action property `OthersKept`) by `OperationFits` and
  `CopiesComplete`: at each point of Save As and Rename, which copies are complete. `CacheStaysWhole`
  (`Spec => CacheIsKept`, which contains the action property `LeasedStays`): `LocksHeld` says who keeps
  whom out at each of the four locks, `PlacesFit` which places a job can bring a thread to, and `FilesFit`
  what it finds on the disk there: the file is current when it is used, and its log is gone
  before the file is replaced or removed.

Assumptions, all of them satisfied by the instances of section 3, where TLC evaluates them:
types of the bounds and limits; finiteness of the sets that are counted; that the absent value differs
from the values it stands beside (`ArbitraryAssumption`, `TasksAssumption`, and `None`, `NoCall`, `Private`,
`Gateway`, `Export` in the others); in `Renames` that the first catalogue is one (no two tables of one
name), in `SaveTo` that no other name stands for the private file of an Untitled project,
in `ProjectEvents` that a query of output depends on its analysis and one of tabs on the tab
list. `RuntimeProofs` uses that clients are not the other actors' names.

Only model-checked. Liveness (`ReservationSettles`, `CancelEnds`, `CloseCompletes`, `AcceptedWorkEnds`,
`SessionsSettle`, `CatchesUp`, `HostsSettle`) and ENABLED (in `HostsSettle`, for the caches) are out of the prover's
reach. `DraftIsWellFormed`, `LabelsAreSound` and `LibraryIsSafe` have no proof yet.

## 5. Claims the code does not keep

Besides the two findings above, the models refute these statements of documents, comments or
messages. Each is defined in its module, with its source quoted; checked as an invariant or
property over the instance of the module's run it gives a short counterexample. The properties of
section 3 are stated so that they say what holds outside of these cases.

| Definition | What happens |
|---|---|
| `Tasks!DeletedTabsHaveNoHistory` | A submission reads its tab in one operation and lists its task later; if the tab is deleted and purged between, the task is listed for a tab that does not exist, until it ends and is dismissed (`tasks.rs:263`; comment at `tasks.rs:322`). |
| `CellEdit!SaveCommitsDraft` | A Save whose answer is lost, then amended and repeated, is answered from the first Save's record: the editor closes as saved without the amendment (`cell_edit.rs:379`; `docs/domain/native-projects.md:329`). |
| `Renames!DraftsSettle` | A rename is applied when its first copy arrives. Another window renames `a` to `c`, this one then `b` to `a`; the answer comes first and moves a draft on `b` to `a`, then the delayed event moves it on to `c`, the other table (`reconcileRenames.ts:31`; "including response/event reordering", `docs/architecture/backend/native-projects.md:236`). |
| `Renames!MarkSurvives` | A graph answer read after a rename and delivered before its event prunes the table's pin, selection and preview (`ProjectView.tsx:145`; `docs/architecture/frontend/desktop.md:124`). |
| `ServerWindow!ReleasedOnClose` | The registry refresh overtakes the answer to Close; the pending `select(null)` stores the closed project's snapshot again (`ServerApp.tsx:55`; `docs/architecture/frontend/state-and-data-flow.md:31`). |
| `ServerWindow!SwitchRestores` | The same, after the user has chosen another project: that project is left without its state being kept (`ServerApp.tsx:55`; `state-and-data-flow.md:29`). |
| `SavedOutput!ListCurrent` | An empty manifest cancels the tab list's read; when that was the observer's refresh, none replaces it (`savedAnalysis.ts:57`; comment at `projectChanges.ts:47`). |
| `SavedOutput!BusyRefused` | Clear asks for active work before it is admitted; a run that begins in between is cleared under (`runtime.rs:1037`; `docs/reference/native-project-api.md:616`). |
| `TabList!EveryTabListed` | The answer of a create cancels the observer's read of the list and replaces it by a list of its own: a tab made elsewhere stays unlisted until the next read (`Tabs.tsx:48`; comment at `projectChanges.ts:47`). |
| `TabSettings!NoChoiceLost` | With no save pending a change starts from the cached list, which an older read may have overwritten: an earlier choice of another entry is sent back (`useTabSettings.ts:24`; comment at `frequencySettings.ts:66`). |
| `TopicPreview!RunWaits` | A dropped connection takes the Preview off the registry while it still computes, and Run waits only for registered ones (`topic_preview.rs:18`; `docs/architecture/backend/native-analyses.md:400`). |
| `TopicPreview!CanAdjust` | The window drops the answer of an adjustment the server has stored, keeps the old projection as the expected one, and every later adjustment is refused (`TopicAdjustments.tsx:153`; message at `topic_preview.rs:129`). |
| `SaveTo!UnapprovedKept` | A file created after the chooser and before `lock_destination` is found, locked and replaced, although nobody was asked (comment at `lifecycle.rs:117`). One created after the lock is not. |
| `Workers!LimitKept` | The docker command of a start whose client has gone, or whose gateway has died, starts its container after the gate was released and another start has counted (comment at `workers.rs:203`). |

States the properties name rather than exclude: a shutdown whose `docker kill` has failed
waits for that worker as long as it lives (`Unsignalled` in `Workers`, `workers.rs:525`); and when
the process dies between the two moves of a Rename to another spelling, the project is
complete, but only inside the hidden staging directory (`ProjectKept` in `SaveTo`). When the
rename that undoes a batch fails, or the process ends within one, the library is left as it is
then (`torn` in `DataLibrary`); in a failed deletion the error drops the temporary folder with what
had been moved into it (`files.rs:246`), which had all been chosen for deletion. When the way back
of a key fails too, or the process ends between the two stores, the key and the metadata disagree,
and a key may stay behind without a connection (`torn` in `Connections`).

## 6. Not modelled

What SQL does, poisoned locks (a panic while holding a control lock), the `shutdown`
token of the host (it only refuses requests earlier), progress and notice texts, labels,
validation of requests, mutation stamps, the annotation editor's own rules and its
stale-notification check. Of the hosts: schema validation of a project file, creation of one
(atomic here), the isolation checks of a container (one step that may fail), proxying and
sockets, Help, recent projects, menus and reload. Of the services: Preview and review of
annotations, examples, wire formats and model lists of providers, keys that a browser keeps,
downloads of language assets, and downloads and listing of the library. Components without a module are listed in `PROJECT.json` with the reason.

Some steps are coarser or wider than the code, where no property depends on it: a deletion's
temporary folder can always be removed (`trash.close()` in `DataLibrary`); the lock on the
project's own file is taken to outlive the copy of that file, which POSIX does not grant (`SaveTo`); a thread gives up all its cache locks at
once, and a cache file of an older schema comes without a log (`TextCache`); an open request fails
only for a project that is closed (`ServerWindow`); an update that keeps its key is not followed
(`Connections`).

Most lines of the repository are not control that could be modelled: the archived applications
under `archive/`, the generated API clients and types, end-to-end scenarios, and JSX, styling and
charts of the tools. The modules cover the hooks, stores, dialogs and backend code that keep
state over more than one step, which is a small share of all lines.

## 7. Plan

Done: `Exclusion`, `Protection`, `Tasks`, `Runtime`, the window and its conversations
(`CellEdit` to `TopicPreview`), the hosts (`SaveTo`, `Workers`, `Documents`), the services
(`Annotate`, `TextCache`, `DataLibrary`, `Connections`), and the theorems of section 4. Next, in this
order:

1. Proofs: `LibraryIsSafe`, `LabelsAreSound`, `DraftIsWellFormed`.
2. The annotation Preview and its page, beside a run and edits.
3. Downloads of language assets, which share `with_file_lock`.
