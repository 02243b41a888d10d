------------------------------ MODULE Runtime ------------------------------
(***************************************************************************)
(* backend/src/project/runtime.rs: admission, ownership and close of one   *)
(* project runtime.  Clients take an operation, queue for the editor mutex *)
(* and the lifecycle lock, reserve tables and use the project; savers and  *)
(* snapshots take the locks for writing; the desktop host pauses admission *)
(* with a CloseAttempt, asks, interrupts and closes.  Table protection is  *)
(* used through what it promises (Exclusion, implemented by Protection).   *)
(***************************************************************************)
EXTENDS Naturals, Sequences, SequencesExt

CONSTANTS Client,    \* callers, each with at most one operation or one task
          Target, Identity, Arbitrary,
          Requests,  \* the accesses clients ask for
          Callers,   \* who else the deployment has: a server has no desktop host
          MaxStages  \* bound: operations one task takes after its submission

ASSUME RuntimeAssumption ==
    /\ MaxStages \in Nat
    /\ Requests \subseteq {"Read", "Write", "Targets", "Sql", "Execute", "BeginEdit",
                          "SaveEdit", "CancelEdit", "Snapshot", "Initialize"}
    /\ Callers \subseteq {"User", "Rename", "Host", "Unload"}
    /\ Client \cap {"Host", "User", "Rename", "Closer", "Unload"} = {}

VARIABLES project,    \* Shared.project: "None", "Untitled" or "Saved"
          available,  \* Admission.available is Some
          closed,     \* Admission.close is Some
          attempt,    \* who owns the CloseAttempt
          cut,        \* the attempt's admission token has been cancelled
          tracker,    \* Shared.tracker: "Open" or "Closed"
          lifecycle,  \* the fair RwLock, as the line of its holders and waiters
          editor,     \* the fair Mutex<Editor>, likewise; its head holds it
          sessions,   \* Editor.sessions, named by the client that began them
          entries,    \* Protection.entries, named by the client that reserved
          granted,    \* exclusive reservations whose wait is over
          pc, kind, table,  \* of each client: position, access, its table
          token,      \* its operation's CancellationToken is cancelled
          stages,     \* 0, or one more than the stages its task has left
          saver,      \* save_project, called by "User", "Rename" or "Host"
          discard,    \* discard_cell_edit, called by "Closer" or "Unload"
          host,       \* settle_for_close and close_document
          closing     \* the retained final close

admissionVars == <<available, closed, attempt, cut, tracker>>
lockVars == <<lifecycle, editor>>
protectionVars == <<sessions, entries, granted>>
clientVars == <<pc, kind, table, token, stages>>
vars == <<project, admissionVars, lockVars, protectionVars, clientVars, saver,
          discard, host, closing>>

Tables == INSTANCE Exclusion WITH Lease <- Client
-----------------------------------------------------------------------------
\* enum Access, the other users of own(), and the run of an Annotation task.
RunKinds == {"Read", "Write", "Targets", "Sql", "Execute"}
EditorKinds == {"SaveEdit", "CancelEdit"}
StageKinds == {"Write", "Annotate"}
Kinds == RunKinds \cup EditorKinds \cup {"BeginEdit", "Snapshot", "Initialize", "Annotate"}
Position == {"Idle", "Task", "Admitted", "WantEditor", "WantLife", "Waiting",
             "Blocking", "Using", "Ending"}
Savers == {"User", "Rename", "Host"}
Discarders == {"Closer", "Unload"}
Actor == Client \cup Savers \cup Discarders

TypeOK ==
    /\ project \in {"None", "Untitled", "Saved"}
    /\ {available, closed, cut} \subseteq BOOLEAN
    /\ attempt \in {"None", "Host", "Rename"}
    /\ tracker \in {"Open", "Closed"}
    /\ {lifecycle, editor} \subseteq Seq(Actor)
    /\ sessions \subseteq Client
    /\ entries \in [Client -> Tables!Entry]
    /\ granted \subseteq Client
    /\ pc \in [Client -> Position]
    /\ kind \in [Client -> Kinds]
    /\ table \in [Client -> Target]
    /\ token \in [Client -> BOOLEAN]
    /\ stages \in [Client -> 0..MaxStages + 1]
    /\ saver \in [Savers -> {"Idle", "Start", "Wait", "Saving", "Done", "Failed"}]
    /\ discard \in [Discarders -> {"Idle", "WantEditor", "WantLife", "Done"}]
    /\ host \in {"Idle", "Paused", "Unedited", "Prompt", "Interrupting", "Waiting",
                 "SavePrompt", "Saving", "Approved", "Stopping", "Done"}
    /\ closing \in {"Open", "Interrupt", "Wait", "Discard", "Release", "Closed"}

Init ==
    /\ project = "None"
    /\ available = TRUE
    /\ closed = FALSE
    /\ attempt = "None"
    /\ cut = FALSE
    /\ tracker = "Open"
    /\ lifecycle = <<>>
    /\ editor = <<>>
    /\ sessions = {}
    /\ Tables!ExclusionInit
    /\ pc = [c \in Client |-> "Idle"]
    /\ kind = [c \in Client |-> "Read"]
    /\ table \in [Client -> Target]
    /\ token = [c \in Client |-> FALSE]
    /\ stages = [c \in Client |-> 0]
    /\ saver = [k \in Savers |-> "Idle"]
    /\ discard = [d \in Discarders |-> "Idle"]
    /\ host = "Idle"
    /\ closing = "Open"
-----------------------------------------------------------------------------
\* The locks.  A line is served in order: a reader holds the lifecycle lock
\* when no writer is ahead of it, a writer when nobody is.
Ahead(line, a) == {line[i] : i \in {i \in DOMAIN line : \E j \in DOMAIN line : i < j /\ line[j] = a}}

\* A guard is dropped, or the wait for it is given up.
Without(line, a) ==
    IF a \in Range(line)
    THEN RemoveAt(line, CHOOSE i \in DOMAIN line : line[i] = a)
    ELSE line

Writes(a) ==
    \/ a \in Savers
    \/ a = "Closer" /\ closing = "Release"
    \/ a \in Client /\ kind[a] \in {"Snapshot", "Initialize"}

HoldsLifecycle(a) ==
    /\ a \in Range(lifecycle)
    /\ \A b \in Ahead(lifecycle, a) : ~Writes(a) /\ ~Writes(b)

HoldsEditor(a) == a \in Range(editor) /\ Ahead(editor, a) = {}

\* Tracked by Shared.tracker, listed in Shared.active.
Tracked(c) == pc[c] # "Idle"
has_work == \E c \in Client : Tracked(c)
IsTask(c) == stages[c] > 0

\* Protection::is_editing, and the check of snapshot and save_project.
Protected == \E c \in Client : Tables!IsExclusive(c)
is_editing == editor # <<>> \/ sessions # {} \/ Protected

InUse(c) == pc[c] = "Using" /\ kind[c] # "Initialize"
-----------------------------------------------------------------------------
\* Shared::check
check(accepted_task) == ~closed /\ (accepted_task \/ available)

Go(c, p) == pc' = [pc EXCEPT ![c] = p]

\* As if every caller counted as an accepted task.
Bug_operation_ignores_pause(c, k) ==
    /\ pc[c] = "Idle"
    /\ check(TRUE)
    /\ (c \in sessions) = (k \in EditorKinds)
    /\ Go(c, "Admitted")
    /\ kind' = [kind EXCEPT ![c] = k]
    /\ UNCHANGED <<project, admissionVars, lockVars, protectionVars, table, token,
                   stages, saver, discard, host, closing>>

\* ProjectRuntime::operation for a request: tracked from here on, with a child
\* of the admission token.  The owner of a session only saves or cancels it.
operation(c, k) ==
    /\ pc[c] = "Idle"
    /\ check(FALSE)
    /\ (c \in sessions) = (k \in EditorKinds)
    /\ Go(c, "Admitted")
    /\ kind' = [kind EXCEPT ![c] = k]
    /\ UNCHANGED <<project, admissionVars, lockVars, protectionVars, table, token,
                   stages, saver, discard, host, closing>>

\* A task's own operation (Tasks.tla has the rest of its life).
Submit(c) ==
    /\ pc[c] = "Idle"
    /\ c \notin sessions
    /\ check(FALSE)
    /\ Go(c, "Task")
    /\ stages' = [stages EXCEPT ![c] = MaxStages + 1]
    /\ UNCHANGED <<project, admissionVars, lockVars, protectionVars, kind, table,
                   token, saver, discard, host, closing>>

\* operation() inside a task: a pause lets it in, a cancelled task is refused.
Stage(c, k) ==
    /\ pc[c] = "Task"
    /\ stages[c] > 1
    /\ check(TRUE)
    /\ ~token[c]
    /\ Go(c, "Admitted")
    /\ kind' = [kind EXCEPT ![c] = k]
    /\ stages' = [stages EXCEPT ![c] = @ - 1]
    /\ UNCHANGED <<project, admissionVars, lockVars, protectionVars, table, token,
                   saver, discard, host, closing>>

\* The task ends, by itself or because its next stage was refused.
EndTask(c) ==
    /\ pc[c] = "Task"
    /\ Go(c, "Idle")
    /\ stages' = [stages EXCEPT ![c] = 0]
    /\ token' = [token EXCEPT ![c] = FALSE]
    /\ UNCHANGED <<project, admissionVars, lockVars, protectionVars, kind, table,
                   saver, discard, host, closing>>

CancelTask(c) ==
    /\ IsTask(c)
    /\ ~token[c]
    /\ token' = [token EXCEPT ![c] = TRUE]
    /\ UNCHANGED <<project, admissionVars, lockVars, protectionVars, pc, kind,
                   table, stages, saver, discard, host, closing>>
-----------------------------------------------------------------------------
\* As if a reservation outlived the operation that made it.
Bug_Drop_keeps_reservation(c) ==
    /\ Go(c, "Ending")
    /\ lifecycle' = Without(lifecycle, c)
    /\ editor' = Without(editor, c)
    /\ IF c \in sessions' \/ ~Tables!Held(c) \/ Tables!IsMutation(c)
       THEN UNCHANGED <<entries, granted>>
       ELSE Tables!Release(c)

\* As if the editor's guard were leaked.
Bug_Drop_leaks(c) ==
    /\ Go(c, "Ending")
    /\ lifecycle' = Without(lifecycle, c)
    /\ UNCHANGED editor
    /\ IF c \in sessions' \/ ~Tables!Held(c)
       THEN UNCHANGED <<entries, granted>>
       ELSE Tables!Release(c)

\* Dropping what an accepted future owns: its place in both lines and, unless
\* a session keeps it, its reservation.
Drop(c) ==
    /\ Go(c, "Ending")
    /\ lifecycle' = Without(lifecycle, c)
    /\ editor' = Without(editor, c)
    /\ IF c \in sessions' \/ ~Tables!Held(c)
       THEN UNCHANGED <<entries, granted>>
       ELSE Tables!Release(c)

Others == UNCHANGED <<admissionVars, kind, table, token, stages, saver, discard,
                      host, closing>>

Refuse(c) == UNCHANGED <<project, sessions>> /\ Drop(c)

\* run_operation and initialize: line up for the lifecycle lock.
Line(c) ==
    /\ pc[c] = "Admitted"
    /\ kind[c] \in RunKinds \cup {"Initialize", "Annotate"}
    /\ Go(c, "WantLife")
    /\ lifecycle' = Append(lifecycle, c)
    /\ UNCHANGED <<project, editor, protectionVars>>
    /\ Others

\* with_editor: a place in the editor's line before the work is detached.
with_editor(c) ==
    /\ pc[c] = "Admitted"
    /\ kind[c] \in EditorKinds
    /\ Go(c, "WantEditor")
    /\ editor' = Append(editor, c)
    /\ UNCHANGED <<project, lifecycle, protectionVars>>
    /\ Others

\* begin_editor: the table is reserved first, then a place in the line.
begin_editor(c) ==
    /\ pc[c] = "Admitted"
    /\ kind[c] = "BeginEdit"
    /\ \/ /\ Tables!Reserve(c, "Manual", {table[c]})
          /\ Go(c, "WantEditor")
          /\ editor' = Append(editor, c)
          /\ UNCHANGED <<project, lifecycle, sessions>>
       \/ ~Tables!Unprotected({table[c]}) /\ Refuse(c)
    /\ Others

\* snapshot: the editor's lock without waiting, then the lifecycle line.
snapshot(c) ==
    /\ pc[c] = "Admitted"
    /\ kind[c] = "Snapshot"
    /\ \/ /\ ~is_editing
          /\ Go(c, "WantLife")
          /\ editor' = <<c>>
          /\ lifecycle' = Append(lifecycle, c)
          /\ UNCHANGED <<project, protectionVars>>
       \/ is_editing /\ Refuse(c)
    /\ Others

GetEditor(c) ==
    /\ pc[c] = "WantEditor"
    /\ HoldsEditor(c)
    /\ Go(c, "WantLife")
    /\ lifecycle' = Append(lifecycle, c)
    /\ UNCHANGED <<project, editor, protectionVars>>
    /\ Others

\* select! with the token, in run_operation and in an Annotation run.
Abandon(c) ==
    /\ pc[c] = "WantLife"
    /\ kind[c] \in RunKinds \cup {"Annotate"}
    /\ token[c]
    /\ Refuse(c)
    /\ Others

\* What run_operation asks protection.mutation for.
scope(c) ==
    CASE kind[c] = "Write" -> {}
      [] kind[c] = "Targets" -> {table[c]}
      [] OTHER -> Arbitrary

\* The lifecycle lock is held: run_operation and Annotation reserve now.
GetLife(c) ==
    /\ pc[c] = "WantLife"
    /\ HoldsLifecycle(c)
    /\ \/ /\ kind[c] \in {"Write", "Targets", "Sql", "Execute"}
          /\ Tables!Reserve(c, "Mutation", scope(c))
          /\ Go(c, "Blocking")
       \/ /\ \/ kind[c] \in EditorKinds \cup {"Read", "Snapshot", "Initialize"}
             \/ kind[c] = "Execute" /\ ~Tables!Unprotected(Arbitrary)
          /\ Go(c, "Blocking")
          /\ UNCHANGED <<entries, granted>>
       \/ /\ kind[c] = "Annotate"
          /\ Tables!Reserve(c, "Analysis", {table[c]})
          /\ Go(c, "Waiting")
       \/ kind[c] = "BeginEdit" /\ Go(c, "Waiting") /\ UNCHANGED <<entries, granted>>
    /\ UNCHANGED <<project, lockVars, sessions>>
    /\ Others

\* The table is protected by somebody else's edit or Annotation run.
Protection_refuses(c) ==
    /\ pc[c] = "WantLife"
    /\ HoldsLifecycle(c)
    /\ \/ kind[c] \in {"Write", "Targets", "Sql"} /\ ~Tables!Unprotected(scope(c))
       \/ kind[c] = "Annotate" /\ ~Tables!Unprotected({table[c]})
    /\ Refuse(c)
    /\ Others

\* As if the reservation alone protected the table.
Bug_ready_at_once(c) ==
    /\ pc[c] = "Waiting"
    /\ Go(c, "Blocking")
    /\ granted' = granted \cup {c}
    /\ UNCHANGED <<project, lockVars, sessions, entries>>
    /\ Others

\* Lease::ready
ready(c) ==
    /\ pc[c] = "Waiting"
    /\ \/ /\ Tables!Grant(c)
          /\ Go(c, "Blocking")
          /\ UNCHANGED <<project, lockVars, sessions>>
       \/ token[c] /\ Refuse(c)
    /\ Others

\* Inside spawn_blocking: the checks that come before the work itself.
Proceeds(c) ==
    /\ kind[c] \in RunKinds \cup {"BeginEdit"} => ~token[c]
    /\ kind[c] \in EditorKinds => c \in sessions
    /\ (project = "None") = (kind[c] = "Initialize")

Enter(c) ==
    /\ pc[c] = "Blocking"
    /\ \/ /\ Proceeds(c)
          /\ Go(c, "Using")
          /\ UNCHANGED <<project, lockVars, protectionVars>>
       \/ ~Proceeds(c) /\ Refuse(c)
    /\ Others

\* initialize publishes the project unless it was cancelled or fails.
Published(c) ==
    IF kind[c] = "Initialize" /\ ~token[c] THEN {"None", "Untitled", "Saved"} ELSE {project}

\* A begin may fail and leave no session; a failed Save keeps its session.
Edited(c) ==
    CASE kind[c] = "BeginEdit" -> {sessions, sessions \cup {c}}
      [] kind[c] = "SaveEdit" -> {sessions, sessions \ {c}}
      [] kind[c] = "CancelEdit" -> {sessions \ {c}}
      [] OTHER -> {sessions}

\* The work is done or has failed, and its guards are dropped.
Leave(c) ==
    /\ pc[c] = "Using"
    /\ project' \in Published(c)
    /\ sessions' \in Edited(c)
    /\ Drop(c)
    /\ Others

\* own: the operation is dropped last, its token with it; a task's outer one stays.
End(c) ==
    /\ pc[c] = "Ending"
    /\ Go(c, IF IsTask(c) THEN "Task" ELSE "Idle")
    /\ token' = [token EXCEPT ![c] = @ /\ IsTask(c)]
    /\ kind' = [kind EXCEPT ![c] = "Read"]
    /\ UNCHANGED <<project, admissionVars, lockVars, protectionVars, table, stages,
                   saver, discard, host, closing>>

ClientStep(c) ==
    \/ EndTask(c) \/ Line(c) \/ with_editor(c) \/ begin_editor(c) \/ snapshot(c)
    \/ GetEditor(c) \/ Abandon(c) \/ GetLife(c) \/ Protection_refuses(c)
    \/ ready(c) \/ Enter(c) \/ Leave(c) \/ End(c)
-----------------------------------------------------------------------------
\* CloseAttempt: begin_close takes the admission token ...
begin_close(who) ==
    /\ check(FALSE)
    /\ attempt' = who
    /\ available' = FALSE
    /\ UNCHANGED <<closed, cut, tracker>>

\* As if the destructor did not look for a final close.
Bug_DropAttempt_always ==
    /\ attempt' = "None"
    /\ cut' = FALSE
    /\ available' = TRUE
    /\ tracker' = "Open"
    /\ UNCHANGED closed

\* ... and dropping it gives the token back, or a fresh one if it was cancelled,
\* unless the final close has begun.
DropAttempt ==
    /\ attempt' = "None"
    /\ cut' = FALSE
    /\ available' = ~closed
    /\ tracker' = IF closed THEN tracker ELSE "Open"
    /\ UNCHANGED closed

CancelAll == token' = [c \in Client |-> token[c] \/ Tracked(c)]
-----------------------------------------------------------------------------
\* As if the editor's lock alone showed that nobody edits.
Bug_save_project_unchecked(k) ==
    /\ IF editor # <<>>
       THEN saver' = [saver EXCEPT ![k] = "Failed"] /\ UNCHANGED lockVars
       ELSE /\ saver' = [saver EXCEPT ![k] = "Wait"]
            /\ editor' = <<k>>
            /\ lifecycle' = Append(lifecycle, k)

\* save_project: the editor's lock without waiting, no edit, then the line.
save_project(k) ==
    /\ IF is_editing
       THEN saver' = [saver EXCEPT ![k] = "Failed"] /\ UNCHANGED lockVars
       ELSE /\ saver' = [saver EXCEPT ![k] = "Wait"]
            /\ editor' = <<k>>
            /\ lifecycle' = Append(lifecycle, k)

DropSave(k, result) ==
    /\ saver' = [saver EXCEPT ![k] = result]
    /\ editor' = Without(editor, k)
    /\ lifecycle' = Without(lifecycle, k)

SaveRest == UNCHANGED <<protectionVars, clientVars, discard, closing>>

\* Save and Save As from a menu or a request: admission is not asked.
UserSave ==
    /\ "User" \in Callers
    /\ saver["User"] = "Idle"
    /\ save_project("User")
    /\ UNCHANGED <<project, admissionVars, host>> /\ SaveRest

\* rename pauses admission ...
rename ==
    /\ "Rename" \in Callers
    /\ saver["Rename"] = "Idle"
    /\ begin_close("Rename")
    /\ saver' = [saver EXCEPT !["Rename"] = "Start"]
    /\ UNCHANGED <<project, lockVars, host>> /\ SaveRest

\* ... and goes on only when nothing is tracked.
RenameSave ==
    /\ saver["Rename"] = "Start"
    /\ \/ has_work /\ saver' = [saver EXCEPT !["Rename"] = "Failed"] /\ UNCHANGED lockVars
       \/ ~has_work /\ save_project("Rename")
    /\ UNCHANGED <<project, admissionVars, host>> /\ SaveRest

EnterSave(k) ==
    /\ saver[k] = "Wait"
    /\ HoldsLifecycle(k)
    /\ IF closed \/ project = "None"
       THEN DropSave(k, "Failed")
       ELSE saver' = [saver EXCEPT ![k] = "Saving"] /\ UNCHANGED lockVars
    /\ UNCHANGED <<project, admissionVars, host>> /\ SaveRest

\* CHECKPOINT, save_as or rename_to, or a failure that leaves the project as it was.
LeaveSave(k) ==
    /\ saver[k] = "Saving"
    /\ \/ project' = "Saved" /\ DropSave(k, "Done")
       \/ UNCHANGED project /\ DropSave(k, "Failed")
    /\ UNCHANGED <<admissionVars, host>> /\ SaveRest

EndSave(k) ==
    /\ k # "Host"
    /\ saver[k] \in {"Done", "Failed"}
    /\ saver' = [saver EXCEPT ![k] = "Idle"]
    /\ IF k = "Rename" THEN DropAttempt ELSE UNCHANGED admissionVars
    /\ UNCHANGED <<project, lockVars, host>> /\ SaveRest

SaveStep(k) == EnterSave(k) \/ LeaveSave(k) \/ EndSave(k)
-----------------------------------------------------------------------------
\* discard_cell_edit: in the editor's line, then as a lifecycle reader.
discard_cell_edit(d) ==
    /\ discard' = [discard EXCEPT ![d] = "WantEditor"]
    /\ editor' = Append(editor, d)

webview_unloaded ==
    /\ "Unload" \in Callers
    /\ discard["Unload"] = "Idle"
    /\ discard_cell_edit("Unload")
    /\ UNCHANGED <<project, admissionVars, lifecycle, protectionVars, clientVars,
                   saver, host, closing>>

\* As if the sessions were cleared without queueing for the editor.
Bug_DiscardLine_overtakes(d) ==
    /\ discard[d] = "WantEditor"
    /\ discard' = [discard EXCEPT ![d] = "WantLife"]
    /\ lifecycle' = Append(lifecycle, d)
    /\ UNCHANGED <<project, admissionVars, editor, protectionVars, clientVars,
                   saver, host, closing>>

DiscardLine(d) ==
    /\ discard[d] = "WantEditor"
    /\ HoldsEditor(d)
    /\ discard' = [discard EXCEPT ![d] = "WantLife"]
    /\ lifecycle' = Append(lifecycle, d)
    /\ UNCHANGED <<project, admissionVars, editor, protectionVars, clientVars,
                   saver, host, closing>>

Discard(d) ==
    /\ discard[d] = "WantLife"
    /\ HoldsLifecycle(d)
    /\ discard' = [discard EXCEPT ![d] = IF d = "Closer" THEN "Done" ELSE "Idle"]
    /\ sessions' = {}
    /\ entries' = [c \in Client |-> IF c \in sessions THEN Tables!NoEntry ELSE entries[c]]
    /\ granted' = granted \ sessions
    /\ lifecycle' = Without(lifecycle, d)
    /\ editor' = Without(editor, d)
    /\ UNCHANGED <<project, admissionVars, clientVars, saver, host, closing>>
-----------------------------------------------------------------------------
\* ProjectRuntime::close: retained once, whoever asks; the host after approval,
\* a stopping process at any time.
close ==
    /\ ~closed
    /\ closed' = TRUE
    /\ available' = FALSE
    /\ IF available THEN CancelAll ELSE UNCHANGED token
    /\ closing' = "Interrupt"
    /\ host' = IF host = "Approved" THEN "Stopping" ELSE host
    /\ UNCHANGED <<project, attempt, cut, tracker, lockVars, protectionVars, pc,
                   kind, table, stages, saver, discard>>

CloseRest == UNCHANGED <<available, closed, attempt, cut, pc, kind, table, stages,
                         saver, host>>

\* As if the tracker were waited for but not closed.
Bug_Interrupt_open_tracker ==
    /\ closing = "Interrupt"
    /\ CancelAll
    /\ closing' = "Wait"
    /\ UNCHANGED <<project, lockVars, protectionVars, discard, tracker>> /\ CloseRest

\* As if the project were dropped before the interrupted work has ended.
Bug_Interrupt_releases ==
    /\ closing = "Interrupt"
    /\ CancelAll
    /\ tracker' = "Closed"
    /\ project' = "None"
    /\ closing' = "Wait"
    /\ UNCHANGED <<lockVars, protectionVars, discard>> /\ CloseRest

\* interrupt_and_wait
Interrupt ==
    /\ closing = "Interrupt"
    /\ CancelAll
    /\ tracker' = "Closed"
    /\ closing' = "Wait"
    /\ UNCHANGED <<project, lockVars, protectionVars, discard>> /\ CloseRest

\* As if close did not wait for the tracker.
Bug_Drained_at_once ==
    /\ closing = "Wait"
    /\ closing' = "Discard"
    /\ discard_cell_edit("Closer")
    /\ UNCHANGED <<project, lifecycle, protectionVars, token, tracker>> /\ CloseRest

Drained ==
    /\ closing = "Wait"
    /\ tracker = "Closed" /\ ~has_work
    /\ closing' = "Discard"
    /\ discard_cell_edit("Closer")
    /\ UNCHANGED <<project, lifecycle, protectionVars, token, tracker>> /\ CloseRest

AwaitLast ==
    /\ closing = "Discard"
    /\ discard["Closer"] = "Done"
    /\ closing' = "Release"
    /\ lifecycle' = Append(lifecycle, "Closer")
    /\ UNCHANGED <<project, editor, protectionVars, token, tracker, discard>> /\ CloseRest

Release ==
    /\ closing = "Release"
    /\ HoldsLifecycle("Closer")
    /\ project' = "None"
    /\ closing' = "Closed"
    /\ lifecycle' = Without(lifecycle, "Closer")
    /\ UNCHANGED <<editor, protectionVars, token, tracker, discard>> /\ CloseRest

CloseStep == Interrupt \/ Drained \/ AwaitLast \/ Release
-----------------------------------------------------------------------------
\* settle_for_close and close_document
HostRest == UNCHANGED <<project, protectionVars, pc, kind, table, stages, discard, closing>>

HostBegin ==
    /\ "Host" \in Callers
    /\ host = "Idle"
    /\ begin_close("Host")
    /\ host' = "Paused"
    /\ UNCHANGED <<lockVars, token, saver>> /\ HostRest

HostCheck ==
    /\ host = "Paused"
    /\ \/ is_editing /\ host' = "Idle" /\ DropAttempt
       \/ ~is_editing /\ host' = "Unedited" /\ UNCHANGED admissionVars
    /\ UNCHANGED <<lockVars, token, saver>> /\ HostRest

HostWork ==
    /\ host = "Unedited"
    /\ host' = IF has_work THEN "Prompt" ELSE "Interrupting"
    /\ UNCHANGED <<admissionVars, lockVars, token, saver>> /\ HostRest

HostAnswer ==
    /\ host = "Prompt"
    /\ \/ host' = "Idle" /\ DropAttempt
       \/ host' = "Interrupting" /\ UNCHANGED admissionVars
    /\ UNCHANGED <<lockVars, token, saver>> /\ HostRest

\* CloseAttempt::interrupt_and_wait
HostInterrupt ==
    /\ host = "Interrupting"
    /\ host' = "Waiting"
    /\ cut' = TRUE
    /\ tracker' = "Closed"
    /\ CancelAll
    /\ UNCHANGED <<available, closed, attempt, lockVars, saver>> /\ HostRest

HostDrained ==
    /\ host = "Waiting"
    /\ tracker = "Closed" /\ ~has_work
    /\ host' = IF project = "Untitled" THEN "SavePrompt" ELSE "Approved"
    /\ UNCHANGED <<admissionVars, lockVars, token, saver>> /\ HostRest

\* Save, Don't Save or Cancel
HostSave ==
    /\ host = "SavePrompt"
    /\ \/ host' = "Saving" /\ save_project("Host") /\ UNCHANGED admissionVars
       \/ host' = "Approved" /\ UNCHANGED <<admissionVars, lockVars, saver>>
       \/ host' = "Idle" /\ DropAttempt /\ UNCHANGED <<lockVars, saver>>
    /\ UNCHANGED token /\ HostRest

HostSaved ==
    /\ host = "Saving"
    /\ saver["Host"] \in {"Done", "Failed"}
    /\ saver' = [saver EXCEPT !["Host"] = "Idle"]
    /\ IF saver["Host"] = "Done"
       THEN host' = "Approved" /\ UNCHANGED admissionVars
       ELSE host' = "Idle" /\ DropAttempt
    /\ UNCHANGED <<lockVars, token>> /\ HostRest

\* backend.stop has returned: the window is destroyed, the attempt dropped.
HostDone ==
    /\ host \in {"Approved", "Stopping"}
    /\ closing = "Closed"
    /\ host' = "Done"
    /\ DropAttempt
    /\ UNCHANGED <<lockVars, token, saver>> /\ HostRest

HostStep == HostCheck \/ HostWork \/ HostInterrupt \/ HostDrained \/ HostSaved \/ HostDone
-----------------------------------------------------------------------------
Next ==
    \/ \E c \in Client :
        \/ \E k \in Requests : operation(c, k)
        \/ \E k \in StageKinds : Stage(c, k)
        \/ Submit(c) \/ CancelTask(c)
        \/ ClientStep(c)
    \/ UserSave \/ rename \/ RenameSave
    \/ \E k \in Savers : SaveStep(k)
    \/ webview_unloaded
    \/ \E d \in Discarders : DiscardLine(d) \/ Discard(d)
    \/ close \/ CloseStep
    \/ HostBegin \/ HostAnswer \/ HostSave \/ HostStep

Spec == Init /\ [][Next]_vars

\* Tokio runs every ready task, work ends, and the locks are fair.  No request,
\* answer to a dialog, save or close is ever obliged to come.
FairSpec ==
    /\ Spec
    /\ \A c \in Client : WF_vars(ClientStep(c))
    /\ WF_vars(RenameSave)
    /\ \A k \in Savers : WF_vars(SaveStep(k))
    /\ \A d \in Discarders : WF_vars(DiscardLine(d) \/ Discard(d))
    /\ WF_vars(CloseStep)
    /\ WF_vars(HostStep)
-----------------------------------------------------------------------------
(* Without an attempt or a final close admission is open; with either it   *)
(* is not; a final close is never reopened by a late destructor.           *)
AdmissionRestored ==
    /\ available = (attempt = "None" /\ ~closed)
    /\ available => tracker = "Open"
    /\ closing \in {"Wait", "Discard", "Release", "Closed"} => tracker = "Closed"

(* Rename moves the file only when no accepted work remains.               *)
RenameWhenIdle == saver["Rename"] \in {"Wait", "Saving"} => ~has_work

\* The inductive invariant behind the theorems of RuntimeProofs: a pause has one
\* owner, who is at work, and the phases of the final close follow its flag.
AdmissionInv ==
    /\ {available, closed} \subseteq BOOLEAN
    /\ pc \in [Client -> Position]
    /\ DOMAIN saver = Savers
    /\ closing = "Open" <=> ~closed
    /\ attempt = "Rename" <=> saver["Rename"] # "Idle"
    /\ attempt = "Host" <=> host \notin {"Idle", "Done"}
    /\ attempt \in {"None", "Host", "Rename"}
    /\ AdmissionRestored
    /\ RenameWhenIdle

\* Who should be in each line, by position.
LifecycleUsers ==
    {c \in Client : pc[c] \in {"WantLife", "Waiting", "Blocking", "Using"}}
    \cup {k \in Savers : saver[k] \in {"Wait", "Saving"}}
    \cup {d \in Discarders : \/ discard[d] = "WantLife"
                             \/ d = "Closer" /\ closing = "Release"}

EditorUsers ==
    {c \in Client :
        \/ /\ kind[c] \in EditorKinds \cup {"BeginEdit", "Snapshot"}
           /\ pc[c] \in {"WantLife", "Waiting", "Blocking", "Using"}
        \/ pc[c] = "WantEditor"}
    \cup {k \in Savers : saver[k] \in {"Wait", "Saving"}}
    \cup {d \in Discarders : discard[d] \in {"WantEditor", "WantLife"}}

(* The project is there for as long as somebody uses it: release waits for *)
(* every reader, snapshot and save, tracked by the runtime or not.         *)
ProjectOutlivesUse ==
    (\E c \in Client : InUse(c)) \/ (\E k \in Savers : saver[k] = "Saving") =>
        project # "None"

\* An actor is in a line once, exactly while it waits for the lock or owns it.
LinesInv ==
    /\ IsInjective(lifecycle) /\ Range(lifecycle) = LifecycleUsers
    /\ IsInjective(editor) /\ Range(editor) = EditorUsers

\* Who goes on from a line had its turn, and keeps the lock to the end.
GuardsHeld ==
    /\ \A c \in Client :
        /\ pc[c] \in {"Waiting", "Blocking", "Using"} => HoldsLifecycle(c)
        /\ c \in EditorUsers /\ pc[c] # "WantEditor" => HoldsEditor(c)
    /\ \A k \in Savers :
        /\ saver[k] = "Saving" => HoldsLifecycle(k)
        /\ saver[k] \in {"Wait", "Saving"} => HoldsEditor(k)
    /\ \A d \in Discarders : discard[d] = "WantLife" => HoldsEditor(d)

\* What a client in each position can be at; the owner of a session does
\* nothing but save or cancel it.
KindsFit ==
    \A c \in Client :
        /\ ~Tracked(c) => ~token[c] /\ ~IsTask(c)
        /\ pc[c] \in {"Idle", "Task"} => kind[c] = "Read"
        /\ pc[c] = "WantEditor" => kind[c] \in EditorKinds \cup {"BeginEdit"}
        /\ IsTask(c) => kind[c] \in StageKinds \cup {"Read"}
        /\ c \in sessions => /\ ~IsTask(c)
                            /\ (pc[c] \in {"Idle", "Ending"} \/ kind[c] \in EditorKinds)

\* Accepted work between its first reservation and the drop of what it owns.
AtWork(c) == pc[c] \in {"WantEditor", "WantLife", "Waiting", "Blocking", "Using"}

\* Who is to copy the project found no session, and keeps the editor's lock.
CopiersFindRest ==
    /\ \A k \in Savers : saver[k] \in {"Wait", "Saving"} => sessions = {}
    /\ \A c \in Client : kind[c] = "Snapshot" /\ AtWork(c) => sessions = {}

\* What each phase of the final close, and of the host's save, has behind it.
CloseInv ==
    /\ host = "Saving" <=> saver["Host"] # "Idle"
    /\ closing \in {"Open", "Interrupt", "Wait"} <=> discard["Closer"] = "Idle"
    /\ closing \in {"Discard", "Release", "Closed"} => ~has_work
    /\ closing \in {"Release", "Closed"} => discard["Closer"] = "Done"
    /\ discard["Closer"] = "Done" => sessions = {}
    /\ closing = "Closed" => project = "None" /\ \A k \in Savers : saver[k] # "Saving"

\* A reservation is owned by work that will drop it, or by its session.
ReservationsOwned ==
    /\ \A c \in granted : Tables!IsExclusive(c)
    /\ \A c \in Client : Tables!Held(c) => AtWork(c) \/ c \in sessions
    /\ \A c \in Client : kind[c] = "BeginEdit" /\ AtWork(c) => entries[c].purpose = "Manual"
    /\ \A c \in sessions : entries[c].purpose = "Manual"

(* No lock is leaked, lost or taken twice, by whatever path its user goes: *)
(* an actor is in a line once, exactly while it waits for the lock or owns *)
(* it, and owns no token, task or reservation when it is idle.  This is    *)
(* also the inductive invariant behind the theorems of RuntimeProofs.      *)
RuntimeInv ==
    /\ TypeOK
    /\ AdmissionInv
    /\ LinesInv
    /\ GuardsHeld
    /\ KindsFit
    /\ CopiersFindRest
    /\ CloseInv
    /\ ReservationsOwned
    /\ Tables!ExclusiveUse
    /\ ProjectOutlivesUse

(* A save and a snapshot copy a project at rest: no session is open and no *)
(* other client or saver is using it.                                      *)
CopiesAtRest ==
    /\ \A k \in Savers : saver[k] = "Saving" =>
        /\ sessions = {}
        /\ \A c \in Client : pc[c] # "Using"
        /\ \A j \in Savers \ {k} : saver[j] # "Saving"
    /\ \A c \in Client : pc[c] = "Using" /\ kind[c] = "Snapshot" =>
        /\ sessions = {}
        /\ \A d \in Client \ {c} : pc[d] # "Using"

(* After the final close nothing is left: no project, no session, no       *)
(* reservation, no accepted work, and none comes back.                     *)
ClosedForGood ==
    closing = "Closed" =>
        /\ project = "None"
        /\ sessions = {}
        /\ \A c \in Client : ~Tracked(c) /\ ~Tables!Held(c)

(* Nothing takes a session away from an accepted Save or Cancel that has   *)
(* its place in the line: cleanup of a closed window, or of the project,   *)
(* waits for it unless it was ahead.                                       *)
Owed(c) ==
    /\ c \in sessions
    /\ kind[c] \in EditorKinds
    /\ pc[c] \in {"WantEditor", "WantLife", "Blocking", "Using"}
    /\ Ahead(editor, c) \cap Discarders = {}

AcceptedSaveOwned ==
    [][\A c \in Client : Owed(c) /\ c \notin sessions' => pc'[c] = "Ending"]_vars

(* A manual edit or an Annotation run shares its table with no mutation,   *)
(* and every reservation belongs to accepted work or to a session.         *)
TablesExclusive ==
    /\ Tables!ExclusiveUse
    /\ \A c \in Client : Tables!Held(c) => Tracked(c) \/ c \in sessions
    /\ \A c \in sessions : entries[c].purpose = "Manual"

(* Everything accepted ends, whatever it waits for and whoever closes.     *)
AcceptedWorkEnds ==
    /\ \A c \in Client : Tracked(c) ~> ~Tracked(c)
    /\ \A k \in {"User", "Rename"} : saver[k] # "Idle" ~> saver[k] = "Idle"

(* A final close completes.                                                *)
CloseCompletes == closed ~> closing = "Closed"

(* desktop.md: Close returns focus to an open editor; it is not approved   *)
(* over one.                                                               *)
CloseReturnsToEditor == host = "Approved" /\ ~closed => sessions = {}
=============================================================================
