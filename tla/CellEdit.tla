------------------------------ MODULE CellEdit ------------------------------
(***************************************************************************)
(* Table editing end to end: the editors of the frontend (useTableEditing, *)
(* EditTableDialog, EditingLeaveDialog, EditingNavigation) and the editor  *)
(* collection of the backend (cell_edit.rs), joined by HTTP requests that  *)
(* may fail on either side of the server's work and be repeated by the     *)
(* user.                                                                   *)
(*                                                                         *)
(* An edit is an element of Edits; a draft is the set of edits not yet     *)
(* saved (EditDraft.tla models what a draft is made of).  A session whose  *)
(* id is in Dialogs is edited in the modal table dialog of ProjectView; the *)
(* others are panels (annotation editors) behind the navigation guard.     *)
(***************************************************************************)
EXTENDS Naturals, Sequences, FiniteSets

CONSTANTS
  Sessions,   \* editing sessions that may be started
  Dialogs,    \* those edited in the table dialog
  Tables,     \* tables
  TableOf,    \* the table each session edits
  Edits,      \* edits a draft may hold
  Invalid,    \* those the database refuses
  Kept,       \* completions remembered (100 in the code)
  MaxCalls,   \* bound: requests one editor sends
  NoCall      \* no request is pending

Request == [id : Sessions, n : 1..MaxCalls, op : {"begin", "save", "cancel"}, body : SUBSET Edits]

SessionsAssumption ==
  /\ IsFiniteSet(Sessions)
  /\ Dialogs \subseteq Sessions /\ Invalid \subseteq Edits
  /\ TableOf \in [Sessions -> Tables]
KeptAssumption == Kept \in Nat \ {0} /\ MaxCalls \in Nat /\ NoCall \notin Request

VARIABLES
  view,       \* view[s]: the editor as the window shows it
  draft,      \* draft[s]: edits on the screen
  call,       \* call[s]: the request whose answer the editor waits for
  sent,       \* sent[s]: requests sent so far
  finished,   \* finished[s]: what the editor was told it ended with
  asking,     \* asking[s]: the discard or leave question is on the screen
  navigating, \* a navigation waits for the panel's guard (pending.current)
  inbox,      \* requests on their way to the server
  replies,    \* answers on their way back
  sessions,   \* sessions the backend holds, each with its table's lease
  completed,  \* the backend's recent completions, oldest first
  applied     \* applied[s]: bodies committed for s, in order

editor == <<view, draft, call, sent, finished, asking, navigating>>
net == <<inbox, replies>>
server == <<sessions, completed, applied>>
vars == <<editor, net, server>>

Reply == [id : Sessions, n : 1..MaxCalls, ok : BOOLEAN]
Completion == [id : Sessions, saved : BOOLEAN]

\* An editor is "dropped" when its window never learns the session's id.
TypeOK ==
  /\ view \in [Sessions -> {"none", "starting", "open", "gone", "dropped"}]
  /\ draft \in [Sessions -> SUBSET Edits]
  /\ call \in [Sessions -> Request \cup {NoCall}]
  /\ sent \in [Sessions -> 0..MaxCalls]
  /\ finished \in [Sessions -> {"no", "saved", "discarded"}]
  /\ asking \in [Sessions -> BOOLEAN]
  /\ navigating \in BOOLEAN
  /\ inbox \subseteq Request /\ replies \subseteq Reply
  /\ sessions \subseteq Sessions
  /\ completed \in Seq(Completion) /\ Len(completed) <= Kept
  /\ applied \in [Sessions -> Seq(SUBSET Edits)]

Init ==
  /\ view = [s \in Sessions |-> "none"]
  /\ draft = [s \in Sessions |-> {}]
  /\ call = [s \in Sessions |-> NoCall]
  /\ sent = [s \in Sessions |-> 0]
  /\ finished = [s \in Sessions |-> "no"]
  /\ asking = [s \in Sessions |-> FALSE]
  /\ navigating = FALSE
  /\ inbox = {} /\ replies = {}
  /\ sessions = {} /\ completed = <<>>
  /\ applied = [s \in Sessions |-> <<>>]

(* ------------------------------ the window ------------------------------ *)

Mounted(s) == view[s] = "open"
\* Begin, Save or Cancel is pending: every control of the editor is disabled.
busy(s) == call[s] # NoCall
modified(s) == draft[s] # {}
\* The table dialog and the questions are modal.
Covered(s) == \E o \in Sessions \ {s} : Mounted(o) /\ (o \in Dialogs \/ asking[o])
\* One table dialog per window and one editor per panel (the panel's setup is
\* disabled while it is starting or open).
Peers(s) == IF s \in Dialogs THEN Dialogs ELSE Sessions \ Dialogs

\* Send a request and wait for its answer.
Send(s, op, body) ==
  LET request == [id |-> s, n |-> sent[s] + 1, op |-> op, body |-> body]
  IN  /\ sent[s] < MaxCalls
      /\ sent' = [sent EXCEPT ![s] = @ + 1]
      /\ inbox' = inbox \cup {request}
      /\ call' = [call EXCEPT ![s] = request]

\* ProjectView.editTable and the Start button of the annotation panel.
editTable(s) ==
  /\ view[s] = "none" /\ ~Covered(s)
  /\ \A o \in Peers(s) : view[o] \notin {"starting", "open"}
  /\ view' = [view EXCEPT ![s] = "starting"]
  /\ Send(s, "begin", {})
  /\ UNCHANGED <<draft, finished, asking, navigating, replies, server>>

\* A cell, row or label of the editor is changed, or changed back.
Edit(s, e) ==
  /\ Mounted(s) /\ ~busy(s) /\ ~asking[s] /\ ~Covered(s)
  /\ draft' = [draft EXCEPT ![s] = IF e \in @ THEN @ \ {e} ELSE @ \cup {e}]
  /\ UNCHANGED <<view, call, sent, finished, asking, navigating, net, server>>

\* Save, from the editor or from the panel's leave question.
Save(s) ==
  /\ Mounted(s) /\ ~busy(s) /\ ~Covered(s)
  /\ asking[s] => s \notin Dialogs
  /\ Send(s, "save", draft[s])
  /\ UNCHANGED <<view, draft, finished, asking, navigating, replies, server>>

\* Cancel of an editor: the table dialog asks first when something would be
\* lost, the panel's own Cancel does not.
requestCancel(s) ==
  /\ Mounted(s) /\ ~busy(s) /\ ~asking[s] /\ ~Covered(s)
  /\ IF s \in Dialogs /\ modified(s)
       THEN asking' = [asking EXCEPT ![s] = TRUE] /\ UNCHANGED <<call, sent, inbox>>
       ELSE Send(s, "cancel", {}) /\ UNCHANGED asking
  /\ UNCHANGED <<view, draft, finished, navigating, replies, server>>

\* "Discard changes" of the dialog, whose question closes at once, and
\* "Discard" of the leave question, which closes when the request succeeds.
Discard(s) ==
  /\ Mounted(s) /\ ~busy(s) /\ asking[s]
  /\ asking' = [asking EXCEPT ![s] = s \notin Dialogs]
  /\ Send(s, "cancel", {})
  /\ UNCHANGED <<view, draft, finished, navigating, replies, server>>

\* "Keep editing" and "Stay", which gives the navigation up.
Stay(s) ==
  /\ Mounted(s) /\ ~busy(s) /\ asking[s]
  /\ asking' = [asking EXCEPT ![s] = FALSE]
  /\ navigating' = (navigating /\ s \in Dialogs)
  /\ UNCHANGED <<view, draft, call, sent, finished, net, server>>

\* Another tab or tool is chosen while the panel is open: navigate calls its
\* guard, which refuses while busy, cancels an unmodified editor and asks
\* about a modified one.
navigate(s) ==
  /\ Mounted(s) /\ s \notin Dialogs /\ ~navigating /\ ~Covered(s)
  /\ ~busy(s) /\ ~asking[s]
  /\ navigating' = TRUE
  /\ IF modified(s)
       THEN asking' = [asking EXCEPT ![s] = TRUE] /\ UNCHANGED <<call, sent, inbox>>
       ELSE Send(s, "cancel", {}) /\ UNCHANGED asking
  /\ UNCHANGED <<view, draft, finished, replies, server>>

\* The same while the panel is still starting: nothing is registered yet, so
\* the navigation happens and the session's answer will find no owner.
NavigateUnguarded(s) ==
  /\ view[s] = "starting" /\ s \notin Dialogs /\ ~navigating /\ ~Covered(s)
  /\ view' = [view EXCEPT ![s] = "dropped"]
  /\ UNCHANGED <<draft, call, sent, finished, asking, navigating, net, server>>

\* The window is closed or reloaded.  No guard is asked: every editor that
\* has not finished sends its release, and no later answer is seen.
Release(s) == [id |-> s, n |-> sent[s] + 1, op |-> "cancel", body |-> {}]
Bug_Unfinished == {s \in Sessions : Mounted(s) /\ finished[s] = "no" /\ ~busy(s)}
Unfinished == {s \in Sessions : Mounted(s) /\ finished[s] = "no"}
pagehide ==
  /\ \E s \in Sessions : view[s] \in {"starting", "open"}
  /\ \A s \in Unfinished : sent[s] < MaxCalls
  /\ view' = [s \in Sessions |-> IF view[s] \in {"open", "gone"} THEN "gone" ELSE "dropped"]
  /\ inbox' = inbox \cup {Release(s) : s \in Unfinished}
  /\ sent' = [s \in Sessions |-> IF s \in Unfinished THEN sent[s] + 1 ELSE sent[s]]
  /\ call' = [s \in Sessions |-> NoCall] /\ replies' = {}
  /\ asking' = [s \in Sessions |-> FALSE] /\ navigating' = FALSE
  /\ UNCHANGED <<draft, finished, server>>

\* A request the editor waited for failed: the editor and its draft stay as
\* they are, and so does the leave question; a guard that only cancelled
\* reports FALSE and the navigation is over.
Failed(s) ==
  /\ view' = [view EXCEPT ![s] = IF @ = "starting" THEN "dropped" ELSE @]
  /\ navigating' = (navigating /\ (asking[s] \/ s \in Dialogs))
  /\ UNCHANGED <<finished, asking>>

\* It succeeded: the editor opens, or ends and lets the navigation go on.
Succeeded(s) ==
  IF call[s].op = "begin"
  THEN /\ view' = [view EXCEPT ![s] = IF @ = "starting" THEN "open" ELSE @]
       /\ UNCHANGED <<finished, asking, navigating>>
  ELSE /\ view' = [view EXCEPT ![s] = "gone"]
       /\ finished' = [finished EXCEPT ![s] = IF call[s].op = "save" THEN "saved" ELSE "discarded"]
       /\ asking' = [asking EXCEPT ![s] = FALSE]
       /\ navigating' = (navigating /\ s \in Dialogs)

\* The answer to the pending request arrives.
Answer(s) ==
  /\ busy(s)
  /\ \E r \in replies :
       /\ r.id = s
       /\ IF r.ok THEN Succeeded(s) ELSE Failed(s)
       /\ replies' = replies \ {r}
  /\ call' = [call EXCEPT ![s] = NoCall]
  /\ UNCHANGED <<draft, sent, inbox, server>>

\* The connection fails instead: the request may be lost, still be on its
\* way, or have been carried out with its answer lost.
ConnectionLost(s) ==
  /\ busy(s)
  /\ inbox' \in {inbox, inbox \ {call[s]}}
  /\ replies' = {r \in replies : r.id # s}
  /\ call' = [call EXCEPT ![s] = NoCall]
  /\ Failed(s)
  /\ UNCHANGED <<draft, sent, server>>

(* ------------------------------ the backend ----------------------------- *)

\* Answer r, if somebody still waits for it.
Reply_(r, ok) ==
  /\ inbox' = inbox \ {r}
  /\ replies' = IF call[r.id] = r THEN replies \cup {[id |-> r.id, n |-> r.n, ok |-> ok]} ELSE replies

Recorded(s, saved) == \E i \in DOMAIN completed : completed[i] = [id |-> s, saved |-> saved]

\* Remember a completion, forgetting the oldest beyond the window.
complete(s, saved) ==
  LET all == Append(completed, [id |-> s, saved |-> saved])
  IN  completed' = IF Len(all) > Kept THEN Tail(all) ELSE all

begin_cell_edit(r) ==
  /\ r \in inbox /\ r.op = "begin"
  /\ IF \E o \in sessions : TableOf[o] = TableOf[r.id]
       THEN Reply_(r, FALSE) /\ UNCHANGED sessions
       ELSE Reply_(r, TRUE) /\ sessions' = sessions \cup {r.id}
  /\ UNCHANGED <<editor, completed, applied>>

\* A Save that was recorded is answered from the record; otherwise the body
\* is applied in one transaction, the session removed and the completion
\* recorded, or the transaction fails and the session stays.
save_cell_edit(r) ==
  /\ r \in inbox /\ r.op = "save"
  /\ IF Recorded(r.id, TRUE) THEN Reply_(r, TRUE) /\ UNCHANGED server
     ELSE IF r.id \notin sessions \/ r.body \cap Invalid # {}
     THEN Reply_(r, FALSE) /\ UNCHANGED server
     ELSE /\ Reply_(r, TRUE)
          /\ applied' = [applied EXCEPT ![r.id] = Append(@, r.body)]
          /\ sessions' = sessions \ {r.id}
          /\ complete(r.id, TRUE)
  /\ UNCHANGED editor

Bug_cancel_cell_edit(r) ==
  /\ r \in inbox /\ r.op = "cancel"
  /\ IF \E saved \in BOOLEAN : Recorded(r.id, saved) THEN Reply_(r, TRUE) /\ UNCHANGED server
     ELSE IF r.id \notin sessions THEN Reply_(r, FALSE) /\ UNCHANGED server
     ELSE /\ Reply_(r, TRUE)
          /\ sessions' = sessions \ {r.id}
          /\ complete(r.id, FALSE)
          /\ UNCHANGED applied
  /\ UNCHANGED editor
cancel_cell_edit(r) ==
  /\ r \in inbox /\ r.op = "cancel"
  /\ IF Recorded(r.id, FALSE) THEN Reply_(r, TRUE) /\ UNCHANGED server
     ELSE IF r.id \notin sessions THEN Reply_(r, FALSE) /\ UNCHANGED server
     ELSE /\ Reply_(r, TRUE)
          /\ sessions' = sessions \ {r.id}
          /\ complete(r.id, FALSE)
          /\ UNCHANGED applied
  /\ UNCHANGED editor

Handle == \E r \in inbox : begin_cell_edit(r) \/ save_cell_edit(r) \/ cancel_cell_edit(r)

Next ==
  \/ \E s \in Sessions :
       \/ editTable(s) \/ Save(s) \/ requestCancel(s) \/ Discard(s) \/ Stay(s)
       \/ navigate(s) \/ NavigateUnguarded(s) \/ Answer(s) \/ ConnectionLost(s)
       \/ \E e \in Edits : Edit(s, e)
  \/ pagehide
  \/ Handle

Spec == Init /\ [][Next]_vars

(* ------------------------------ properties ------------------------------ *)

\* However often a Save is lost, repeated or overtaken by a Cancel or by the
\* window's release, its session's edits reach the table at most once.
AppliedOnce == \A s \in Sessions : Len(applied[s]) <= 1

\* What an editor tells its user is what happened: "saved" only if a body was
\* committed, "discarded" only if none was or ever will be, even with an
\* earlier Save of the same session still on its way.
ToldTheTruth ==
  \A s \in Sessions :
    /\ finished[s] = "saved" => applied[s] # <<>>
    /\ finished[s] = "discarded" => applied[s] = <<>>

\* A session that has been saved or cancelled holds its table no longer, and
\* no two sessions hold one table: the next editor of the table works on rows
\* nobody else can change.
TableHeldByLiveSession ==
  /\ \A s \in sessions : applied[s] = <<>> /\ finished[s] = "no"
  /\ \A s, o \in sessions : TableOf[s] = TableOf[o] => s = o

\* What the three rest on.  A session begins once, before anything else is asked
\* of it; what is asked later comes from an editor that has been open.
RequestsFit ==
  \A r \in inbox :
    IF r.op = "begin"
    THEN /\ r.n = 1 /\ r.body = {} /\ view[r.id] \in {"starting", "dropped"}
         /\ r.id \notin sessions /\ applied[r.id] = <<>>
    ELSE view[r.id] \in {"open", "gone"}
CallsFit ==
  \A s \in Sessions :
    /\ view[s] = "none" => sent[s] = 0 /\ ~busy(s) /\ s \notin sessions /\ applied[s] = <<>>
    /\ view[s] = "starting" => busy(s)
    /\ view[s] = "gone" => ~busy(s)
    /\ busy(s) => call[s].id = s /\ (call[s].op = "begin" <=> view[s] # "open")
    /\ busy(s) /\ call[s].op = "begin" => call[s].n = 1 /\ call[s].body = {}
    /\ finished[s] # "no" => view[s] = "gone"

\* One answer at most comes back for a request that is waited for, which is
\* then no longer on its way; what it says stays true.
RepliesFit ==
  /\ \A r \in replies :
       /\ busy(r.id) /\ call[r.id] \notin inbox
       /\ r.ok /\ call[r.id].op = "save" => applied[r.id] # <<>>
       /\ r.ok /\ call[r.id].op = "cancel" => applied[r.id] = <<>> /\ r.id \notin sessions
  /\ \A r, o \in replies : r.id = o.id => r = o
CompletionsTrue ==
  \A i \in DOMAIN completed :
    /\ view[completed[i].id] \in {"open", "gone"} /\ completed[i].id \notin sessions
    /\ completed[i].saved <=> applied[completed[i].id] # <<>>
DiscardedIsOver == \A s \in Sessions : finished[s] = "discarded" => s \notin sessions

\* Inductive.
CellEditInv ==
  /\ TypeOK /\ RequestsFit /\ CallsFit /\ RepliesFit /\ CompletionsTrue /\ DiscardedIsOver
  /\ AppliedOnce /\ ToldTheTruth /\ TableHeldByLiveSession

\* An open editor disappears from the window only by its own outcome or with
\* the window itself: navigation never takes a draft with it.
NoSilentLoss ==
  [][\A s \in Sessions :
       view[s] = "open" /\ view'[s] # "open" /\ draft[s] # {}
         => finished'[s] # "no" \/ pagehide]_vars

\* An editor that has gone, by whatever road and with whatever request still
\* on its way, ends up holding no table.
Released == \A s \in Sessions : (view[s] = "gone") ~> (s \notin sessions)

\* A navigation that waits for a guard without a question on the screen comes
\* to an end, so that the window can navigate again.
NavigationSettles == (navigating /\ \A s \in Sessions : ~asking[s]) ~> ~navigating

\* "Save commits all changed cells, deletions and insertions atomically and
\* closes the editor": an editor closed by Save has its draft in the table.
\* Not kept in every order of events: see the README, section 5.
SaveCommitsDraft ==
  \A s \in Sessions : finished[s] = "saved" => applied[s] = <<draft[s]>>
=============================================================================
