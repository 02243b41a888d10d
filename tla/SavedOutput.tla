----------------------------- MODULE SavedOutput -----------------------------
(***************************************************************************)
(* The saved output of one analysis tab as a window shows it               *)
(* (savedAnalysis.ts) against the analyses of the project (analyses.rs,    *)
(* runtime.rs).  A Run replaces the tab's analysis, a publication fills    *)
(* exactly the analysis it was accepted for, Clear empties it and keeps    *)
(* its identity.  The window caches the tab list and, per analysis, the    *)
(* manifest of its output; the change observer (projectChanges.ts), the    *)
(* reads themselves and Clear all reconcile the two caches.                *)
(*                                                                         *)
(* An analysis is its number, in the order of the Runs; `name' stands for  *)
(* everything else the tab list shows.                                     *)
(***************************************************************************)
EXTENDS Naturals, Sequences, FiniteSets

CONSTANTS
  MaxRuns,     \* bound: analyses of the tab
  MaxClears,   \* bound: Clears of this window
  MaxElsewhere, \* bound: Clears and other changes of the list by other windows
  MaxActs      \* bound: all of these together, after the first analysis

BoundsAssumption ==
  MaxRuns \in Nat \ {0} /\ MaxClears \in Nat /\ MaxElsewhere \in Nat /\ MaxActs \in Nat

Ids == 1..MaxRuns
List == 0          \* the tab list, among the queries the observer awaits
Nil == 0          \* nothing collected, nothing running

VARIABLES
  tab,       \* the tab in the project: analysis, whether it has output, name
  running,   \* the analysis being computed, or Nil
  mine,      \* this window awaits the answer of its Run
  others,    \* Clears of other windows so far
  events,    \* change scopes on their way to the window: sets of analyses
  pending,   \* scope collected for the next refresh; <<>> when there is none
  stage,     \* of the observer: "idle", "tabs" or "manifest"
  scope,     \* analyses being refreshed
  prior,     \* the analysis listed when the refresh began
  waits,     \* queries whose reads the observer awaits
  list,      \* the cached tab list
  listFetch, \* its read: Idle, Sent or the answer on its way
  output,    \* output[i]: "unread", "shown" or "null"
  stale,     \* analyses whose manifest is marked invalid
  outFetch,  \* outFetch[i]: the read of i's manifest
  active,    \* the panel is displayed
  clear,     \* Clear of this window: its phase and analysis
  clears,
  absent     \* analyses this window has marked as having no output

project == <<tab, running, mine, others>>
observer == <<events, pending, stage, scope, prior, waits>>
tabs == <<list, listFetch>>
manifests == <<output, stale, outFetch>>
clearing == <<clear, clears>>
vars == <<project, observer, tabs, manifests, active, clearing, absent>>

Tab == [id : Ids, has : BOOLEAN, name : 0..MaxElsewhere]
Idle == <<>>
Sent == <<"sent">>
Answer(v) == <<"answer", v>>

(* ------------------------------ the project ------------------------------ *)

\* What users do is bounded, here and elsewhere, in all.
Allowed == (tab.id - 1) + clears + tab.name + others < MaxActs

Announce(ids) == events' = Append(events, ids)

\* begin_analysis_run: the request is saved under a new analysis, and the
\* previous one goes with its output.
begin_analysis_run(own) ==
  /\ Allowed
  /\ running = Nil /\ tab.id < MaxRuns
  /\ own => ~mine
  /\ tab' = [tab EXCEPT !.id = @ + 1, !.has = FALSE]
  /\ running' = tab.id + 1
  /\ mine' = (mine \/ own)
  /\ Announce({tab.id, tab.id + 1})
  /\ UNCHANGED <<others, pending, stage, scope, prior, waits, tabs, manifests, active, clearing, absent>>

\* publish_analysis_version fills only the accepted analysis, while it has no
\* output; a run that fails leaves it empty.
publish_analysis ==
  /\ running # Nil
  /\ running' = Nil
  /\ tab.id = running /\ ~tab.has
  /\ tab' = [tab EXCEPT !.has = TRUE]
  /\ Announce({running})
  /\ UNCHANGED <<mine, others, pending, stage, scope, prior, waits, tabs, manifests, active, clearing, absent>>
FailRun ==
  /\ running # Nil
  /\ running' = Nil
  /\ UNCHANGED <<tab, mine, others, observer, tabs, manifests, active, clearing, absent>>

\* Another window changes something else the list shows.
update_analysis_tab ==
  /\ Allowed
  /\ tab.name + others < MaxElsewhere
  /\ tab' = [tab EXCEPT !.name = @ + 1]
  /\ Announce({})
  /\ UNCHANGED <<running, mine, others, pending, stage, scope, prior, waits, tabs, manifests, active, clearing, absent>>

\* Another window clears the output.
ClearElsewhere ==
  /\ Allowed
  /\ tab.name + others < MaxElsewhere /\ running = Nil /\ tab.has
  /\ others' = others + 1
  /\ tab' = [tab EXCEPT !.has = FALSE]
  /\ Announce({tab.id})
  /\ UNCHANGED <<running, mine, pending, stage, scope, prior, waits, tabs, manifests, active, clearing, absent>>

(* ------------------------------ the caches ------------------------------- *)

ownsOutput(l, i) == l.id = i /\ l.has
\* What the panel's observer reads when it is enabled or its analysis changes.
Shows(l, on, out, st, f) ==
  IF on /\ l.has /\ f[l.id] = Idle /\ (out[l.id] = "unread" \/ l.id \in st)
  THEN [f EXCEPT ![l.id] = Sent] ELSE f

markOutputAbsent(l, i) == IF l.id = i THEN [l EXCEPT !.has = FALSE] ELSE l

\* A read of i begins anew, unless the first one is still under way.
Refetch(f, i) == IF f[i] # Idle /\ output[i] = "unread" THEN f[i] ELSE Sent

\* The panel is displayed or hidden.
Activate ==
  /\ active' = ~active
  /\ outFetch' = IF active THEN outFetch ELSE Shows(list, TRUE, output, stale, outFetch)
  /\ UNCHANGED <<project, observer, tabs, output, stale, clearing, absent>>

ReadList ==
  /\ listFetch = Sent
  /\ listFetch' = Answer(tab)
  /\ UNCHANGED <<project, observer, list, manifests, active, clearing, absent>>

DeliverList ==
  /\ listFetch \notin {Idle, Sent}
  /\ list' = listFetch[2]
  /\ listFetch' = Idle /\ waits' = waits \ {List}
  /\ outFetch' = IF <<list'.id, list'.has>> = <<list.id, list.has>> THEN outFetch
                 ELSE Shows(list', active, output, stale, outFetch)
  /\ UNCHANGED <<project, events, pending, stage, scope, prior, output, stale, active, clearing, absent>>

\* The manifest as the project has it; an analysis that was replaced is an error.
ReadOutput(i) ==
  /\ outFetch[i] = Sent
  /\ outFetch' = [outFetch EXCEPT ![i] = Answer(IF tab.id # i THEN "error" ELSE IF tab.has THEN "shown" ELSE "null")]
  /\ UNCHANGED <<project, observer, tabs, output, stale, active, clearing, absent>>

\* The query function goes on when the manifest arrives: ownership is checked
\* again, and a manifest without output is authoritative for the tab list,
\* whose reads under way are older.
Bug_AnswerOutput(i) ==
  /\ outFetch[i] \notin {Idle, Sent}
  /\ outFetch' = [outFetch EXCEPT ![i] = Idle]
  /\ LET r == outFetch[i][2] IN
     /\ output' = [output EXCEPT ![i] = IF ~ownsOutput(list, i) THEN "null" ELSE IF r = "error" THEN @ ELSE r]
     /\ stale' = IF ownsOutput(list, i) /\ r = "error" THEN stale \cup {i} ELSE stale \ {i}
     /\ IF ownsOutput(list, i) /\ r = "null"
        THEN /\ list' = markOutputAbsent(list, i) /\ absent' = absent \cup {i}
             /\ waits' = waits \ {i} /\ UNCHANGED listFetch
        ELSE waits' = waits \ {i} /\ UNCHANGED <<tabs, absent>>
  /\ UNCHANGED <<project, events, pending, stage, scope, prior, active, clearing>>
AnswerOutput(i) ==
  /\ outFetch[i] \notin {Idle, Sent}
  /\ outFetch' = [outFetch EXCEPT ![i] = Idle]
  /\ LET r == outFetch[i][2] IN
     /\ output' = [output EXCEPT ![i] = IF ~ownsOutput(list, i) THEN "null" ELSE IF r = "error" THEN @ ELSE r]
     /\ stale' = IF ownsOutput(list, i) /\ r = "error" THEN stale \cup {i} ELSE stale \ {i}
     /\ IF ownsOutput(list, i) /\ r = "null"
        THEN /\ list' = markOutputAbsent(list, i) /\ absent' = absent \cup {i}
             /\ listFetch' = Idle /\ waits' = waits \ {List, i}
        ELSE waits' = waits \ {i} /\ UNCHANGED <<tabs, absent>>
  /\ UNCHANGED <<project, events, pending, stage, scope, prior, active, clearing>>

\* The window's Run is answered: onSettled reads the tab list again; whoever
\* awaits the read this replaces awaits the new one.
RunSettled ==
  /\ mine /\ running = Nil
  /\ mine' = FALSE
  /\ listFetch' = Sent
  /\ UNCHANGED <<tab, running, others, observer, list, manifests, active, clearing, absent>>

(* ---------------------------- the observer ------------------------------ *)

Collect ==
  /\ events # <<>>
  /\ events' = Tail(events)
  /\ pending' = IF pending = <<>> THEN <<Head(events)>> ELSE <<pending[1] \cup Head(events)>>
  /\ UNCHANGED <<project, stage, scope, prior, waits, tabs, manifests, active, clearing, absent>>

\* refreshProjectQueries: older reads are cancelled, then the list is read.
RefreshTabs ==
  /\ stage = "idle" /\ pending # <<>>
  /\ scope' = pending[1] /\ pending' = <<>> /\ prior' = list.id
  /\ stage' = "tabs" /\ waits' = {List}
  /\ listFetch' = Sent
  /\ outFetch' = [i \in Ids |-> IF i \in pending[1] THEN Idle ELSE outFetch[i]]
  /\ UNCHANGED <<project, events, list, output, stale, active, clearing, absent>>

\* Output the list no longer has leaves the cache; then the manifests of the
\* scope are read again where a view shows them.
RefreshManifests ==
  /\ stage = "tabs" /\ waits = {}
  /\ LET gone == {i \in Ids : (i = list.id /\ ~list.has) \/ (i = prior /\ i # list.id)}
         again == {i \in scope \ gone : active /\ ownsOutput(list, i)}
     IN  /\ output' = [i \in Ids |-> IF i \in gone THEN "unread" ELSE output[i]]
         /\ stale' = {i \in (stale \cup scope) \ gone : output[i] # "unread"}
         /\ outFetch' = [i \in Ids |-> IF i \in again THEN Refetch(outFetch, i) ELSE IF i \in gone THEN Idle ELSE outFetch[i]]
         /\ waits' = again
  /\ stage' = "manifest"
  /\ UNCHANGED <<project, events, pending, scope, prior, tabs, active, clearing, absent>>

EndRefresh ==
  /\ stage = "manifest" /\ waits = {}
  /\ stage' = "idle"
  /\ UNCHANGED <<project, events, pending, scope, prior, waits, tabs, manifests, active, clearing, absent>>

(* -------------------------------- Clear --------------------------------- *)

\* clearSavedAnalysis: reads of the output are cancelled, then the request goes.
clearSavedAnalysis ==
  /\ Allowed
  /\ clear = <<"none">> /\ clears < MaxClears /\ list.has
  /\ clears' = clears + 1
  /\ clear' = <<"sent", list.id>>
  /\ outFetch' = [outFetch EXCEPT ![list.id] = Idle]
  /\ waits' = waits \ {list.id}
  /\ UNCHANGED <<project, events, pending, stage, scope, prior, tabs, output, stale, active, absent>>

\* clear_analysis_tab looks for active work before it is admitted ...
AdmitClear ==
  /\ clear[1] = "sent"
  /\ clear' = <<IF running = Nil THEN "admitted" ELSE "failed", clear[2]>>
  /\ UNCHANGED <<project, observer, tabs, manifests, active, clears, absent>>
\* ... and clears whatever the tab holds when its turn comes.
clear_analysis_tab ==
  /\ clear[1] = "admitted"
  /\ tab' = [tab EXCEPT !.has = FALSE]
  /\ clear' = <<"done", clear[2]>>
  /\ Announce({tab.id})
  /\ UNCHANGED <<running, mine, others, pending, stage, scope, prior, waits, tabs, manifests, active, clears, absent>>
\* The request or its answer is lost.
LoseClear ==
  /\ clear[1] \in {"sent", "done"}
  /\ clear' = <<"failed", clear[2]>>
  /\ UNCHANGED <<project, observer, tabs, manifests, active, clears, absent>>

\* A failed Clear resumes the reads it interrupted.
ClearFailed ==
  /\ clear[1] = "failed"
  /\ LET i == clear[2] IN
     /\ stale' = IF output[i] = "unread" THEN stale ELSE stale \cup {i}
     /\ outFetch' = IF active /\ ownsOutput(list, i) THEN [outFetch EXCEPT ![i] = Refetch(outFetch, i)] ELSE outFetch
  /\ clear' = <<"none">>
  /\ UNCHANGED <<project, observer, tabs, output, active, clears, absent>>

\* A successful one takes over the caches and reads the list again.
ClearDone ==
  /\ clear[1] = "done"
  /\ LET i == clear[2] IN
     /\ list' = markOutputAbsent(list, i) /\ absent' = absent \cup {i}
     /\ output' = [output EXCEPT ![i] = "unread"] /\ stale' = stale \ {i}
     /\ outFetch' = [outFetch EXCEPT ![i] = Idle]
     /\ waits' = waits \ {List, i}
  /\ listFetch' = Sent
  /\ clear' = <<"none">>
  /\ UNCHANGED <<project, events, pending, stage, scope, prior, active, clears>>

Init ==
  /\ tab = [id |-> 1, has |-> TRUE, name |-> 0] /\ running = Nil /\ mine = FALSE /\ others = 0
  /\ events = <<>> /\ pending = <<>> /\ stage = "idle" /\ scope = {} /\ prior = 1 /\ waits = {}
  /\ list = tab /\ listFetch = Idle
  /\ output = [i \in Ids |-> "unread"] /\ stale = {} /\ outFetch = [i \in Ids |-> Idle]
  /\ active = FALSE /\ clear = <<"none">> /\ clears = 0 /\ absent = {}

Next ==
  \/ \E own \in BOOLEAN : begin_analysis_run(own)
  \/ publish_analysis \/ FailRun \/ update_analysis_tab \/ ClearElsewhere
  \/ Activate \/ ReadList \/ DeliverList \/ RunSettled
  \/ \E i \in Ids : ReadOutput(i) \/ AnswerOutput(i)
  \/ Collect \/ RefreshTabs \/ RefreshManifests \/ EndRefresh
  \/ clearSavedAnalysis \/ AdmitClear \/ clear_analysis_tab \/ LoseClear \/ ClearFailed \/ ClearDone

Spec == Init /\ [][Next]_vars

(* ------------------------------ properties ------------------------------ *)

TypeOK ==
  /\ tab \in Tab /\ running \in Ids \cup {Nil} /\ mine \in BOOLEAN /\ others \in 0..MaxElsewhere
  /\ events \in Seq(SUBSET Ids) /\ pending \in {<<>>} \cup {<<ids>> : ids \in SUBSET Ids}
  /\ stage \in {"idle", "tabs", "manifest"} /\ scope \subseteq Ids /\ prior \in Ids
  /\ waits \subseteq Ids \cup {List} /\ (stage = "idle" => waits = {})
  /\ list \in Tab /\ listFetch \in {Idle, Sent} \cup {Answer(t) : t \in Tab}
  /\ output \in [Ids -> {"unread", "shown", "null"}] /\ stale \subseteq Ids
  /\ outFetch \in [Ids -> {Idle, Sent} \cup {Answer(r) : r \in {"shown", "null", "error"}}]
  /\ active \in BOOLEAN /\ clears \in 0..MaxClears /\ absent \subseteq Ids
  /\ clear = <<"none">> \/ clear \in {"sent", "admitted", "done", "failed"} \X Ids

\* Once the window has learnt that an analysis has no output, by its own
\* Clear or from a manifest, no read of the tab list that began earlier brings
\* its output back.
AbsentStays == list.id \in absent => ~list.has

\* Nothing is under way that would still change what the window shows.
Quiet ==
  /\ events = <<>> /\ pending = <<>> /\ stage = "idle" /\ listFetch = Idle
  /\ running = Nil /\ ~mine /\ clear = <<"none">>
  /\ \A i \in Ids : outFetch[i] = Idle

\* When all is quiet a displayed panel whose tab has output shows it: no read
\* cancelled for a refresh or for a Clear that failed is left behind.
OutputReturns == Quiet /\ active /\ list.has => output[list.id] = "shown"

\* When all is quiet, the list shows the presence of output as the project
\* has it, and output cached under an identity that Clear retained is neither
\* displayed nor used without being read again.
NoGhost ==
  Quiet => /\ list.id = tab.id => list.has = tab.has
           /\ output[tab.id] = "shown" /\ ~tab.has => ~list.has /\ tab.id \in stale

\* What the three rest on.  An analysis whose run is over is filled or empty for
\* good; Told: a refresh of it is on its way.
Past(i) == i <= tab.id /\ running # i
Empty(i) == Past(i) /\ ~ownsOutput(tab, i)
Told(i) == (\E k \in 1..Len(events) : i \in events[k]) \/ (pending # <<>> /\ i \in pending[1])
Refreshing(i) == Told(i) \/ (stage = "tabs" /\ i \in scope)
Delivered == listFetch \notin {Idle, Sent}

\* No list under way will show output of i, or none of a later analysis.
Gone(i) == Empty(i) /\ ~ownsOutput(list, i) /\ (Delivered => ~ownsOutput(listFetch[2], i))
Over(i) == list.id > i \/ Gone(i)

\* Lists are of analyses that were run, and each is read after the one cached.
ListsInOrder ==
  /\ running # Nil => running = tab.id /\ ~tab.has
  /\ list.id <= tab.id /\ (list.has => Past(list.id))
  /\ Delivered => LET t == listFetch[2] IN
       /\ t.id \in list.id..tab.id /\ (t.has => Past(t.id))
       /\ list.has /\ list.id = t.id /\ ~t.has => Empty(t.id)
AbsentGone ==
  /\ \A i \in absent : Gone(i)
  /\ clear # <<"none">> => Past(clear[2]) /\ (clear[1] = "done" => Empty(clear[2]))

\* A manifest is read for a list that has the output; what it says of an
\* analysis stays true, or the window is told.
ReadsInOrder ==
  \A i \in Ids :
    /\ outFetch[i] # Idle => Past(i) /\ (ownsOutput(list, i) \/ Over(i))
    /\ outFetch[i] = Answer("null") => Empty(i)
    /\ outFetch[i] = Answer("error") => i < tab.id
    /\ outFetch[i] = Answer("shown") /\ i = tab.id /\ ~tab.has => Told(i)
    /\ output[i] # "unread" => Past(i)
    /\ output[i] = "null" => Over(i)

\* A list that is behind will be read again; the output of the analysis it
\* shows is there or on its way, and cached output that was cleared is marked.
ListTold ==
  /\ ~(list.has <=> ownsOutput(tab, list.id)) => Told(list.id) \/ listFetch # Idle
  /\ Delivered /\ ~(listFetch[2].has <=> ownsOutput(tab, listFetch[2].id)) => Told(listFetch[2].id)
OutputComing ==
  active /\ list.has =>
    \/ output[list.id] = "shown" \/ outFetch[list.id] # Idle \/ Refreshing(list.id)
    \/ clear # <<"none">> /\ clear[2] = list.id
    \/ list.id < tab.id
GhostMarked ==
  output[tab.id] = "shown" /\ ~tab.has => tab.id \in stale \/ Refreshing(tab.id)

\* Inductive.
SavedOutputInv ==
  /\ TypeOK /\ ListsInOrder /\ AbsentGone /\ ReadsInOrder /\ ListTold /\ OutputComing /\ GhostMarked
  /\ AbsentStays /\ OutputReturns /\ NoGhost

\* projectChanges.ts: "One observer owns refresh": when all is quiet the tab
\* list is the project's.
\* Not kept in every order of events: see the README, section 5.
ListCurrent == Quiet => list = tab

\* native-project-api.md: "Clear returns `analysis_busy` during active work":
\* no Clear is carried out while a run is active.
\* Not kept in every order of events: see the README, section 5.
BusyRefused == [][clear[1] = "admitted" /\ clear'[1] = "done" => running = Nil]_vars
=============================================================================
