----------------------------- MODULE MCSessions -----------------------------
(***************************************************************************)
(* The conversations a window holds with the server: the cell editor, the  *)
(* draft on its screen, the Topic Preview, an Annotation run, and the      *)
(* refresh of what it shows after changes.  They share no state, so a      *)
(* property of one holds whatever the others do: each behaviour here runs  *)
(* one of them, and the others stay in their initial state.                *)
(*                                                                         *)
(* A table dialog and an annotation panel on one table, with room for one  *)
(* completion; tables of up to three rows on pages of one or two, two      *)
(* added rows; two Previews, adjustments and one Run; the tab list and     *)
(* the output of one analysis over a channel of one scope that breaks once.*)
(* Five rows to annotate: two share a text of which one has a label, two   *)
(* have texts of their own, one has none; single texts, two at once, no    *)
(* retries, or batches of two, one by one, with one retry.                 *)
(***************************************************************************)
EXTENDS Naturals, Sequences, TLC

CONSTANTS Sessions, Dialogs, Tables, TableOf, Edits, Invalid, Kept, MaxCalls, NoCall,
          t1, Rows, Columns, PageSizes, MaxNew, NoRow,
          MaxPreviews, MaxAdjustments, MaxRuns,
          Queries, Kind, Objects, Names, Edges, Tabs, Analysis,
          Capacity, MaxCommits, MaxDrops, None,
          MaxDocuments, MaxAnnotations,
          Parts  \* the components that are checked

VARIABLES
  part, \* the component that runs
  view, draft, call, sent, finished, asking, navigating, inbox, replies,
  sessions, completed, applied,
  sorting, page, pageSize, patches, deletions, insertions, nextRow,
  request, registered, cancelled, work, model, update, first, revisions,
  admission, releasing, run, runs, current, aborted, cancelling, deletion,
  shown, active, adjust, expected, base, made, latest, owner, adjusting, replaced,
  version, analysis, commits, unpublished, channel, lagged, stream, drops,
  events, pending, stage, scope, prior, displayed, cache, invalid, fetch,
  tab, report, label, task, annotations

cell == <<view, draft, call, sent, finished, asking, navigating, inbox, replies,
          sessions, completed, applied>>
rows == <<sorting, page, pageSize, patches, deletions, insertions, nextRow>>
topic == <<request, registered, cancelled, work, model, update, first, revisions,
           admission, releasing, run, runs, current, aborted, cancelling, deletion,
           shown, active, adjust, expected, base, made, latest, owner, adjusting, replaced>>
changes == <<version, analysis, commits, unpublished, channel, lagged, stream, drops,
             events, pending, stage, scope, prior, displayed, cache, invalid, fetch>>
labels == <<tab, report, label, task, annotations>>
vars == <<part, cell, rows, topic, changes, labels>>

MCTableOf == [s \in Sessions |-> t1]
Cell == INSTANCE CellEdit
Draft == INSTANCE EditDraft
Topic == INSTANCE TopicPreview
Changes == INSTANCE ProjectEvents WITH active <- displayed
MCKind == "tabs" :> "tabs" @@ "output" :> "output"
MCNames == "tabs" :> {"tabs"} @@ "output" :> {"a"}
Annotating(processing, size, concurrency, retries) ==
  [processing |-> processing, batch_size |-> size, concurrency |-> concurrency, retries |-> retries]
Labels == INSTANCE Annotate WITH
  Rows <- 1..MaxDocuments, Texts <- {"s", "t", "u"}, Blank <- "blank",
  Text <- SubSeq(<<"s", "s", "t", "u", "blank">>, 1, MaxDocuments),
  Unlabelled <- {1, 3, 4} \cap 1..MaxDocuments, Codes <- {"a"},
  Null <- "null", Manual <- "manual", Unknown <- None,
  Requests <- {Annotating("All", 1, 2, 0), Annotating("Missing", 2, 1, 1)},
  MaxRuns <- MaxAnnotations, analysis <- report, run <- task, runs <- annotations

ASSUME SessionsAssumption ==
  /\ Cell!SessionsAssumption /\ Cell!KeptAssumption
  /\ Draft!DraftAssumption /\ Topic!BoundsAssumption
  /\ Changes!QueriesAssumption /\ Changes!BoundsAssumption /\ Labels!AnnotateAssumption

Init ==
  /\ part \in Parts
  /\ Cell!Init /\ Draft!Init /\ Topic!Init /\ Changes!Init /\ Labels!Init
  /\ part # "draft" => sorting = <<>> /\ pageSize = 1

Next ==
  /\ UNCHANGED part
  /\ \/ part = "cell" /\ Cell!Next /\ UNCHANGED <<rows, topic, changes, labels>>
     \/ part = "draft" /\ Draft!Next /\ UNCHANGED <<cell, topic, changes, labels>>
     \/ part = "topic" /\ Topic!Next /\ UNCHANGED <<cell, rows, changes, labels>>
     \/ part = "changes" /\ Changes!Next /\ UNCHANGED <<cell, rows, topic, labels>>
     \/ part = "labels" /\ Labels!Next /\ UNCHANGED <<cell, rows, topic, changes>>

Spec == Init /\ [][Next]_vars

\* Of the component that runs.  The server handles what arrives and answers
\* are delivered (a release is sent with keepalive and taken to arrive);
\* computations end, handlers go on, the admission lock is a queue and a
\* dropped connection is noticed; a provider answers, refuses or runs into the
\* timeout of 300 seconds.  Users need do nothing.
FairSpec ==
  /\ Spec
  /\ WF_cell(part = "cell" /\ Cell!Handle)
  /\ \A s \in Sessions :
       WF_cell(part = "cell" /\ (Cell!Answer(s) \/ Cell!ConnectionLost(s)))
  /\ \A i \in 1..MaxPreviews :
       /\ WF_topic(part = "topic" /\ Topic!Server(i))
       /\ SF_topic(part = "topic" /\ Topic!open_topic_preview(i))
  /\ WF_topic(part = "topic" /\
              (Topic!delete_topic_preview \/ Topic!Deleted \/ Topic!DeleteAnswered))
  /\ SF_topic(part = "topic" /\ Topic!RunReleases)
  /\ WF_topic(part = "topic" /\ Topic!RunFits)
  /\ WF_topic(part = "topic" /\ Topic!RunEnds)
  /\ WF_labels(part = "labels" /\ Labels!Step)

\* However often a Save is lost, repeated or overtaken by a Cancel or by the
\* window's release, it is applied once, the editor is told what happened, and
\* a table is held only for a live session; and an editor with unsaved edits
\* goes only by its own outcome, by the user's answer or with its window
\* (cell_edit.rs, useTableEditing.ts, EditingNavigation.tsx).
EditorIsTruthful ==
  /\ [](part = "cell" => Cell!CellEditInv)
  /\ Cell!NoSilentLoss

\* Whatever is edited, added, deleted, sorted and paged, every row is on
\* exactly one page, a row added above another is shown right above it, and
\* Save sends each change once, with an anchor the server can resolve
\* (useTableEditing.ts).
DraftIsWellFormed ==
  /\ [](part = "draft" => Draft!TypeOK /\ Draft!EveryRowShownOnce /\ Draft!SaveIsWellFormed)
  /\ Draft!AboveMeansAbove

\* One Preview at a time, shown only to the window that asked for it, and
\* every adjustment starts from the projection it replaces
\* (topic_preview.rs, useTopicPreview.ts).
PreviewIsOwn ==
  part = "topic" => Topic!TopicPreviewInv

\* Labels are the provider's answers for exactly the eligible rows of the
\* committed batches, wherever a run ends; its report adds up; no text is sent
\* again after an answer or a timeout; and a run whose tab is deleted commits
\* nothing any more (annotation/execution.rs, inference.rs, analyses.rs).
LabelsAreSound ==
  /\ [](part = "labels" =>
          Labels!TypeOK /\ Labels!LabelsAreAnswers /\ Labels!AskedOnce)
  /\ Labels!ReportIsTrue /\ Labels!NothingAfterDelete

\* The table of a window that is gone is released, and a navigation that
\* waits for an editor is answered; a waiting Preview is answered and an
\* accepted Run begins to fit; an Annotation run ends, whatever its provider
\* does (cell_edit.rs, EditingNavigation.tsx, topic_preview.rs, inference.rs).
SessionsSettle ==
  /\ Cell!Released /\ Cell!NavigationSettles
  /\ Topic!PreviewEnds /\ Topic!RunProceeds
  /\ Labels!RunEnds

\* When everything announced has been worked off, every view shows what the
\* project holds, and what no view shows is current or marked to be read again,
\* whatever was lost with a connection or overtaken on the way (changes.rs,
\* api.rs, projectChanges.ts).
ViewsAreCurrent ==
  part = "changes" => Changes!ProjectEventsInv
=============================================================================
