----------------------------- MODULE TopicPreview ----------------------------
(***************************************************************************)
(* Topic Preview of one tab: a model that lives as long as the response    *)
(* stream that carries it (topic_preview.rs), the window that holds the    *)
(* stream and adjusts the model (useTopicPreview.ts, TopicAdjustments.tsx) *)
(* and Runs of the tab, which release the Preview before they fit.         *)
(*                                                                         *)
(* Previews are numbered by the window's submissions; a revision of a      *)
(* model is a number, in the order they are stored.                        *)
(***************************************************************************)
EXTENDS Naturals, FiniteSets

CONSTANTS
  MaxPreviews,    \* bound: submissions of the window
  MaxAdjustments, \* bound: adjustments of the window
  MaxRuns         \* bound: Runs of the tab, here or in another window

BoundsAssumption ==
  MaxPreviews \in Nat \ {0} /\ MaxAdjustments \in Nat /\ MaxRuns \in Nat

Ids == 1..MaxPreviews
Adjustments == 1..MaxAdjustments
Nil == 0
RunLock == MaxPreviews + 1

VARIABLES
  request,    \* request[i]: the stream's request: "none", "sent", "releasing",
              \* "open" or "closed"
  registered, \* previews the runtime can look up
  cancelled,  \* previews whose work is cancelled
  work,       \* work[i]: "none", "fitting" or "finished"
  model,      \* model[i]: the revision held, or Nil
  update,     \* update[i]: the stream's last value: "preparing", "ready" or "failed"
  first,      \* first[i]: the revision the stream announced as ready
  revisions,  \* revisions made so far
  admission,  \* topic_preview_admission: Nil, RunLock or the preview opening
  releasing,  \* the previews its holder waits for
  run,        \* "idle", "begun", "releasing" or "fitting"
  runs,
  current,    \* the window's connection, or Nil
  aborted,    \* connections the window has aborted
  cancelling, \* connections whose Cancel was pressed
  deletion,   \* the window's DELETE: <<>> or its phase and preview
  shown,      \* what the window shows
  active,
  adjust,     \* adjust[k]: phase of an adjustment
  expected,   \* expected[k]: the projection it was made from
  base,       \* base[k]: the revision it is computed from
  made,       \* made[k]: the revision it stored
  latest,     \* the adjustment the window waits for, or Nil
  owner,      \* owner[k]: the preview it is for
  adjusting,  \* topic_adjustments[i]: the adjustment under way for i, or Nil
  replaced    \* of every adjustment stored: the revision it replaced, the one
              \* it was computed from and the one the window showed

preview == <<registered, cancelled, work, model, update, first, revisions, admission, releasing>>
tab == <<run, runs>>
window == <<current, aborted, cancelling, deletion, shown, active>>
adjustment == <<adjust, expected, owner, base, made, latest, adjusting, replaced>>
vars == <<request, preview, tab, window, adjustment>>

\* Nothing, waiting for the model, its revision, or an error.
Blank == <<"blank">>
Waiting == <<"waiting">>
Ready(r) == <<"ready", r>>
Failed == <<"failed">>

(* --------------------------- releasing previews -------------------------- *)

\* release_topic_previews cancels what is registered, waits for its work to
\* finish and drops the models.
Released == \A i \in releasing : work[i] = "finished"
Cancelling(S) ==
  /\ cancelled' = [i \in Ids |-> cancelled[i] \/ i \in S]
  /\ adjust' = [k \in Adjustments |->
       IF adjust[k] = "computing" /\ \E i \in S : adjusting[i] = k THEN "cancelled" ELSE adjust[k]]
Emptied(S) == [i \in Ids |-> IF i \in S THEN Nil ELSE model[i]]

(* ------------------------------ open_preview ----------------------------- *)

\* The request takes the admission lock, is refused during a Run, and cancels
\* the previews of the tab.
open_topic_preview(i) ==
  /\ request[i] = "sent" /\ admission = Nil
  /\ IF run = "idle"
     THEN /\ request' = [request EXCEPT ![i] = "releasing"]
          /\ admission' = i
          /\ Cancelling(registered) /\ releasing' = registered
          /\ UNCHANGED <<shown, current>>
     ELSE /\ request' = [request EXCEPT ![i] = "closed"]
          /\ shown' = IF current = i /\ i \notin cancelling THEN Failed ELSE shown
          /\ UNCHANGED <<admission, releasing, cancelled, adjust, current>>
  /\ UNCHANGED <<registered, work, model, update, first, revisions, tab, aborted, cancelling,
                 deletion, active, expected, owner, base, made, latest, adjusting, replaced>>

\* Once they have finished, the new one is registered and begins to fit.
Registered(i) ==
  /\ request[i] = "releasing" /\ Released
  /\ request' = [request EXCEPT ![i] = "open"]
  /\ model' = Emptied(releasing) /\ releasing' = {}
  /\ registered' = registered \cup {i}
  /\ work' = [work EXCEPT ![i] = "fitting"]
  /\ admission' = Nil
  /\ UNCHANGED <<cancelled, update, first, revisions, tab, window, adjustment>>

\* The computation ends: a cancelled one leaves no model.
Fitted(i) ==
  /\ work[i] = "fitting"
  /\ work' = [work EXCEPT ![i] = "finished"]
  /\ \/ /\ ~cancelled[i]
        /\ revisions' = revisions + 1
        /\ model' = [model EXCEPT ![i] = revisions']
        /\ first' = [first EXCEPT ![i] = revisions']
        /\ update' = [update EXCEPT ![i] = "ready"]
     \/ update' = [update EXCEPT ![i] = "failed"] /\ UNCHANGED <<model, first, revisions>>
  /\ UNCHANGED <<request, registered, cancelled, admission, releasing, tab, window, adjustment>>

\* The lease goes with the stream: when the client has gone, when the preview
\* is cancelled, or after a failure was told.
Dropped(i) ==
  /\ registered' = registered \ {i}
  /\ cancelled' = [cancelled EXCEPT ![i] = TRUE]
  /\ model' = Emptied({i})

\* The stream brings its latest value, or ends.
Receive(i) ==
  /\ request[i] = "open" /\ i \notin aborted
  /\ update[i] # "failed" /\ ~cancelled[i]
  /\ current = i /\ i \notin cancelling
  /\ update[i] = "ready" /\ shown = Waiting
  /\ shown' = Ready(first[i])
  /\ UNCHANGED <<request, preview, tab, current, aborted, cancelling, deletion, active, adjustment>>
StreamEnds(i) ==
  /\ request[i] = "open"
  /\ i \in aborted \/ cancelled[i] \/ update[i] = "failed"
  /\ request' = [request EXCEPT ![i] = "closed"]
  /\ Dropped(i)
  /\ shown' = IF current = i /\ i \notin aborted \cup cancelling /\ shown # Blank THEN Failed ELSE shown
  /\ UNCHANGED <<work, update, first, revisions, admission, releasing, tab, current, aborted, cancelling,
                 deletion, active, adjustment>>
\* A request that has not been answered is dropped with its client, and gives
\* the lock back.
RequestEnds(i) ==
  /\ request[i] \in {"sent", "releasing"} /\ i \in aborted
  /\ request' = [request EXCEPT ![i] = "closed"]
  /\ IF admission = i THEN admission' = Nil /\ releasing' = {} ELSE UNCHANGED <<admission, releasing>>
  /\ UNCHANGED <<registered, cancelled, work, model, update, first, revisions, tab, window, adjustment>>

(* ------------------------------- the window ------------------------------ *)

NextId == 1 + Cardinality({i \in Ids : request[i] # "none"})
\* The adjustments' effect is taken down with the result it belongs to.
Disconnect ==
  /\ aborted' = aborted \cup ({current} \ {Nil})
  /\ latest' = Nil

submit ==
  /\ active /\ NextId \in Ids
  /\ Disconnect
  /\ current' = NextId
  /\ request' = [request EXCEPT ![NextId] = "sent"]
  /\ shown' = Waiting
  /\ UNCHANGED <<preview, tab, cancelling, deletion, active, adjust, expected, owner, base, made, adjusting, replaced>>
clear ==
  /\ current # Nil
  /\ Disconnect
  /\ current' = Nil /\ shown' = Blank
  /\ UNCHANGED <<request, preview, tab, cancelling, deletion, active, adjust, expected, owner, base, made, adjusting, replaced>>
\* Hiding the panel ends its visit.
Navigate ==
  /\ active' = ~active
  /\ IF active
     THEN Disconnect /\ current' = Nil /\ shown' = Blank
     ELSE UNCHANGED <<aborted, current, shown, latest>>
  /\ UNCHANGED <<request, preview, tab, cancelling, deletion, adjust, expected, owner, base, made, adjusting, replaced>>

\* Cancel: without a preview identity the connection is dropped at once, else
\* the preview is deleted first.
cancel ==
  /\ current # Nil /\ current \notin cancelling /\ deletion = <<>> /\ shown = Waiting
  /\ cancelling' = cancelling \cup {current}
  /\ \/ /\ request[current] = "open"
        /\ deletion' = <<"sent", current>> /\ UNCHANGED <<aborted, current, shown, latest>>
     \/ Disconnect /\ current' = Nil /\ shown' = Blank /\ UNCHANGED deletion
  /\ UNCHANGED <<request, preview, tab, active, adjust, expected, owner, base, made, adjusting, replaced>>
\* delete_topic_preview: unknown or cancelled previews have expired.
delete_topic_preview ==
  /\ deletion # <<>> /\ deletion[1] = "sent"
  /\ LET i == deletion[2] IN
     IF i \in registered /\ ~cancelled[i]
     THEN /\ deletion' = <<"waiting", i>>
          /\ cancelled' = [cancelled EXCEPT ![i] = TRUE]
     ELSE deletion' = <<"expired", i>> /\ UNCHANGED cancelled
  /\ UNCHANGED <<request, registered, work, model, update, first, revisions, admission, releasing, tab,
                 current, aborted, cancelling, shown, active, adjustment>>
Deleted ==
  /\ deletion # <<>> /\ deletion[1] = "waiting" /\ work[deletion[2]] = "finished"
  /\ deletion' = <<"done", deletion[2]>>
  /\ model' = Emptied({deletion[2]})
  /\ UNCHANGED <<request, registered, cancelled, work, update, first, revisions, admission, releasing, tab,
                 current, aborted, cancelling, shown, active, adjustment>>
\* The answer: the window clears, or shows why it could not.
DeleteAnswered ==
  /\ deletion # <<>> /\ deletion[1] \in {"done", "expired"}
  /\ deletion' = <<>>
  /\ IF deletion[1] = "done" /\ current = deletion[2]
     THEN Disconnect /\ current' = Nil /\ shown' = Blank
     ELSE /\ shown' = IF current = deletion[2] /\ shown # Blank THEN Failed ELSE shown
          /\ UNCHANGED <<aborted, current, latest>>
  /\ UNCHANGED <<request, preview, tab, cancelling, active, adjust, expected, owner, base, made, adjusting, replaced>>

(* ---------------------------------- Run ---------------------------------- *)

\* A Run is submitted and saves its request; this window drops its Preview first.
submit_topic_model(here) ==
  /\ run = "idle" /\ runs < MaxRuns
  /\ runs' = runs + 1 /\ run' = "begun"
  /\ IF here
     THEN Disconnect /\ current' = Nil /\ shown' = Blank
     ELSE UNCHANGED <<aborted, current, shown, latest>>
  /\ UNCHANGED <<request, preview, cancelling, deletion, active, adjust, expected, owner, base, made, adjusting, replaced>>
\* It releases the tab's previews under the admission lock ...
RunReleases ==
  /\ run = "begun" /\ admission = Nil
  /\ run' = "releasing" /\ admission' = RunLock
  /\ Cancelling(registered) /\ releasing' = registered
  /\ UNCHANGED <<request, registered, work, model, update, first, revisions, runs, window,
                 expected, owner, base, made, latest, adjusting, replaced>>
\* ... and fits once they have finished.
RunFits ==
  /\ run = "releasing" /\ Released
  /\ run' = "fitting" /\ admission' = Nil
  /\ model' = Emptied(releasing) /\ releasing' = {}
  /\ UNCHANGED <<request, registered, cancelled, work, update, first, revisions, runs, window, adjustment>>
RunEnds ==
  /\ run = "fitting"
  /\ run' = "idle"
  /\ UNCHANGED <<request, preview, runs, window, adjustment>>

(* ------------------------------ adjustments ------------------------------ *)

NextAdjustment == 1 + Cardinality({k \in Adjustments : adjust[k] # "none"})
\* Changed settings abort the adjustment under way and send another, made
\* from the projection the window shows.
TopicAdjustments ==
  /\ shown[1] = "ready" /\ NextAdjustment \in Adjustments
  /\ adjust' = [adjust EXCEPT ![NextAdjustment] = "sent"]
  /\ latest' = NextAdjustment
  /\ expected' = [expected EXCEPT ![NextAdjustment] = shown[2]]
  /\ owner' = [owner EXCEPT ![NextAdjustment] = current]
  /\ UNCHANGED <<request, preview, tab, window, base, made, adjusting, replaced>>
\* An aborted request is dropped, which cancels its work.
AdjustDropped(k) ==
  /\ adjust[k] \in {"sent", "computing"} /\ k # latest
  /\ adjust' = [adjust EXCEPT ![k] = "cancelled"]
  /\ UNCHANGED <<request, preview, tab, window, expected, owner, base, made, latest, adjusting, replaced>>

\* The preview is looked up; a newer adjustment cancels the one under way.
adjust_topic_preview(k) ==
  /\ adjust[k] = "sent"
  /\ LET i == owner[k] IN
     IF i \in registered /\ ~cancelled[i] /\ model[i] # Nil
     THEN /\ base' = [base EXCEPT ![k] = model[i]]
          /\ adjust' = [j \in Adjustments |-> IF j = k THEN "computing"
                          ELSE IF j = adjusting[i] /\ adjust[j] = "computing" THEN "cancelled" ELSE adjust[j]]
          /\ adjusting' = [adjusting EXCEPT ![i] = k]
     ELSE adjust' = [adjust EXCEPT ![k] = "refused"] /\ UNCHANGED <<base, adjusting>>
  /\ UNCHANGED <<request, preview, tab, window, expected, owner, made, latest, replaced>>

Stores(k, i) ==
  /\ revisions' = revisions + 1
  /\ replaced' = replaced \cup {<<model[i], base[k], expected[k]>>}
  /\ model' = [model EXCEPT ![i] = revisions']
  /\ made' = [made EXCEPT ![k] = revisions']
  /\ adjust' = [adjust EXCEPT ![k] = "stored"]
\* The adjusted model replaces the one held if that is the expected one.
Bug_Adjusted(k) ==
  /\ adjust[k] = "computing"
  /\ LET i == owner[k] IN
     /\ IF ~cancelled[i] /\ model[i] # Nil THEN Stores(k, i)
        ELSE adjust' = [adjust EXCEPT ![k] = "refused"] /\ UNCHANGED <<revisions, model, made, replaced>>
     /\ adjusting' = IF adjusting[i] = k THEN [adjusting EXCEPT ![i] = Nil] ELSE adjusting
  /\ UNCHANGED <<request, registered, cancelled, work, update, first, admission, releasing, tab, window,
                 expected, owner, base, latest>>
Adjusted(k) ==
  /\ adjust[k] = "computing"
  /\ LET i == owner[k] IN
     /\ IF ~cancelled[i] /\ model[i] # Nil /\ model[i] = expected[k] THEN Stores(k, i)
        ELSE adjust' = [adjust EXCEPT ![k] = "refused"] /\ UNCHANGED <<revisions, model, made, replaced>>
     /\ adjusting' = IF adjusting[i] = k THEN [adjusting EXCEPT ![i] = Nil] ELSE adjusting
  /\ UNCHANGED <<request, registered, cancelled, work, update, first, admission, releasing, tab, window,
                 expected, owner, base, latest>>
\* The answer of the adjustment the window waits for.
AdjustAnswered ==
  /\ latest # Nil /\ adjust[latest] \in {"stored", "refused"}
  /\ shown' = IF adjust[latest] = "stored" /\ shown[1] = "ready" THEN Ready(made[latest]) ELSE shown
  /\ adjust' = [adjust EXCEPT ![latest] = "answered"]
  /\ latest' = Nil
  /\ UNCHANGED <<request, preview, tab, current, aborted, cancelling, deletion, active,
                 expected, owner, base, made, adjusting, replaced>>

Init ==
  /\ request = [i \in Ids |-> "none"] /\ registered = {} /\ cancelled = [i \in Ids |-> FALSE]
  /\ work = [i \in Ids |-> "none"] /\ model = [i \in Ids |-> Nil]
  /\ update = [i \in Ids |-> "preparing"] /\ first = [i \in Ids |-> Nil] /\ revisions = 0
  /\ admission = Nil /\ releasing = {} /\ run = "idle" /\ runs = 0
  /\ current = Nil /\ aborted = {} /\ cancelling = {} /\ deletion = <<>> /\ shown = Blank /\ active = TRUE
  /\ adjust = [k \in Adjustments |-> "none"] /\ expected = [k \in Adjustments |-> Nil]
  /\ base = [k \in Adjustments |-> Nil] /\ made = [k \in Adjustments |-> Nil]
  /\ owner = [k \in Adjustments |-> Nil] /\ latest = Nil
  /\ adjusting = [i \in Ids |-> Nil] /\ replaced = {}

Server(i) ==
  open_topic_preview(i) \/ Registered(i) \/ Fitted(i) \/ StreamEnds(i) \/ RequestEnds(i) \/ Receive(i)
Next ==
  \/ \E i \in Ids : Server(i)
  \/ submit \/ clear \/ Navigate \/ cancel \/ delete_topic_preview \/ Deleted \/ DeleteAnswered
  \/ \E here \in BOOLEAN : submit_topic_model(here)
  \/ RunReleases \/ RunFits \/ RunEnds
  \/ TopicAdjustments \/ AdjustAnswered
  \/ \E k \in Adjustments : adjust_topic_preview(k) \/ Adjusted(k) \/ AdjustDropped(k)

Spec == Init /\ [][Next]_vars

(* ------------------------------ properties ------------------------------ *)

Revisions == 0..MaxPreviews + MaxAdjustments
Phases == {"none", "sent", "computing", "stored", "refused", "cancelled", "answered"}
TypeOK ==
  /\ request \in [Ids -> {"none", "sent", "releasing", "open", "closed"}]
  /\ registered \subseteq Ids /\ cancelled \in [Ids -> BOOLEAN]
  /\ work \in [Ids -> {"none", "fitting", "finished"}] /\ model \in [Ids -> Revisions]
  /\ update \in [Ids -> {"preparing", "ready", "failed"}] /\ first \in [Ids -> Revisions]
  /\ revisions \in Revisions
  /\ admission \in {Nil, RunLock} \cup {i \in Ids : request[i] = "releasing"}
  /\ releasing \subseteq Ids /\ (admission = Nil => releasing = {})
  /\ admission = RunLock <=> run = "releasing"
  /\ run \in {"idle", "begun", "releasing", "fitting"} /\ runs \in 0..MaxRuns
  /\ current \in Ids \cup {Nil} /\ aborted \subseteq Ids /\ cancelling \subseteq Ids
  /\ deletion = <<>> \/ deletion \in {"sent", "waiting", "done", "expired"} \X Ids
  /\ shown \in {Blank, Waiting, Failed} \cup {Ready(r) : r \in Revisions}
  /\ shown # Blank <=> current # Nil
  /\ active \in BOOLEAN /\ adjust \in [Adjustments -> Phases]
  /\ latest \in Adjustments \cup {Nil} /\ adjusting \in [Ids -> Adjustments \cup {Nil}]
  /\ {expected, base, made} \subseteq [Adjustments -> Revisions] /\ owner \in [Adjustments -> Ids \cup {Nil}]

\* However submissions, aborts and Runs interleave, one Preview at most holds
\* the tab, and while a Run fits only cancelled Previews still compute.
OnePreview ==
  /\ Cardinality({i \in registered : ~cancelled[i]}) <= 1
  /\ run = "fitting" => \A i \in Ids : work[i] = "fitting" => cancelled[i]

\* The model the window shows was made for the Preview it now holds, never for
\* one it has superseded, cleared or cancelled.
ShownIsOwn ==
  shown[1] = "ready" =>
    shown[2] \in {first[current]} \cup {made[k] : k \in {j \in Adjustments : owner[j] = current}}

\* Adjustments form a chain: a model is replaced only by one computed from it
\* and asked for while the window showed it, so none undoes another unseen.
AdjustChain == \A p \in replaced : p[1] = p[2] /\ p[1] = p[3]

\* What the three rest on.  Submissions, adjustments and revisions are numbered
\* in the order they are made; what has been made has ended.
Numbered ==
  /\ \A i \in Ids : request[i] # "none" <=> i < NextId
  /\ \A k \in Adjustments : adjust[k] # "none" <=> k < NextAdjustment
  /\ revisions = Cardinality({i \in Ids : first[i] # Nil}) + Cardinality({k \in Adjustments : made[k] # Nil})
  /\ \A i \in Ids : /\ first[i] <= revisions /\ model[i] <= revisions
                    /\ update[i] = "ready" => first[i] # Nil
                    /\ first[i] # Nil => work[i] = "finished"
  /\ \A k \in Adjustments : /\ expected[k] <= revisions /\ made[k] <= revisions
                            /\ adjust[k] = "stored" => made[k] # Nil
                            /\ made[k] # Nil => adjust[k] \in {"stored", "answered"}

\* While a preview or a Run waits for the others to finish, none of them is
\* left that is not cancelled; work begins with its lease and outlives it only
\* when cancelled.
LockHeld ==
  /\ \A i \in Ids : request[i] = "releasing" => admission = i
  /\ admission # Nil => \A i \in registered : cancelled[i]
  /\ run = "fitting" => admission = Nil
  /\ \A i \in Ids : /\ work[i] # "none" => request[i] \in {"open", "closed"}
                    /\ work[i] = "fitting" => i \in registered \/ cancelled[i]

\* The window waits for an adjustment of its Preview only, and what it shows
\* has been made.
WaitsForOwn ==
  /\ latest # Nil => owner[latest] = current
  /\ shown[1] = "ready" => shown[2] \in 1..revisions /\ first[current] # Nil

\* A model that is no longer the one an adjustment is computed from is newer
\* than the one the window showed.
ComputedFromShown ==
  \A k \in Adjustments :
    /\ adjust[k] # "none" => owner[k] # Nil
    /\ adjust[k] = "computing" => model[owner[k]] \in {Nil, base[k]} \/ model[owner[k]] > expected[k]

\* Inductive.
TopicPreviewInv ==
  /\ TypeOK /\ Numbered /\ LockHeld /\ WaitsForOwn /\ ComputedFromShown
  /\ OnePreview /\ ShownIsOwn /\ AdjustChain

\* A submitted Preview comes to an end in the window that waits for it: the
\* model, an error, or the user's own step.
PreviewEnds == \A i \in Ids : (current = i /\ shown = Waiting) ~> (current # i \/ shown # Waiting)

\* A Run gets past the Previews of its tab.
RunProceeds == run = "begun" ~> run = "fitting"

\* native-analyses.md: "Run waits for prior Preview cleanup before fitting."
\* Not kept in every order of events: see the README, section 5.
RunWaits == run = "fitting" => \A i \in Ids : work[i] # "fitting"

\* topic_preview.rs: "The Topic Preview changed. Refresh and retry this
\* adjustment.": when nothing is under way the window holds the projection
\* its next adjustment is checked against.
\* Not kept in every order of events: see the README, section 5.
CanAdjust ==
  /\ shown[1] = "ready" /\ current \in registered /\ ~cancelled[current]
  /\ latest = Nil /\ \A k \in Adjustments : adjust[k] \notin {"sent", "computing"}
  => shown[2] = model[current]
=============================================================================
