------------------------------- MODULE Tasks --------------------------------
(***************************************************************************)
(* backend/src/tasks.rs: the registry of visible tasks of one project      *)
(* runtime, and the life of each execution: its submitter looks the tab    *)
(* up, is admitted, and pushes an entry; a detached execution checks its   *)
(* token, marks itself Running, runs, waits for its children, records its  *)
(* final state, sends the result and only then drops its operation.        *)
(* Users cancel and dismiss, tabs are deleted, and the runtime closes, at  *)
(* any time in between.                                                    *)
(***************************************************************************)
EXTENDS Naturals, FiniteSets

CONSTANTS Task,          \* executions (Uuid); each is submitted at most once
          Tab,           \* analysis tabs
          NoTab,         \* a task that belongs to no tab: an import, an export
          HistoryLimit,  \* finished summaries kept; 100 in the code
          MaxChildren    \* bound: blocking children of one task at a time

ASSUME TasksAssumption ==
    /\ HistoryLimit \in Nat \ {0}
    /\ MaxChildren \in Nat
    /\ NoTab \notin Tab

VARIABLES state,       \* TaskSummary.state, "Absent" when there is no entry
          tabOf,       \* TaskSummary.tab_id
          finishedAt,  \* TaskSummary.finished_at
          clock,       \* now(), advanced whenever a task finishes
          token,       \* the task's CancellationToken has been cancelled
          exec,        \* where the submitter, then the execution, stands
          outcome,     \* what the run returned
          children,    \* children still tracked by TaskContext.children
          deleted,     \* tabs whose deletion has committed
          purging,     \* deleted, purge_analysis not yet called
          closing      \* how far ProjectRuntime::close has come

vars == <<state, tabOf, finishedAt, clock, token, exec, outcome, children,
          deleted, purging, closing>>
execVars == <<exec, outcome, children>>
tabVars == <<deleted, purging>>
-----------------------------------------------------------------------------
Unfinished == {"Queued", "Running", "Cancelling"}
Finished == {"Succeeded", "Failed", "Cancelled"}
Exec == {"New", "Looked", "Admitted", "Spawned", "Starting", "Body", "Draining",
         "Recorded", "Sent", "Done"}
ClosePhase == {"Open", "CancelTasks", "CancelWork", "Wait", "Closed"}

TypeOK ==
    /\ state \in [Task -> Unfinished \cup Finished \cup {"Absent"}]
    /\ tabOf \in [Task -> Tab \cup {NoTab}]
    /\ finishedAt \in [Task -> Nat]
    /\ clock \in Nat
    /\ token \in [Task -> BOOLEAN]
    /\ exec \in [Task -> Exec]
    /\ outcome \in [Task -> {"None", "Ok", "Interrupted", "Error"}]
    /\ children \in [Task -> Nat]
    /\ deleted \subseteq Tab
    /\ purging \subseteq deleted
    /\ closing \in ClosePhase

Init ==
    /\ state = [t \in Task |-> "Absent"]
    /\ tabOf = [t \in Task |-> NoTab]
    /\ finishedAt = [t \in Task |-> 0]
    /\ clock = 0
    /\ token = [t \in Task |-> FALSE]
    /\ exec = [t \in Task |-> "New"]
    /\ outcome = [t \in Task |-> "None"]
    /\ children = [t \in Task |-> 0]
    /\ deleted = {}
    /\ purging = {}
    /\ closing = "Open"
-----------------------------------------------------------------------------
\* Display order: failures and cancellations before successes, newest first.
group(s) == IF s = "Succeeded" THEN 2 ELSE IF s \in Finished THEN 1 ELSE 0

Before(s, at, u, t) ==
    \/ group(s[u]) < group(s[t])
    \/ group(s[u]) = group(s[t]) /\ at[u] > at[t]

FinishedBefore(s, at, t) ==
    {u \in Task : s[u] \in Finished /\ Before(s, at, u, t)}

\* publish: sort, then keep at most HistoryLimit finished entries.
publish(s, at) ==
    [t \in Task |->
        IF s[t] \in Finished /\ Cardinality(FinishedBefore(s, at, t)) >= HistoryLimit
        THEN "Absent" ELSE s[t]]

\* analysis_active and the busy check of submit_owned.
analysis_active(tab) == \E u \in Task : tabOf[u] = tab /\ state[u] \in Unfinished

Quiet(t) == exec[t] \in {"New", "Looked", "Done"}   \* holds no operation
Executing(t) == exec[t] \in {"Spawned", "Starting", "Body", "Draining"}
-----------------------------------------------------------------------------
\* submit_*: the tab is read in an operation of its own, or there is no tab.
Lookup(t, tab) ==
    /\ exec[t] = "New"
    /\ closing # "Closed"
    /\ tab \notin deleted
    /\ exec' = [exec EXCEPT ![t] = "Looked"]
    /\ tabOf' = [tabOf EXCEPT ![t] = tab]
    /\ UNCHANGED <<state, finishedAt, clock, token, outcome, children, deleted,
                   purging, closing>>

\* submit_*: ProjectRuntime::operation admits the task, or the runtime is closing.
Admit(t) ==
    /\ exec[t] = "Looked"
    /\ exec' = [exec EXCEPT ![t] = IF closing = "Open" THEN "Admitted" ELSE "Done"]
    /\ UNCHANGED <<state, tabOf, finishedAt, clock, token, outcome, children,
                   deleted, purging, closing>>

Bug_submit_owned_any_state(t) ==
    /\ exec[t] = "Admitted"
    /\ exec' = [exec EXCEPT ![t] = "Spawned"]
    /\ state' = publish([state EXCEPT ![t] = "Queued"], finishedAt)
    /\ UNCHANGED <<tabOf, finishedAt, clock, token, outcome, children, deleted,
                   purging, closing>>

\* submit_owned: one unfinished task per tab; otherwise the operation is dropped.
submit_owned(t) ==
    /\ exec[t] = "Admitted"
    /\ \/ /\ tabOf[t] # NoTab /\ analysis_active(tabOf[t])
          /\ exec' = [exec EXCEPT ![t] = "Done"]
          /\ UNCHANGED state
       \/ /\ tabOf[t] = NoTab \/ ~analysis_active(tabOf[t])
          /\ exec' = [exec EXCEPT ![t] = "Spawned"]
          /\ state' = publish([state EXCEPT ![t] = "Queued"], finishedAt)
    /\ UNCHANGED <<tabOf, finishedAt, clock, token, outcome, children, deleted,
                   purging, closing>>

\* The execution: a task cancelled before it starts never runs.
CheckStart(t) ==
    /\ exec[t] = "Spawned"
    /\ exec' = [exec EXCEPT ![t] = IF token[t] THEN "Draining" ELSE "Starting"]
    /\ outcome' = [outcome EXCEPT ![t] = IF token[t] THEN "Interrupted" ELSE @]
    /\ UNCHANGED <<state, tabOf, finishedAt, clock, token, children, deleted,
                   purging, closing>>

Bug_MarkRunning_always(t) ==
    /\ exec[t] = "Starting"
    /\ exec' = [exec EXCEPT ![t] = "Body"]
    /\ state' = publish([state EXCEPT ![t] = IF @ = "Absent" THEN @ ELSE "Running"], finishedAt)
    /\ UNCHANGED <<tabOf, finishedAt, clock, token, outcome, children, deleted,
                   purging, closing>>

\* The execution: update the entry if it is still there; Cancelling stays.
MarkRunning(t) ==
    /\ exec[t] = "Starting"
    /\ exec' = [exec EXCEPT ![t] = "Body"]
    /\ state' = publish([state EXCEPT ![t] = IF @ = "Queued" THEN "Running" ELSE @],
                        finishedAt)
    /\ UNCHANGED <<tabOf, finishedAt, clock, token, outcome, children, deleted,
                   purging, closing>>

\* run_blocking or a nested operation starts a tracked child, or one ends.
StartChild(t) ==
    /\ exec[t] = "Body"
    /\ ~token[t]
    /\ children[t] < MaxChildren
    /\ children' = [children EXCEPT ![t] = @ + 1]
    /\ UNCHANGED <<state, tabOf, finishedAt, clock, token, exec, outcome, deleted,
                   purging, closing>>

EndChild(t) ==
    /\ children[t] > 0
    /\ children' = [children EXCEPT ![t] = @ - 1]
    /\ UNCHANGED <<state, tabOf, finishedAt, clock, token, exec, outcome, deleted,
                   purging, closing>>

\* The run returns (or panics); a child may still be at work.
Finish(t, result) ==
    /\ exec[t] = "Body"
    /\ result = "Interrupted" => token[t]
    /\ exec' = [exec EXCEPT ![t] = "Draining"]
    /\ outcome' = [outcome EXCEPT ![t] = result]
    /\ UNCHANGED <<state, tabOf, finishedAt, clock, token, children, deleted,
                   purging, closing>>

FinalState(t) == IF outcome[t] = "Ok" THEN "Succeeded"
                 ELSE IF outcome[t] = "Interrupted" THEN "Cancelled" ELSE "Failed"

\* Recording before the children are gone.
Bug_Record_early(t) ==
    /\ exec[t] = "Draining"
    /\ exec' = [exec EXCEPT ![t] = "Recorded"]
    /\ clock' = IF state[t] = "Absent" THEN clock ELSE clock + 1
    /\ finishedAt' = [finishedAt EXCEPT ![t] = IF state[t] = "Absent" THEN @ ELSE clock']
    /\ state' = publish([state EXCEPT ![t] = IF @ = "Absent" THEN @ ELSE FinalState(t)],
                        finishedAt')
    /\ UNCHANGED <<tabOf, token, outcome, children, deleted, purging, closing>>

\* children.close, children.wait, then the entry, if still there, is final.
Record(t) ==
    /\ exec[t] = "Draining"
    /\ children[t] = 0
    /\ exec' = [exec EXCEPT ![t] = "Recorded"]
    /\ clock' = IF state[t] = "Absent" THEN clock ELSE clock + 1
    /\ finishedAt' = [finishedAt EXCEPT ![t] = IF state[t] = "Absent" THEN @ ELSE clock']
    /\ state' = publish([state EXCEPT ![t] = IF @ = "Absent" THEN @ ELSE FinalState(t)],
                        finishedAt')
    /\ UNCHANGED <<tabOf, token, outcome, children, deleted, purging, closing>>

\* The handle receives the result ...
Send(t) ==
    /\ exec[t] = "Recorded"
    /\ exec' = [exec EXCEPT ![t] = "Sent"]
    /\ outcome' = [outcome EXCEPT ![t] = "None"]
    /\ UNCHANGED <<state, tabOf, finishedAt, clock, token, children, deleted,
                   purging, closing>>

\* ... and then the operation is dropped.
DropOperation(t) ==
    /\ exec[t] = "Sent"
    /\ exec' = [exec EXCEPT ![t] = "Done"]
    /\ UNCHANGED <<state, tabOf, finishedAt, clock, token, outcome, children,
                   deleted, purging, closing>>
-----------------------------------------------------------------------------
\* As if only the entry said Cancelling.
Bug_cancel_entry_only(t) ==
    /\ state[t] \in Unfinished
    /\ state' = publish([state EXCEPT ![t] = "Cancelling"], finishedAt)
    /\ UNCHANGED <<tabOf, finishedAt, clock, token, execVars, tabVars, closing>>

\* cancel: only an unfinished entry changes.
cancel(t) ==
    /\ state[t] \in Unfinished
    /\ state' = publish([state EXCEPT ![t] = "Cancelling"], finishedAt)
    /\ token' = [token EXCEPT ![t] = TRUE]
    /\ UNCHANGED <<tabOf, finishedAt, clock, execVars, tabVars, closing>>

\* dismiss: only a finished entry goes.
dismiss(t) ==
    /\ state[t] \in Finished
    /\ state' = publish([state EXCEPT ![t] = "Absent"], finishedAt)
    /\ UNCHANGED <<tabOf, finishedAt, clock, token, execVars, tabVars, closing>>

\* delete_analysis_tab: the deletion commits (an operation admitted before a
\* close may still commit after it) ...
DeleteTab(tab) ==
    /\ closing # "Closed"
    /\ tab \in Tab \ deleted
    /\ deleted' = deleted \cup {tab}
    /\ purging' = purging \cup {tab}
    /\ UNCHANGED <<state, tabOf, finishedAt, clock, token, execVars, closing>>

\* ... and then purge_analysis cancels and removes every entry of the tab.
purge_analysis(tab) ==
    /\ tab \in purging
    /\ purging' = purging \ {tab}
    /\ LET mine == {t \in Task : tabOf[t] = tab /\ state[t] # "Absent"}
       IN  /\ token' = [t \in Task |-> token[t] \/ t \in mine]
           /\ state' = publish([t \in Task |-> IF t \in mine THEN "Absent" ELSE state[t]],
                               finishedAt)
    /\ UNCHANGED <<tabOf, finishedAt, clock, execVars, deleted, closing>>

\* ProjectRuntime::close stops admission, cancelling what was admitted unless
\* a pause has the token ...
BeginClose ==
    /\ closing = "Open"
    /\ closing' = "CancelTasks"
    /\ token' \in {token, [t \in Task |-> token[t] \/ ~Quiet(t)]}
    /\ UNCHANGED <<state, tabOf, finishedAt, clock, execVars, tabVars>>

\* ... cancel_all cancels every unfinished entry ...
cancel_all ==
    /\ closing = "CancelTasks"
    /\ closing' = "CancelWork"
    /\ LET live == {t \in Task : state[t] \in Unfinished}
       IN  /\ token' = [t \in Task |-> token[t] \/ t \in live]
           /\ state' = publish([t \in Task |-> IF t \in live THEN "Cancelling" ELSE state[t]],
                               finishedAt)
    /\ UNCHANGED <<tabOf, finishedAt, clock, execVars, tabVars>>

Bug_CancelActive_skipped ==
    /\ closing = "CancelWork"
    /\ closing' = "Wait"
    /\ UNCHANGED <<state, tabOf, finishedAt, clock, token, execVars, tabVars>>

\* ... then every active operation, which reaches tasks admitted but not pushed ...
CancelActive ==
    /\ closing = "CancelWork"
    /\ closing' = "Wait"
    /\ token' = [t \in Task |-> token[t] \/ ~Quiet(t)]
    /\ UNCHANGED <<state, tabOf, finishedAt, clock, execVars, tabVars>>

Bug_close_early ==
    /\ closing = "Wait"
    /\ closing' = "Closed"
    /\ state' = [t \in Task |-> "Absent"]
    /\ UNCHANGED <<tabOf, finishedAt, clock, token, execVars, tabVars>>

\* ... and the tracker lets it clear the registry once no operation is held.
close ==
    /\ closing = "Wait"
    /\ \A t \in Task : Quiet(t)
    /\ purging = {}
    /\ closing' = "Closed"
    /\ state' = [t \in Task |-> "Absent"]
    /\ UNCHANGED <<tabOf, finishedAt, clock, token, execVars, tabVars>>

Execution(t) ==
    \/ Admit(t) \/ submit_owned(t) \/ CheckStart(t) \/ MarkRunning(t)
    \/ EndChild(t) \/ Record(t) \/ Send(t) \/ DropOperation(t)

Results == {"Ok", "Interrupted", "Error"}

Next ==
    \/ \E t \in Task :
          \/ \E tab \in Tab \cup {NoTab} : Lookup(t, tab)
          \/ Execution(t)
          \/ StartChild(t)
          \/ \E result \in Results : Finish(t, result)
          \/ cancel(t)
          \/ dismiss(t)
    \/ \E tab \in Tab : DeleteTab(tab) \/ purge_analysis(tab)
    \/ BeginClose \/ cancel_all \/ CancelActive \/ close

Spec == Init /\ [][Next]_vars

(* The async executor runs every ready task; a cancelled run ends, because *)
(* it polls its token.  An uncancelled run may go on for ever, and nobody  *)
(* has to cancel, dismiss, delete or close.                                *)
Fairness ==
    /\ \A t \in Task :
          /\ WF_vars(Execution(t))
          /\ WF_vars(token[t] /\ \E result \in Results : Finish(t, result))
    /\ \A tab \in Tab : WF_vars(purge_analysis(tab))
    /\ WF_vars(cancel_all) /\ WF_vars(CancelActive) /\ WF_vars(close)

FairSpec == Spec /\ Fairness
-----------------------------------------------------------------------------
(* "One run per tab may be active": two executions never run for one tab   *)
(* at the same time, children included, as long as the tab exists.         *)
OneRunPerTab ==
    \A t, u \in Task :
        t # u /\ Executing(t) /\ Executing(u) /\ tabOf[t] = tabOf[u] =>
            tabOf[t] \in deleted \cup {NoTab}

(* The registry is truthful about work in flight: an execution that has    *)
(* not ended has an unfinished entry until its tab is deleted, and a final *)
(* entry belongs to an execution whose children are all gone.              *)
TruthfulEntries ==
    \A t \in Task :
        /\ Executing(t) => \/ state[t] \in Unfinished
                           \/ state[t] = "Absent" /\ tabOf[t] \in deleted
        /\ state[t] \in Finished => exec[t] \in {"Recorded", "Sent", "Done"} /\ children[t] = 0

(* A closed registry stays empty: no execution outlives the close and      *)
(* comes back to publish into it.                                          *)
ClosedIsEmpty ==
    closing = "Closed" => \A t \in Task : state[t] = "Absent" /\ Quiet(t)

(* An entry moves forward only: a cancellation request is never undone by  *)
(* a start that raced with it, a final state never changes, and an entry   *)
(* that left the registry never comes back.                                *)
ForwardOnly ==
    [][\A t \in Task :
          /\ state[t] = "Running" => state'[t] # "Queued"
          /\ state[t] = "Cancelling" => state'[t] \notin {"Queued", "Running"}
          /\ state[t] \in Finished => state'[t] \in {state[t], "Absent"}
          /\ Executing(t) /\ state[t] = "Absent" => state'[t] = "Absent"]_vars

(* A cancellation request ends: the operation is released.                 *)
CancelEnds == \A t \in Task : state[t] = "Cancelling" ~> exec[t] = "Done"

(* Closing the runtime always completes, even with submissions that were   *)
(* admitted but not yet listed when cancel_all ran.                        *)
CloseCompletes == closing = "CancelTasks" ~> closing = "Closed"

(* "The runtime retains active tasks and the latest 100 finished           *)
(* summaries" (docs/domain/native-projects.md): a task that has just       *)
(* finished is listed.                                                     *)
LatestFinishedRetained ==
    [][\A t \in Task :
          state[t] \in Unfinished /\ exec'[t] = "Recorded" => state'[t] \in Finished]_vars

(* "Deleted tabs have no task history" (backend/src/tasks.rs).  Not kept   *)
(* in every order of events: see the README, section 5.                    *)
DeletedTabsHaveNoHistory ==
    \A t \in Task : tabOf[t] \in deleted \ purging => state[t] = "Absent"

\* The inductive invariant behind the theorems of TasksProofs.
TasksInv ==
    /\ TypeOK
    /\ OneRunPerTab
    /\ TruthfulEntries
    /\ ClosedIsEmpty
    /\ \A t \in Task : state[t] # "Absent" => exec[t] \notin {"New", "Looked", "Admitted"}
    /\ \A t \in Task : children[t] > 0 => exec[t] \in {"Body", "Draining"}
=============================================================================
