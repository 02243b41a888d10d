----------------------------- MODULE TasksProofs -----------------------------
(***************************************************************************)
(* Theorems about Tasks for any number of tasks and tabs and any history   *)
(* limit: type correctness, one active run per tab, truthful entries, an   *)
(* empty registry after close, and the forward-only life of an entry.      *)
(***************************************************************************)
EXTENDS Tasks, TLAPS

States == Unfinished \cup Finished \cup {"Absent"}

(* What publish may do to an entry: keep it, or drop it if it is finished.  *)
LEMMA PublishFacts ==
    ASSUME NEW s \in [Task -> States], NEW at
    PROVE  /\ publish(s, at) \in [Task -> States]
           /\ \A t \in Task : publish(s, at)[t] \in {s[t], "Absent"}
           /\ \A t \in Task : s[t] \notin Finished => publish(s, at)[t] = s[t]
  <1> DEFINE Old(t) == Cardinality(FinishedBefore(s, at, t)) >= HistoryLimit
  <1>1. publish(s, at) = [t \in Task |-> IF s[t] \in Finished /\ Old(t) THEN "Absent" ELSE s[t]]
    BY DEF publish
  <1> HIDE DEF Old
  <1> QED BY <1>1 DEF States

(* The empty registry satisfies the inductive invariant.                    *)
LEMMA InvInit == Init => TasksInv
  BY DEF Init, TasksInv, TypeOK, OneRunPerTab, TruthfulEntries, ClosedIsEmpty,
         Executing, Quiet, Exec, Unfinished, Finished, ClosePhase

(* Steps that leave every entry alone: looking up, admission, the start     *)
(* check, children, the end of the run and the delivery of its result.      *)
LEMMA EntriesAloneKeepInv ==
    ASSUME TasksInv, NEW t \in Task,
           \/ \E tab \in Tab \cup {NoTab} : Lookup(t, tab)
           \/ Admit(t)
           \/ CheckStart(t)
           \/ StartChild(t)
           \/ EndChild(t)
           \/ \E result \in Results : Finish(t, result)
           \/ Send(t)
           \/ DropOperation(t)
    PROVE  TasksInv'
  <1> USE DEF TasksInv, TypeOK, OneRunPerTab, TruthfulEntries, ClosedIsEmpty,
              Executing, Quiet, Exec
  <1>1. CASE \E tab \in Tab \cup {NoTab} : Lookup(t, tab)
    BY <1>1 DEF Lookup, Unfinished, Finished
  <1>2. CASE Admit(t)
    BY <1>2 DEF Admit, Unfinished, Finished
  <1>3. CASE CheckStart(t)
    BY <1>3 DEF CheckStart, Unfinished, Finished
  <1>4. CASE StartChild(t)
    BY <1>4 DEF StartChild, Unfinished, Finished
  <1>5. CASE EndChild(t)
    BY <1>5 DEF EndChild, Unfinished, Finished
  <1>6. CASE \E result \in Results : Finish(t, result)
    BY <1>6 DEF Finish, Results, Unfinished, Finished
  <1>7. CASE Send(t)
    BY <1>7 DEF Send, Unfinished, Finished
  <1>8. CASE DropOperation(t)
    BY <1>8 DEF DropOperation, Unfinished, Finished
  <1> QED BY <1>1, <1>2, <1>3, <1>4, <1>5, <1>6, <1>7, <1>8

(* Steps that change the state of one entry and publish: submission, the    *)
(* start, the final record, cancellation and dismissal.                     *)
LEMMA OneEntryKeepsInv ==
    ASSUME TasksInv, NEW t \in Task,
           submit_owned(t) \/ MarkRunning(t) \/ Record(t) \/ cancel(t) \/ dismiss(t)
    PROVE  TasksInv'
  <1> USE DEF TasksInv, TypeOK, Executing, Quiet, Exec, execVars, tabVars
  <1> DEFINE Published(x) == publish([state EXCEPT ![t] = x], finishedAt')
             Effect(x) == /\ state' \in [Task -> States]
                          /\ \A u \in Task \ {t} : state'[u] \in {state[u], "Absent"}
                          /\ \A u \in Task \ {t} : state[u] \notin Finished => state'[u] = state[u]
                          /\ state'[t] \in {x, "Absent"}
                          /\ x \notin Finished => state'[t] = x
  <1>1. ASSUME NEW x \in States, state' = Published(x) PROVE Effect(x)
    <2> DEFINE s == [state EXCEPT ![t] = x]
    <2>1. s \in [Task -> States]
      BY DEF States
    <2>2. s[t] = x /\ \A u \in Task \ {t} : s[u] = state[u]
      BY DEF States
    <2>3. state' = publish(s, finishedAt')
      BY <1>1
    <2> HIDE DEF s
    <2> QED BY <2>1, <2>2, <2>3, PublishFacts
  <1> HIDE DEF Published
  <1>2. CASE submit_owned(t)
    <2>1. CASE exec' = [exec EXCEPT ![t] = "Done"] /\ state' = state
      <3>1. TypeOK'
        BY <1>2, <2>1 DEF submit_owned, States, Unfinished, Finished
      <3>2. OneRunPerTab'
        BY <1>2, <2>1 DEF submit_owned, OneRunPerTab
      <3>3. TruthfulEntries'
        BY <1>2, <2>1 DEF submit_owned, TruthfulEntries, States, Unfinished, Finished
      <3>4. ClosedIsEmpty'
        BY <1>2, <2>1 DEF submit_owned, ClosedIsEmpty
      <3>5. (\A u \in Task : state[u] # "Absent" => exec[u] \notin {"New", "Looked", "Admitted"})'
        BY <1>2, <2>1 DEF submit_owned, States, TruthfulEntries, Unfinished, Finished
      <3>6. (\A u \in Task : children[u] > 0 => exec[u] \in {"Body", "Draining"})'
        BY <1>2, <2>1 DEF submit_owned
      <3> QED BY <3>1, <3>2, <3>3, <3>4, <3>5, <3>6
    <2>2. CASE /\ tabOf[t] = NoTab \/ ~analysis_active(tabOf[t])
               /\ exec' = [exec EXCEPT ![t] = "Spawned"]
               /\ state' = publish([state EXCEPT ![t] = "Queued"], finishedAt)
      <3>1. Effect("Queued")
        <4>1. state' = Published("Queued")
          BY <1>2, <2>2 DEF submit_owned, Published
        <4> QED BY <1>1, <4>1 DEF States, Unfinished
      <3>2. \A u \in Task : Executing(u) /\ tabOf[u] = tabOf[t] =>
                tabOf[t] \in deleted \cup {NoTab}
        BY <2>2 DEF analysis_active, TruthfulEntries
      <3>3. closing # "Closed" /\ children[t] = 0
        BY <1>2 DEF submit_owned, ClosedIsEmpty
      <3>4. TypeOK'
        BY <1>2, <2>2, <3>1, <3>2, <3>3 DEF submit_owned, States, Unfinished, Finished
      <3>5. OneRunPerTab'
        BY <1>2, <2>2, <3>1, <3>2, <3>3 DEF submit_owned, OneRunPerTab
      <3>6. TruthfulEntries'
        BY <1>2, <2>2, <3>1, <3>2, <3>3, ZenonT(30) DEF submit_owned, TruthfulEntries, States, Unfinished, Finished
      <3>7. ClosedIsEmpty'
        BY <1>2, <2>2, <3>1, <3>2, <3>3 DEF submit_owned, ClosedIsEmpty
      <3>8. (\A u \in Task : state[u] # "Absent" => exec[u] \notin {"New", "Looked", "Admitted"})'
        BY <1>2, <2>2, <3>1, <3>2, <3>3 DEF submit_owned, States, TruthfulEntries, Unfinished, Finished
      <3>9. (\A u \in Task : children[u] > 0 => exec[u] \in {"Body", "Draining"})'
        BY <1>2, <2>2, <3>1, <3>2, <3>3 DEF submit_owned
      <3> QED BY <3>4, <3>5, <3>6, <3>7, <3>8, <3>9
    <2> QED BY <1>2, <2>1, <2>2 DEF submit_owned
  <1>3. CASE MarkRunning(t)
    <2> DEFINE x == IF state[t] = "Queued" THEN "Running" ELSE state[t]
    <2>1. x \in States /\ state' = Published(x)
      BY <1>3 DEF MarkRunning, Published, States, Unfinished
    <2>2. Effect(x)
      BY <1>1, <2>1
    <2>3. state[t] \in Unfinished \/ (state[t] = "Absent" /\ tabOf[t] \in deleted)
      <3>1. Executing(t)
        BY <1>3 DEF MarkRunning
      <3> QED BY <3>1 DEF TruthfulEntries
    <2>4. x \in Unfinished \/ (x = "Absent" /\ tabOf[t] \in deleted)
      BY <2>3 DEF Unfinished
    <2> HIDE DEF x
    <2>5. state'[t] = x
      BY <2>2, <2>4 DEF Unfinished, Finished
    <2>6. closing # "Closed" /\ closing' = closing
      BY <1>3 DEF MarkRunning, ClosedIsEmpty
    <2>7. TypeOK'
      BY <1>3, <2>2 DEF MarkRunning, States, Unfinished, Finished
    <2>8. OneRunPerTab'
      BY <1>3 DEF MarkRunning, OneRunPerTab
    <2>9. TruthfulEntries'
      <3> SUFFICES ASSUME NEW u \in Task
                   PROVE  /\ Executing(u)' => \/ state'[u] \in Unfinished
                                              \/ (state'[u] = "Absent" /\ tabOf'[u] \in deleted')
                          /\ state'[u] \in Finished =>
                                exec'[u] \in {"Recorded", "Sent", "Done"} /\ children'[u] = 0
        BY DEF TruthfulEntries
      <3>1. CASE u = t
        BY <1>3, <2>4, <2>5, <3>1 DEF MarkRunning, Unfinished, Finished
      <3>2. CASE u # t
        <4>1. exec'[u] = exec[u] /\ children' = children /\ tabOf' = tabOf /\ deleted' = deleted
          BY <1>3, <3>2 DEF MarkRunning
        <4>2. state'[u] = state[u] \/ (state[u] \in Finished /\ state'[u] = "Absent")
          BY <2>2, <3>2
        <4> QED BY <4>1, <4>2 DEF TruthfulEntries, Unfinished, Finished
      <3> QED BY <3>1, <3>2
    <2>10. ClosedIsEmpty'
      BY <2>6 DEF ClosedIsEmpty
    <2>11. (\A u \in Task : state[u] # "Absent" => exec[u] \notin {"New", "Looked", "Admitted"})'
      BY <1>3, <2>2 DEF MarkRunning
    <2>12. (\A u \in Task : children[u] > 0 => exec[u] \in {"Body", "Draining"})'
      BY <1>3 DEF MarkRunning
    <2> QED BY <2>7, <2>8, <2>9, <2>10, <2>11, <2>12
  <1>4. CASE Record(t)
    <2> DEFINE x == IF state[t] = "Absent" THEN "Absent" ELSE FinalState(t)
    <2>1. x \in Finished \cup {"Absent"} /\ state' = Published(x)
      BY <1>4 DEF Record, Published, Finished, FinalState
    <2> HIDE DEF x
    <2>2. Effect(x)
      <3>1. x \in States
        BY <2>1 DEF States
      <3> QED BY <1>1, <2>1, <3>1
    <2>3. closing # "Closed" /\ finishedAt' \in [Task -> Nat] /\ clock' \in Nat
      BY <1>4 DEF Record, ClosedIsEmpty
    <2>4. TypeOK'
      BY <1>4, <2>1, <2>2, <2>3 DEF Record, States, Unfinished, Finished
    <2>5. OneRunPerTab'
      BY <1>4, <2>1, <2>2, <2>3 DEF Record, OneRunPerTab
    <2>6. TruthfulEntries'
      BY <1>4, <2>1, <2>2, <2>3, ZenonT(30) DEF Record, TruthfulEntries, States, Unfinished, Finished
    <2>7. ClosedIsEmpty'
      BY <1>4, <2>1, <2>2, <2>3 DEF Record, ClosedIsEmpty
    <2>8. (\A u \in Task : state[u] # "Absent" => exec[u] \notin {"New", "Looked", "Admitted"})'
      BY <1>4, <2>1, <2>2, <2>3 DEF Record, States, TruthfulEntries, Unfinished, Finished
    <2>9. (\A u \in Task : children[u] > 0 => exec[u] \in {"Body", "Draining"})'
      BY <1>4, <2>1, <2>2, <2>3 DEF Record
    <2> QED BY <2>4, <2>5, <2>6, <2>7, <2>8, <2>9
  <1>5. CASE cancel(t)
    <2>1. "Cancelling" \in States /\ state' = Published("Cancelling")
      BY <1>5 DEF cancel, Published, States, Unfinished
    <2>2. Effect("Cancelling")
      BY <1>1, <2>1
    <2>3. closing # "Closed" /\ state[t] \in Unfinished
      BY <1>5 DEF cancel, ClosedIsEmpty, Unfinished
    <2>4. TypeOK'
      BY <1>5, <2>2, <2>3 DEF cancel, States, Unfinished, Finished
    <2>5. OneRunPerTab'
      BY <1>5, <2>2, <2>3 DEF cancel, OneRunPerTab
    <2>6. TruthfulEntries'
      BY <1>5, <2>2, <2>3, ZenonT(30) DEF cancel, TruthfulEntries, States, Unfinished, Finished
    <2>7. ClosedIsEmpty'
      BY <1>5, <2>2, <2>3 DEF cancel, ClosedIsEmpty
    <2>8. (\A u \in Task : state[u] # "Absent" => exec[u] \notin {"New", "Looked", "Admitted"})'
      BY <1>5, <2>2, <2>3 DEF cancel, States, TruthfulEntries, Unfinished, Finished
    <2>9. (\A u \in Task : children[u] > 0 => exec[u] \in {"Body", "Draining"})'
      BY <1>5, <2>2, <2>3 DEF cancel
    <2> QED BY <2>4, <2>5, <2>6, <2>7, <2>8, <2>9
  <1>6. CASE dismiss(t)
    <2>1. "Absent" \in States /\ state' = Published("Absent")
      BY <1>6 DEF dismiss, Published, States
    <2>2. Effect("Absent")
      BY <1>1, <2>1
    <2>3. ~Executing(t) /\ state[t] \in Finished
      BY <1>6 DEF dismiss, TruthfulEntries
    <2>4. TypeOK'
      BY <1>6, <2>2, <2>3 DEF dismiss, States, Unfinished, Finished
    <2>5. OneRunPerTab'
      BY <1>6, <2>2, <2>3 DEF dismiss, OneRunPerTab
    <2>6. TruthfulEntries'
      BY <1>6, <2>2, <2>3 DEF dismiss, TruthfulEntries, States, Unfinished, Finished
    <2>7. ClosedIsEmpty'
      BY <1>6, <2>2, <2>3 DEF dismiss, ClosedIsEmpty
    <2>8. (\A u \in Task : state[u] # "Absent" => exec[u] \notin {"New", "Looked", "Admitted"})'
      BY <1>6, <2>2, <2>3 DEF dismiss, States, TruthfulEntries, Unfinished, Finished
    <2>9. (\A u \in Task : children[u] > 0 => exec[u] \in {"Body", "Draining"})'
      BY <1>6, <2>2, <2>3 DEF dismiss
    <2> QED BY <2>4, <2>5, <2>6, <2>7, <2>8, <2>9
  <1> QED BY <1>2, <1>3, <1>4, <1>5, <1>6

(* Steps that concern many entries: deleting a tab and closing the runtime. *)
LEMMA ManyEntriesKeepInv ==
    ASSUME TasksInv,
           \/ \E tab \in Tab : DeleteTab(tab) \/ purge_analysis(tab)
           \/ BeginClose \/ cancel_all \/ CancelActive \/ close
    PROVE  TasksInv'
  <1> USE DEF TasksInv, TypeOK, Executing, Quiet, Exec, ClosePhase, execVars, tabVars
  <1>1. ASSUME NEW tab \in Tab, DeleteTab(tab) PROVE TasksInv'
    BY <1>1 DEF DeleteTab, OneRunPerTab, TruthfulEntries, ClosedIsEmpty, Unfinished, Finished
  <1>2. ASSUME NEW tab \in Tab, purge_analysis(tab) PROVE TasksInv'
    <2> DEFINE mine == {t \in Task : tabOf[t] = tab /\ state[t] # "Absent"}
               s == [t \in Task |-> IF t \in mine THEN "Absent" ELSE state[t]]
    <2>1. s \in [Task -> States] /\ state' = publish(s, finishedAt)
      BY <1>2 DEF purge_analysis, States
    <2>2. /\ state' \in [Task -> States]
          /\ \A u \in Task : state'[u] \in {state[u], "Absent"}
          /\ \A u \in Task : state[u] \notin Finished =>
                 state'[u] = state[u] \/ tabOf[u] = tab
      BY <2>1, PublishFacts
    <2> HIDE DEF s
    <2>3. token' \in [Task -> BOOLEAN]
      BY <1>2 DEF purge_analysis
    <2> QED
      BY <1>2, <2>2, <2>3
         DEF purge_analysis, OneRunPerTab, TruthfulEntries, ClosedIsEmpty, States,
             Unfinished, Finished
  <1>3. CASE BeginClose
    BY <1>3 DEF BeginClose, OneRunPerTab, TruthfulEntries, ClosedIsEmpty, Unfinished, Finished
  <1>4. CASE cancel_all
    <2> DEFINE s == [t \in Task |-> IF state[t] \in Unfinished THEN "Cancelling" ELSE state[t]]
    <2>1. s \in [Task -> States] /\ state' = publish(s, finishedAt)
      BY <1>4 DEF cancel_all, States, Unfinished
    <2>2. /\ state' \in [Task -> States]
          /\ \A u \in Task : state[u] \in Unfinished => state'[u] = "Cancelling"
          /\ \A u \in Task : state[u] \notin Unfinished => state'[u] \in {state[u], "Absent"}
      BY <2>1, PublishFacts DEF Finished
    <2> HIDE DEF s
    <2>3. token' \in [Task -> BOOLEAN]
      BY <1>4 DEF cancel_all
    <2> QED
      BY <1>4, <2>2, <2>3
         DEF cancel_all, OneRunPerTab, TruthfulEntries, ClosedIsEmpty, States,
             Unfinished, Finished
  <1>5. CASE CancelActive
    <2>1. token' \in [Task -> BOOLEAN]
      BY <1>5 DEF CancelActive
    <2> QED
      BY <1>5, <2>1 DEF CancelActive, OneRunPerTab, TruthfulEntries, ClosedIsEmpty,
                        Unfinished, Finished
  <1>6. CASE close
    BY <1>6 DEF close, OneRunPerTab, TruthfulEntries, ClosedIsEmpty, Unfinished, Finished
  <1> QED BY <1>1, <1>2, <1>3, <1>4, <1>5, <1>6

(* Every step of the registry keeps the inductive invariant.                *)
LEMMA InvStep == TasksInv /\ [Next]_vars => TasksInv'
  <1> SUFFICES ASSUME TasksInv, [Next]_vars PROVE TasksInv'
    OBVIOUS
  <1>1. CASE UNCHANGED vars
    BY <1>1 DEF vars, TasksInv, TypeOK, OneRunPerTab, TruthfulEntries, ClosedIsEmpty,
                Executing, Quiet
  <1>2. CASE Next
    BY <1>2, EntriesAloneKeepInv, OneEntryKeepsInv, ManyEntriesKeepInv
       DEF Next, Execution
  <1> QED BY <1>1, <1>2

(* Type correctness and the full inductive invariant of the registry.       *)
THEOREM TasksCorrect == Spec => []TasksInv
  BY InvInit, InvStep, PTL DEF Spec

(* However many tasks race, an existing tab has one active run.             *)
THEOREM TabRunsAreExclusive == Spec => []OneRunPerTab
  <1>1. TasksInv => OneRunPerTab
    BY DEF TasksInv
  <1> QED BY <1>1, TasksCorrect, PTL

(* What the registry shows is what runs: no live execution is lost by the   *)
(* history limit or a dismissal, and no final entry has work behind it.     *)
THEOREM EntriesAreTruthful == Spec => []TruthfulEntries
  <1>1. TasksInv => TruthfulEntries
    BY DEF TasksInv
  <1> QED BY <1>1, TasksCorrect, PTL

(* No execution outlives the close of its runtime.                          *)
THEOREM CloseIsFinal == Spec => []ClosedIsEmpty
  <1>1. TasksInv => ClosedIsEmpty
    BY DEF TasksInv
  <1> QED BY <1>1, TasksCorrect, PTL
(* The move ForwardOnly allows one entry.                                   *)
MovesForward(t) ==
    /\ state[t] = "Running" => state'[t] # "Queued"
    /\ state[t] = "Cancelling" => state'[t] \notin {"Queued", "Running"}
    /\ state[t] \in Finished => state'[t] \in {state[t], "Absent"}
    /\ Executing(t) /\ state[t] = "Absent" => state'[t] = "Absent"

(* What publishing a new table s shows: every entry is the one of s, or a   *)
(* finished one that the limit dropped.                                     *)
LEMMA PublishedMoves ==
    ASSUME NEW s \in [Task -> States], NEW at, state' = publish(s, at),
           \A u \in Task :
              \/ s[u] \in {state[u], "Absent"}
              \/ (~Executing(u) /\ state[u] = "Absent")
              \/ state[u] = "Queued"
              \/ (state[u] \in Unfinished /\ s[u] \in Finished \cup {"Cancelling"})
    PROVE  \A u \in Task : MovesForward(u)
  <1>1. \A u \in Task : state'[u] \in {s[u], "Absent"}
    BY PublishFacts
  <1> QED BY <1>1 DEF MovesForward, Unfinished, Finished

(* Every step of the registry moves every entry forward.                    *)
LEMMA StepsMoveForward ==
    ASSUME TasksInv, [Next]_vars
    PROVE  \A u \in Task : MovesForward(u)
  <1>1. state \in [Task -> States]
    BY DEF TasksInv, TypeOK, States
  <1>2. CASE state' = state
    BY <1>2 DEF MovesForward
  <1>3. ASSUME NEW t \in Task, submit_owned(t), state' # state
        PROVE  \A u \in Task : MovesForward(u)
    <2> DEFINE s == [state EXCEPT ![t] = "Queued"]
    <2>1. s \in [Task -> States] /\ state' = publish(s, finishedAt) /\ exec[t] = "Admitted"
      BY <1>1, <1>3 DEF submit_owned, States, Unfinished
    <2>2. ~Executing(t) /\ state[t] = "Absent"
      BY <2>1 DEF TasksInv, Executing
    <2>3. \A u \in Task \ {t} : s[u] = state[u]
      BY <1>1
    <2> HIDE DEF s
    <2> QED BY <2>1, <2>2, <2>3, PublishedMoves
  <1>4. ASSUME NEW t \in Task, MarkRunning(t) PROVE \A u \in Task : MovesForward(u)
    <2> DEFINE s == [state EXCEPT ![t] = IF @ = "Queued" THEN "Running" ELSE @]
    <2>1. s \in [Task -> States] /\ state' = publish(s, finishedAt)
      BY <1>1, <1>4 DEF MarkRunning, States, Unfinished
    <2>2. \A u \in Task : s[u] = state[u] \/ state[u] = "Queued"
      BY <1>1
    <2> HIDE DEF s
    <2> QED BY <2>1, <2>2, PublishedMoves
  <1>5. ASSUME NEW t \in Task, Record(t) PROVE \A u \in Task : MovesForward(u)
    <2> DEFINE s == [state EXCEPT ![t] = IF @ = "Absent" THEN @ ELSE FinalState(t)]
    <2>1. s \in [Task -> States] /\ state' = publish(s, finishedAt')
      BY <1>1, <1>5 DEF Record, FinalState, States, Finished
    <2>2. state[t] \in Unfinished \/ state[t] = "Absent"
      BY <1>5 DEF Record, TasksInv, TruthfulEntries, Executing
    <2>3. \A u \in Task : \/ s[u] \in {state[u], "Absent"}
                           \/ (state[u] \in Unfinished /\ s[u] \in Finished)
      BY <1>1, <2>2 DEF FinalState, Finished, Unfinished
    <2> HIDE DEF s
    <2> QED BY <2>1, <2>3, PublishedMoves
  <1>6. ASSUME NEW t \in Task, cancel(t) \/ dismiss(t)
        PROVE  \A u \in Task : MovesForward(u)
    <2>1. PICK x \in {"Cancelling", "Absent"} :
             /\ state' = publish([state EXCEPT ![t] = x], finishedAt)
             /\ x = "Cancelling" => state[t] \in Unfinished
      BY <1>6 DEF cancel, dismiss
    <2> DEFINE s == [state EXCEPT ![t] = x]
    <2>2. s \in [Task -> States] /\ state' = publish(s, finishedAt)
      BY <1>1, <2>1 DEF States, Unfinished
    <2>3. \A u \in Task : \/ s[u] \in {state[u], "Absent"}
                           \/ (state[u] \in Unfinished /\ s[u] = "Cancelling")
      BY <1>1, <2>1
    <2> HIDE DEF s
    <2> QED BY <2>2, <2>3, PublishedMoves
  <1>7. ASSUME NEW tab \in Tab, purge_analysis(tab)
        PROVE  \A u \in Task : MovesForward(u)
    <2>1. PICK mine \in SUBSET Task :
             state' = publish([u \in Task |-> IF u \in mine THEN "Absent" ELSE state[u]],
                              finishedAt)
      BY <1>7 DEF purge_analysis
    <2> DEFINE s == [u \in Task |-> IF u \in mine THEN "Absent" ELSE state[u]]
    <2>2. s \in [Task -> States] /\ \A u \in Task : s[u] \in {state[u], "Absent"}
      BY <1>1 DEF States
    <2>3. state' = publish(s, finishedAt)
      BY <2>1
    <2> HIDE DEF s
    <2> QED BY <2>2, <2>3, PublishedMoves
  <1>8. CASE cancel_all
    <2> DEFINE s == [u \in Task |-> IF state[u] \in Unfinished THEN "Cancelling" ELSE state[u]]
    <2>1. s \in [Task -> States] /\ state' = publish(s, finishedAt)
      BY <1>1, <1>8 DEF cancel_all, States, Unfinished
    <2>2. \A u \in Task : s[u] = state[u] \/ (state[u] \in Unfinished /\ s[u] = "Cancelling")
      OBVIOUS
    <2> HIDE DEF s
    <2> QED BY <2>1, <2>2, PublishedMoves
  <1>9. CASE close
    BY <1>9 DEF close, MovesForward
  <1>10. \/ state' = state
         \/ \E t \in Task : submit_owned(t) \/ MarkRunning(t) \/ Record(t) \/ cancel(t) \/ dismiss(t)
         \/ \E tab \in Tab : purge_analysis(tab)
         \/ cancel_all \/ close
    <2>1. ASSUME NEW t \in Task,
                 \/ \E tab \in Tab \cup {NoTab} : Lookup(t, tab)
                 \/ Admit(t) \/ CheckStart(t) \/ EndChild(t) \/ Send(t) \/ DropOperation(t)
                 \/ StartChild(t)
                 \/ \E result \in Results : Finish(t, result)
          PROVE  state' = state
      BY <2>1 DEF Lookup, Admit, CheckStart, EndChild, Send, DropOperation, StartChild, Finish
    <2>2. ASSUME NEW tab \in Tab, DeleteTab(tab) PROVE state' = state
      BY <2>2 DEF DeleteTab
    <2>3. ASSUME BeginClose \/ CancelActive \/ UNCHANGED vars PROVE state' = state
      BY <2>3 DEF BeginClose, CancelActive, vars
    <2> QED BY <2>1, <2>2, <2>3 DEF Next, Execution
  <1> QED BY <1>2, <1>3, <1>4, <1>5, <1>6, <1>7, <1>8, <1>9, <1>10

(* An entry moves forward only, however starts, cancellations, dismissals,  *)
(* deletions and closes race: no state of a task is ever taken back.        *)
THEOREM EntriesMoveForward == Spec => ForwardOnly
  <1>1. TasksInv /\ [Next]_vars => [\A t \in Task : MovesForward(t)]_vars
    BY StepsMoveForward
  <1>2. ASSUME [\A t \in Task : MovesForward(t)]_vars
        PROVE  [\A t \in Task :
                  /\ state[t] = "Running" => state'[t] # "Queued"
                  /\ state[t] = "Cancelling" => state'[t] \notin {"Queued", "Running"}
                  /\ state[t] \in Finished => state'[t] \in {state[t], "Absent"}
                  /\ Executing(t) /\ state[t] = "Absent" => state'[t] = "Absent"]_vars
    BY <1>2 DEF MovesForward
  <1> QED BY <1>1, <1>2, TasksCorrect, PTL DEF Spec, ForwardOnly
=============================================================================
