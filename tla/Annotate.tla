------------------------------ MODULE Annotate ------------------------------
(***************************************************************************)
(* An Annotation run (submit_annotation in annotation_execution.rs, Run in *)
(* annotation/execution.rs, predict_batches in ai/inference.rs): it        *)
(* reserves its table, captures the eligible rows and their distinct       *)
(* texts, asks a provider about them in windows of concurrent batches,     *)
(* commits every batch as it completes and publishes a report.             *)
(*                                                                         *)
(* The reservation excludes other writes (Protection); the tab may still   *)
(* be deleted or cleared, and the process may exit between two commits.    *)
(* Users label rows only between runs, which gives the next one another    *)
(* column to start from: that is what Unlabelled and an earlier run do.    *)
(***************************************************************************)
EXTENDS Naturals, Sequences, FiniteSets, SequencesExt

CONSTANTS
  Rows,
  Texts,
  Blank,     \* a missing document
  Text,      \* the document of each row
  Unlabelled,  \* rows without a label at first
  Null,      \* a missing label, which a provider may answer as well
  Manual,    \* a label that a user has written
  Codes,     \* of the Codebook
  Requests,  \* what a run is asked for
  Unknown,
  MaxRuns    \* bound: runs

AnnotateAssumption ==
  /\ IsFiniteSet(Rows) /\ IsFiniteSet(Texts) /\ Blank \notin Texts
  /\ Text \in [Rows -> Texts \cup {Blank}] /\ Unlabelled \subseteq Rows
  /\ Requests \subseteq [processing : {"All", "Missing"}, batch_size : Nat \ {0},
                         concurrency : Nat \ {0}, retries : Nat]
  /\ {Null, Manual, Unknown} \cap Codes = {} /\ Unknown \notin {Null, Manual}
  /\ MaxRuns \in Nat

VARIABLES
  tab,       \* kept or deleted
  analysis,  \* the row of wordflow.analyses: the run it is of, and its report
  label,     \* the annotation column
  run,       \* the task
  runs

project == <<tab, analysis, label>>
vars == <<project, run, runs>>

NoAnalysis == [run |-> 0, report |-> Unknown]
Silent == [t \in Texts |-> Unknown]
\* before and said are history: the labels at the capture, and what the
\* provider has said about each text since.
NoRun == [phase |-> "idle", cancelled |-> FALSE, request |-> Unknown, eligible |-> {},
          inputs |-> <<>>, after |-> 0, jobs |-> <<>>, staged |-> 0,
          predictions |-> [t \in Texts |-> "none"], processed |-> 0, failed |-> 0,
          before |-> [r \in Rows |-> Unknown], said |-> Silent]
Success == Codes \cup {Null}

Go(phase) == run' = [run EXCEPT !.phase = phase]
\* An error or an interruption.  Whatever has been committed stays.
End == run' = NoRun
\* A blocking step of the task starts with check_cancelled.
Unless(broken, step) == IF run.cancelled \/ broken THEN End ELSE step

(* ------------------------------ the database ---------------------------- *)

\* A transaction that has claimed the tab excludes others that claim it.
Claimed == run.phase \in {"claimed", "publishing"}

(* ------------------------------- the task ------------------------------- *)

submit_annotation(request) ==
  /\ run.phase = "idle" /\ tab = "kept" /\ runs < MaxRuns
  /\ run' = [run EXCEPT !.phase = "queued", !.request = request] /\ runs' = runs + 1
  /\ UNCHANGED project

\* Protection::analysis and ready.  An editor in the way refuses the run.
Reserve ==
  /\ run.phase = "queued" /\ (Unless(FALSE, Go("reserved")) \/ End)
  /\ UNCHANGED <<project, runs>>

begin_analysis_run ==
  /\ run.phase = "reserved"
  /\ Unless(tab = "deleted", Go("begun"))
  /\ analysis' = IF run'.phase = "begun" THEN [run |-> runs, report |-> Unknown] ELSE analysis
  /\ UNCHANGED <<tab, label, runs>>

Eligible(r) ==
  Text[r] # Blank /\ (run.request.processing = "Missing" => label[r] = Null)

\* The order of the distinct texts is the database's.
capture ==
  /\ run.phase = "begun"
  /\ LET rows == {r \in Rows : Eligible(r)}
     IN  \E inputs \in SetToSeqs({Text[r] : r \in rows}) :
           Unless(tab = "deleted",
                  run' = [NoRun EXCEPT !.phase = "captured", !.request = run.request,
                                       !.eligible = rows, !.inputs = inputs, !.before = label])
  /\ UNCHANGED <<project, runs>>

\* The connection may be gone or its key unreadable.
prepare_inference ==
  /\ run.phase = "captured" /\ (Go("next") \/ End)
  /\ UNCHANGED <<project, runs>>

\* A window holds as many batches as may run at once.
Least(a, b) == IF a < b THEN a ELSE b
Job(from, to) ==
  [offset |-> from, todo |-> << <<0, to - from>> >>, at |-> "ready", tries |-> 0,
   out |-> [i \in 1..to - from |-> "none"]]
next ==
  /\ run.phase = "next"
  /\ LET size == run.request.batch_size
         last == Least(Len(run.inputs), run.after + size * run.request.concurrency)
         batches == (last - run.after + size - 1) \div size
     IN  Unless(FALSE,
           IF batches = 0 THEN Go("publish")
           ELSE run' = [run EXCEPT !.phase = "predict", !.after = last,
                  !.jobs = [j \in 1..batches |->
                              Job(run.after + (j - 1) * size, Least(last, run.after + j * size))]])
  /\ UNCHANGED <<project, runs>>

(* ------------------------------ predictions ----------------------------- *)

\* The jobs are polled only while the task waits for the next batch.
Polled(j, at) == run.phase = "predict" /\ j \in DOMAIN run.jobs /\ run.jobs[j].at = at

Position(t) == CHOOSE i \in DOMAIN run.inputs : run.inputs[i] = t
Start(j) == Last(run.jobs[j].todo)[1]
Stop(j) == Last(run.jobs[j].todo)[2]
Size(j) == Stop(j) - Start(j)
Asked(j) == {run.inputs[run.jobs[j].offset + i] : i \in Start(j) + 1..Stop(j)}

\* The next range of the batch is sent.
Send(j) ==
  /\ Polled(j, "ready") /\ run.jobs[j].todo # <<>>
  /\ Unless(FALSE, run' = [run EXCEPT !.jobs[j].at = "sent", !.jobs[j].tries = 0])
  /\ UNCHANGED <<project, runs>>

\* What the provider says of the range, in its order.
Answer(j) ==
  /\ Polled(j, "sent")
  /\ \E answer \in [1..Size(j) -> Success] :
       /\ run' = [run EXCEPT !.jobs[j].at = "ready", !.jobs[j].todo = Front(@),
                    !.jobs[j].out = [i \in DOMAIN @ |-> IF i \in Start(j) + 1..Stop(j)
                                                        THEN answer[i - Start(j)] ELSE @[i]],
                    !.said = [t \in Texts |-> IF t \in Asked(j)
                                THEN answer[Position(t) - run.jobs[j].offset - Start(j)] ELSE @[t]]]
  /\ UNCHANGED <<project, runs>>

\* What becomes of a range whose request has failed.
FailureKinds == {"Fatal", "Transient", "Response", "Context", "Timeout"}
Again(j, kind) == kind \in {"Transient", "Response"} /\ run.jobs[j].tries < run.request.retries
Middle(j) == Start(j) + Size(j) \div 2
Heard(j, kind) ==
  [run EXCEPT !.said = [t \in Texts |-> IF kind = "Timeout" /\ t \in Asked(j) THEN "timeout" ELSE @[t]]]
Settle(j, kind) ==
  IF kind \notin {"Context", "Response"} THEN End
  ELSE IF Size(j) > 1
       THEN run' = [Heard(j, kind) EXCEPT !.jobs[j].at = "ready",
              !.jobs[j].todo = Front(@) \o << <<Middle(j), Stop(j)>>, <<Start(j), Middle(j)>> >>]
       ELSE run' = [Heard(j, kind) EXCEPT !.jobs[j].at = "ready", !.jobs[j].todo = Front(@),
              !.jobs[j].out[Start(j) + 1] = "failed"]
Refuse(j, kind) ==
  /\ Polled(j, "sent")
  /\ IF Again(j, kind) THEN run' = [Heard(j, kind) EXCEPT !.jobs[j].tries = @ + 1] ELSE Settle(j, kind)
  /\ UNCHANGED <<project, runs>>

\* A cancelled request, or one that sleeps before its retry, is abandoned.
Abandon(j) ==
  /\ Polled(j, "sent") /\ run.cancelled /\ End
  /\ UNCHANGED <<project, runs>>

\* A batch without anything left is handed to the task, in any order.
Complete(j) ==
  /\ Polled(j, "ready") /\ run.jobs[j].todo = <<>>
  /\ IF \E i \in DOMAIN run.jobs[j].out : run.jobs[j].out[i] = "none" THEN End
     ELSE run' = [run EXCEPT !.phase = "staging", !.staged = j, !.jobs[j].at = "done"]
  /\ UNCHANGED <<project, runs>>

WindowEnds ==
  /\ run.phase = "predict" /\ \A j \in DOMAIN run.jobs : run.jobs[j].at = "done"
  /\ run' = [run EXCEPT !.phase = "next", !.jobs = <<>>]
  /\ UNCHANGED <<project, runs>>

(* ------------------------------ publication ----------------------------- *)

Claim(from, to) ==
  /\ run.phase = from /\ Unless(tab = "deleted", Go(to))
  /\ UNCHANGED <<project, runs>>

\* The prediction that belongs to each text of the staged batch.
Batch == LET job == run.jobs[run.staged]
         IN  [t \in {run.inputs[job.offset + i] : i \in DOMAIN job.out} |-> job.out[Position(t) - job.offset]]
Count(outcomes) ==
  Cardinality({r \in run.eligible : Text[r] \in DOMAIN Batch /\ Batch[Text[r]] \in outcomes})
Bug_Written ==
  [r \in Rows |-> IF Text[r] \in DOMAIN Batch /\ Batch[Text[r]] # "failed" THEN Batch[Text[r]] ELSE label[r]]
Written ==
  [r \in Rows |-> IF r \in run.eligible /\ Text[r] \in DOMAIN Batch /\ Batch[Text[r]] # "failed"
                  THEN Batch[Text[r]] ELSE label[r]]
stage ==
  /\ run.phase = "claimed"
  /\ Unless(FALSE,
       run' = [run EXCEPT !.phase = "predict", !.processed = @ + Count(Success), !.failed = @ + Count({"failed"}),
                 !.predictions = [t \in Texts |-> IF t \in DOMAIN Batch THEN Batch[t] ELSE @[t]]])
  /\ label' = IF run'.phase = "idle" THEN label ELSE Written
  /\ UNCHANGED <<tab, analysis, runs>>

Skipped == {r \in Rows : Text[r] = Blank}
\* The accepted analysis has to be there still, without a result.
publish ==
  /\ run.phase = "publishing" /\ End
  /\ analysis' =
       IF run.cancelled \/ analysis # [run |-> runs, report |-> Unknown] THEN analysis
       ELSE [analysis EXCEPT !.report =
              [processed |-> run.processed, failed |-> run.failed, skipped |-> Cardinality(Skipped),
               preserved |-> Cardinality(Rows) - Cardinality(run.eligible) - Cardinality(Skipped)]]
  /\ UNCHANGED <<tab, label, runs>>

(* ------------------------------- the others ----------------------------- *)

delete_analysis_tab ==
  /\ tab = "kept" /\ ~Claimed
  /\ tab' = "deleted" /\ analysis' = NoAnalysis
  /\ UNCHANGED <<label, run, runs>>
\* Afterwards its task is cancelled.
purge_analysis ==
  /\ tab = "deleted" /\ run.phase # "idle" /\ ~run.cancelled
  /\ run' = [run EXCEPT !.cancelled = TRUE]
  /\ UNCHANGED <<project, runs>>

\* It looks for an active run before it is admitted: one may have begun since.
clear_analysis_tab ==
  /\ tab = "kept" /\ ~Claimed
  /\ analysis' = [analysis EXCEPT !.report = Unknown]
  /\ UNCHANGED <<tab, label, run, runs>>

cancel ==
  /\ run.phase # "idle" /\ ~run.cancelled /\ run' = [run EXCEPT !.cancelled = TRUE]
  /\ UNCHANGED <<project, runs>>

\* The database fails, or the process ends.
Exit ==
  /\ run.phase # "idle" /\ End
  /\ UNCHANGED <<project, runs>>

Init ==
  /\ tab = "kept" /\ analysis = NoAnalysis /\ run = NoRun
  /\ label = [r \in Rows |-> IF r \in Unlabelled THEN Null ELSE Manual]
  /\ runs = 0

Answered == \E j \in DOMAIN run.jobs :
  \/ Answer(j)
  \/ \E kind \in FailureKinds : Refuse(j, kind)
  \/ Abandon(j)
Step ==
  \/ Reserve \/ begin_analysis_run \/ capture \/ prepare_inference \/ next \/ Answered \/ WindowEnds
  \/ \E j \in DOMAIN run.jobs : Send(j) \/ Complete(j)
  \/ Claim("staging", "claimed") \/ stage \/ Claim("publish", "publishing") \/ publish
Next ==
  \/ \E request \in Requests : submit_annotation(request)
  \/ Step \/ delete_analysis_tab \/ purge_analysis \/ clear_analysis_tab \/ cancel \/ Exit

\* A request is answered, refused or runs into its timeout of 300 seconds.
Spec == Init /\ [][Next]_vars
FairSpec == Spec /\ WF_vars(Step)

(* ------------------------------ properties ------------------------------ *)

Phases == {"idle", "queued", "reserved", "begun", "captured", "next", "predict", "staging",
           "claimed", "publish", "publishing"}
TypeOK ==
  /\ tab \in {"kept", "deleted"} /\ analysis.run \in 0..runs /\ runs \in 0..MaxRuns
  /\ label \in [Rows -> Codes \cup {Null, Manual}] /\ run.before \in [Rows -> Codes \cup {Null, Manual, Unknown}]
  /\ run.phase \in Phases /\ run.cancelled \in BOOLEAN
  /\ run.eligible \subseteq Rows /\ run.inputs \in Seq(Texts) 
  /\ run.predictions \in [Texts -> Success \cup {"none", "failed"}]
  /\ run.said \in [Texts -> Success \cup {Unknown, "timeout"}]
  /\ run.phase # "idle" => run.request \in Requests

\* From the capture to the end of a run the column holds what the
\* provider said about the row's own text for the eligible rows of the batches
\* that were committed, and what it held before for all others: rows whose
\* prediction failed, rows that had a label when only missing ones were asked
\* for, rows that share the text of an eligible one (execution.rs, inference.rs).
Labelled(t) == run.predictions[t] \in Success
LabelsAreAnswers ==
  run.inputs # <<>> =>
    \A r \in Rows :
      label[r] = IF r \in run.eligible /\ Labelled(Text[r]) THEN run.said[Text[r]] ELSE run.before[r]

\* A report that is published is complete: every eligible text has an outcome,
\* and its four counts are those of the rows and add up to the table.
Outcomes(kinds) == Cardinality({r \in run.eligible : run.predictions[Text[r]] \in kinds})
IsTrue(report) ==
  /\ report.processed = Outcomes(Success) /\ report.failed = Outcomes({"failed"})
  /\ report.processed + report.failed = Cardinality(run.eligible)
  /\ report.processed + report.failed + report.skipped + report.preserved = Cardinality(Rows)
ReportIsTrue ==
  [][analysis'.report \notin {analysis.report, Unknown} => IsTrue(analysis'.report)]_vars

\* No text is sent that the run has an answer about, or about which a request
\* of its has timed out (inference.rs: "A timeout may already have incurred
\* inference. Never retry or split it.").  No two batches ask the same.
AskedOnce ==
  \A j \in DOMAIN run.jobs : run.jobs[j].at = "sent" =>
    /\ \A t \in Asked(j) : run.said[t] = Unknown
    /\ \A k \in DOMAIN run.jobs \ {j} : run.jobs[k].at = "sent" => Asked(j) \cap Asked(k) = {}

\* Once its tab has been deleted a run commits nothing: neither labels nor a
\* report, though the cancellation follows the deletion.
NothingAfterDelete ==
  [][tab = "deleted" /\ run.phase # "idle" => label' = label /\ analysis' = NoAnalysis]_vars

\* Every run ends, whatever the provider does.
RunEnds == []<>(run.phase = "idle")
=============================================================================
