----------------------------- MODULE TabSettings -----------------------------
(***************************************************************************)
(* Presentation settings of one tab: a window sends the whole settings     *)
(* object with its change merged in (useTabSettings.ts, and the same       *)
(* scheme in frequencySettings.ts), one request at a time, while the tab   *)
(* list that holds the settings is read again in the background; the       *)
(* project keeps the entry `manual' to itself (update_analysis_tab).       *)
(*                                                                         *)
(* A value of an entry is the number of the change that gave it.           *)
(***************************************************************************)
EXTENDS Naturals, Sequences, FiniteSets

CONSTANTS
  Keys,        \* entries of the window
  Manual,      \* the entry of the project
  MaxChanges,  \* bound: changes in the window
  MaxManual,   \* bound: changes of the manual entry
  MaxReads     \* bound: reads of the tab list

KeysAssumption == Manual \notin Keys /\ IsFiniteSet(Keys)
BoundsAssumption == MaxChanges \in Nat /\ MaxManual \in Nat /\ MaxReads \in Nat

VARIABLES
  stored,   \* the settings in the project
  notices,  \* changes announced and not taken up
  cached,   \* the settings in the cached tab list
  fetch,    \* read of the list: Idle, Sent or the answer
  reads,
  queue,    \* the window's requests, oldest first
  phase,    \* of the oldest one: "none", "sent", or "answered"
  answer,
  chosen,   \* chosen[k]: the last change of k in the window
  since,    \* changes made before the last burst of requests began
  failed,   \* a request has failed
  changes,
  manuals

project == <<stored, notices, manuals>>
list == <<cached, fetch, reads>>
requests == <<queue, phase, answer>>
window == <<chosen, since, failed, changes>>
vars == <<project, list, requests, window>>

Entries == Keys \cup {Manual}
Settings == [Entries -> 0..MaxChanges + MaxManual]
Idle == <<>>
Sent == <<"sent">>

\* The settings the next change builds on, and the ones displayed: those of
\* the latest request not yet answered, else the cached ones.
latest == IF queue = <<>> THEN cached ELSE queue[Len(queue)]

\* change(patch): the merged settings join the requests of the tab's scope.
change(k) ==
  /\ changes < MaxChanges
  /\ changes' = changes + 1
  /\ queue' = Append(queue, [latest EXCEPT ![k] = changes + 1])
  /\ chosen' = [chosen EXCEPT ![k] = changes + 1]
  /\ since' = IF queue = <<>> THEN changes ELSE since
  /\ UNCHANGED <<project, list, phase, answer, failed>>

\* The scope lets one request run at a time.
Send ==
  /\ queue # <<>> /\ phase = "none"
  /\ phase' = "sent"
  /\ UNCHANGED <<project, list, queue, answer, window>>

\* update_analysis_tab: the entry of the project stays as it is stored.
update_analysis_tab ==
  /\ phase = "sent"
  /\ stored' = [queue[1] EXCEPT ![Manual] = stored[Manual]]
  /\ answer' = stored' /\ phase' = "answered" /\ notices' = notices + 1
  /\ UNCHANGED <<manuals, list, queue, window>>
Fail ==
  /\ phase = "sent"
  /\ queue' = Tail(queue) /\ phase' = "none"
  /\ failed' = TRUE
  /\ UNCHANGED <<project, list, answer, chosen, since, changes>>

\* onSuccess: the answer's settings replace the cached ones.
Saved ==
  /\ phase = "answered"
  /\ cached' = answer
  /\ queue' = Tail(queue) /\ phase' = "none"
  /\ UNCHANGED <<project, fetch, reads, answer, window>>

\* Manual coding stores its entry; the change is announced.
StoreManual ==
  /\ manuals < MaxManual
  /\ manuals' = manuals + 1
  /\ stored' = [stored EXCEPT ![Manual] = @ + 1] /\ notices' = notices + 1
  /\ UNCHANGED <<list, requests, window>>

\* The observer, or anything that invalidates the list, reads it again.
refreshProjectQueries ==
  /\ notices > 0
  /\ notices' = 0
  /\ fetch' = Sent
  /\ UNCHANGED <<stored, manuals, cached, reads, requests, window>>
Invalidate ==
  /\ reads < MaxReads
  /\ reads' = reads + 1
  /\ fetch' = Sent
  /\ UNCHANGED <<project, cached, requests, window>>
Read ==
  /\ fetch = Sent
  /\ fetch' = <<"answer", stored>>
  /\ UNCHANGED <<project, cached, reads, requests, window>>
Deliver ==
  /\ fetch \notin {Idle, Sent}
  /\ cached' = fetch[2] /\ fetch' = Idle
  /\ UNCHANGED <<project, reads, requests, window>>

Init ==
  /\ stored = [k \in Entries |-> 0] /\ notices = 0 /\ manuals = 0
  /\ cached = stored /\ fetch = Idle /\ reads = 0
  /\ queue = <<>> /\ phase = "none" /\ answer = stored
  /\ chosen = [k \in Keys |-> 0] /\ since = 0 /\ failed = FALSE /\ changes = 0

Next ==
  \/ \E k \in Keys : change(k)
  \/ Send \/ update_analysis_tab \/ Fail \/ Saved \/ StoreManual
  \/ refreshProjectQueries \/ Invalidate \/ Read \/ Deliver

Spec == Init /\ [][Next]_vars

(* ------------------------------ properties ------------------------------ *)

TypeOK ==
  /\ stored \in Settings /\ notices \in 0..MaxChanges + MaxManual /\ manuals \in 0..MaxManual
  /\ cached \in Settings /\ reads \in 0..MaxReads
  /\ fetch \in {Idle, Sent} \cup {<<"answer", s>> : s \in Settings}
  /\ queue \in Seq(Settings) /\ Len(queue) <= MaxChanges
  /\ phase \in {"none", "sent", "answered"} /\ (phase # "none" => queue # <<>>) /\ answer \in Settings
  /\ chosen \in [Keys -> 0..MaxChanges] /\ since \in 0..MaxChanges /\ failed \in BOOLEAN /\ changes \in 0..MaxChanges

Quiet == notices = 0 /\ fetch = Idle /\ queue = <<>>

\* Choices made while earlier ones are being saved build on them: when every
\* request has succeeded, all choices of the last such burst are stored,
\* however its requests and the reads of the list interleave.
BurstKept == Quiet /\ ~failed => \A k \in Keys : chosen[k] > since => stored[k] = chosen[k]

\* The project's own entry follows only the project, whatever stale copy of
\* it the window sends back.
ManualKept == stored[Manual] = manuals

\* When nothing is under way the window shows its entries as they are stored.
ShownIsStored == Quiet => \A k \in Keys : cached[k] = stored[k]

\* A request makes at most one announcement, and carries every choice of its
\* burst; its answer is what the project holds.
RequestsCounted ==
  /\ Len(queue) <= changes /\ since <= changes /\ \A k \in Keys : chosen[k] <= changes
  /\ notices + Len(queue) <= changes + manuals + (IF phase = "answered" THEN 1 ELSE 0)
LastRequest ==
  ~failed => \A k \in Keys : chosen[k] > since =>
               chosen[k] = IF queue = <<>> THEN stored[k] ELSE queue[Len(queue)][k]
AnswerIsStored ==
  phase = "answered" => \A k \in Keys : answer[k] = stored[k] /\ queue[1][k] = stored[k]

\* A change that is not announced any more has been read, or is about to be.
ReadsFollow ==
  notices = 0 => \A k \in Keys :
    /\ fetch = Idle => cached[k] = stored[k]
    /\ fetch \notin {Idle, Sent} => fetch[2][k] = stored[k]

\* Inductive.
TabSettingsInv ==
  /\ TypeOK /\ RequestsCounted /\ LastRequest /\ AnswerIsStored /\ ReadsFollow
  /\ BurstKept /\ ManualKept /\ ShownIsStored

\* frequencySettings.ts: "Request and result controls share serialized,
\* optimistic presentation updates": no choice is undone by a later one of
\* another entry.
\* Not kept in every order of events: see the README, section 5.
NoChoiceLost == Quiet /\ ~failed => \A k \in Keys : stored[k] = chosen[k]
=============================================================================
