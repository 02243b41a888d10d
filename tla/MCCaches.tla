------------------------------ MODULE MCCaches ------------------------------
(***************************************************************************)
(* What a window keeps of a project and reconciles with it: the names in   *)
(* drafts and stores, the output of an analysis, the list of tabs and the  *)
(* settings of a tab.  The models share no state, so each behaviour here   *)
(* runs one of them and the others stay in their initial state.            *)
(*                                                                         *)
(* Two tables that can trade names over a third one; two analyses of a     *)
(* tab; two tabs, two mutations of the window and one of another; two      *)
(* entries changed three times in all.                                     *)
(***************************************************************************)
EXTENDS Naturals, Sequences, TLC

CONSTANTS Tables, Names, Columns, First, Local, t1, a, b, x, MaxRenames, MaxPicks, MaxVisits, None,
          MaxRuns, MaxClears, MaxElsewhere, MaxActs,
          MaxTabs, MaxCalls,
          Keys, Manual, MaxChanges, MaxManual, MaxReads,
          Parts  \* the components that are checked

VARIABLES
  part, \* the component that runs
  catalogue, renames, waiting, next, receipts, graph, workspaceBase, draft, mark,
  picks, visits,
  tab, running, mine, others, events, pending, stage, scope, prior, waits, list,
  listFetch, output, stale, outFetch, displayed, clear, clears, absent,
  rows, created, commits, elsewhere, notices, refreshing, shown, seen, fetch, calls,
  mounted, watched, active, editing, checked, autos, outdated,
  stored, announced, cached, listRead, reads, queue, phase, answer, chosen, since,
  failed, changes, manuals

names == <<catalogue, renames, waiting, next, receipts, graph, workspaceBase, draft, mark,
           picks, visits>>
outputs == <<tab, running, mine, others, events, pending, stage, scope, prior, waits, list,
             listFetch, output, stale, outFetch, displayed, clear, clears, absent>>
tabs == <<rows, created, commits, elsewhere, notices, refreshing, shown, seen, fetch, calls,
          mounted, watched, active, editing, checked, autos, outdated>>
settings == <<stored, announced, cached, listRead, reads, queue, phase, answer, chosen, since,
              failed, changes, manuals>>
vars == <<part, names, outputs, tabs, settings>>

MCFirst == [t \in Tables |-> [name |-> IF t = t1 THEN a ELSE b, column |-> x]]
Names_ == INSTANCE Renames
Output_ == INSTANCE SavedOutput WITH active <- displayed
Tabs_ == INSTANCE TabList WITH list <- shown
Settings_ == INSTANCE TabSettings WITH notices <- announced, fetch <- listRead

ASSUME CachesAssumption ==
  /\ Names_!CatalogueAssumption /\ Names_!BoundsAssumption /\ Output_!BoundsAssumption
  /\ Tabs_!BoundsAssumption /\ Settings_!KeysAssumption /\ Settings_!BoundsAssumption

Init ==
  /\ part \in Parts
  /\ Names_!Init /\ Output_!Init /\ Tabs_!Init /\ Settings_!Init

Next ==
  /\ UNCHANGED part
  /\ \/ part = "names" /\ Names_!Next /\ UNCHANGED <<outputs, tabs, settings>>
     \/ part = "output" /\ Output_!Next /\ UNCHANGED <<names, tabs, settings>>
     \/ part = "tabs" /\ Tabs_!Next /\ UNCHANGED <<names, outputs, settings>>
     \/ part = "settings" /\ Settings_!Next /\ UNCHANGED <<names, outputs, tabs>>

Spec == Init /\ [][Next]_vars

\* References to which renames are applied in the order of their commits name
\* what the user chose, however often and by whichever way each rename was
\* delivered, and are up to date once everything has arrived
\* (reconcileRenames.ts, renameReferences.ts).
ReferencesFollow ==
  part = "names" => Names_!RenamesInv

\* An analysis known to be empty does not get its output back from an older
\* read, a failed Clear or a cancelled read leaves no panel without its
\* output, and nothing that was cleared is shown (savedAnalysis.ts,
\* projectChanges.ts, analyses.rs).
OutputIsTrue ==
  part = "output" => Output_!SavedOutputInv

\* Visiting an empty tool creates one tab, and the list becomes the project's
\* once nothing is under way, unless an answer was overtaken or a create
\* stopped a read; a burst of choices in a tab is stored whole, the project's
\* own entry is never overwritten by a stale copy, and what is shown is what is
\* stored (Tabs.tsx, useTabSettings.ts, analyses.rs).
TabsSettle ==
  /\ part = "tabs" => Tabs_!TabListInv
  /\ part = "settings" => Settings_!TabSettingsInv
=============================================================================
