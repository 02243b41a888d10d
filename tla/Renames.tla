------------------------------ MODULE Renames -------------------------------
(***************************************************************************)
(* How a window's references to tables and columns follow renames.  A      *)
(* rename reaches the window twice, in the answer to the request that made *)
(* it and as an event of the project's stream; both enter                  *)
(* reconcileProjectRenames, which tells the copies apart by change id.     *)
(* Renames made by other windows arrive as events only.  The names the     *)
(* user chooses from come from the graph query, which is refetched at its  *)
(* own pace and prunes what it does not list.                              *)
(*                                                                         *)
(* draft stands for the source of an unsaved analysis request, which names *)
(* a table and a column; mark for the window's unscoped references to a    *)
(* table (selection, pins, preview, inputs, view and graph state).  Names  *)
(* are compared after case folding.                                        *)
(***************************************************************************)
EXTENDS Naturals, Sequences, FiniteSets

CONSTANTS
  Tables,      \* tables, whatever their names
  Names,       \* names tables may have
  Columns,     \* names the column of a table may have
  First,       \* the names at the start
  Local,       \* TRUE: this window renames too
  MaxRenames,  \* bound: renames committed
  MaxPicks,    \* bound: references the user chooses
  MaxVisits,   \* bound: times the project is left
  None         \* nothing referenced

Entry == [name : Names, column : Columns]
Catalogue == {c \in [Tables -> Entry] : \A s, t \in Tables : c[s].name = c[t].name => s = t}

CatalogueAssumption == IsFiniteSet(Tables) /\ First \in Catalogue /\ Local \in BOOLEAN
BoundsAssumption == MaxRenames \in Nat /\ MaxPicks \in Nat /\ MaxVisits \in Nat

VARIABLES
  catalogue,     \* every catalogue the project has had, oldest first
  renames,       \* renames[k]: the change that led from catalogue k to k + 1
  waiting,       \* renames of this window whose answer has not arrived
  next,          \* next rename the event stream delivers
  receipts,      \* change ids already reconciled
  graph,         \* the catalogue the graph query shows
  workspaceBase, \* the project's workspace is mounted
  draft,         \* source of an unsaved request, or None
  mark,          \* a workspace reference while mounted, its captured copy otherwise
  picks, visits

vars == <<catalogue, renames, waiting, next, receipts, graph, workspaceBase, draft, mark, picks, visits>>

Rename == [type : {"table", "column"}, source : Names, before : Names \cup Columns,
           after : Names \cup Columns]
\* A reference.  The other fields are history: the table the user chose, the
\* catalogue the name is taken from, whether the graph then showed just what
\* had been reconciled, and whether every rename since was applied in the order
\* of the commits.
Ref == [name : Names, column : Columns, of : Tables, at : 1..MaxRenames + 1,
        fresh : BOOLEAN, ordered : BOOLEAN]

Commits == Len(renames)

\* The stream has never delivered, and no answer or graph has shown, a rename
\* that was not committed.
TypeOK ==
  /\ catalogue \in Seq(Catalogue) /\ Len(catalogue) = Commits + 1 /\ Commits <= MaxRenames
  /\ renames \in Seq(Rename)
  /\ waiting \subseteq 1..Commits /\ next \in 1..Commits + 1
  /\ receipts \subseteq 1..Commits /\ graph \in 1..Commits + 1
  /\ workspaceBase \in BOOLEAN
  /\ draft \in Ref \cup {None} /\ mark \in Ref \cup {None}
  /\ (workspaceBase => receipts \cup waiting \cup next..Commits = 1..Commits) \/ visits > 0
  /\ picks \in 0..MaxPicks /\ visits \in 0..MaxVisits

Init ==
  /\ catalogue = <<First>> /\ renames = <<>>
  /\ waiting = {} /\ next = 1 /\ receipts = {} /\ graph = 1
  /\ workspaceBase = TRUE
  /\ draft = None /\ mark = None
  /\ picks = 0 /\ visits = 0

(* ----------------------------- the backend ------------------------------ *)

\* rename_node and change_column: commit and announce under the change's id.
\* The server resolves the name the request gives; a window sends the name its
\* graph shows.
Commit(t, change, here) ==
  LET now == catalogue[Commits + 1]
  IN  /\ Commits < MaxRenames
      /\ renames' = Append(renames, change)
      /\ catalogue' = Append(catalogue,
           [now EXCEPT ![t] = IF change.type = "table" THEN [@ EXCEPT !.name = change.after]
                                                      ELSE [@ EXCEPT !.column = change.after]])
      /\ IF here
           THEN /\ Local /\ workspaceBase
                /\ \E s \in Tables : catalogue[graph][s].name = now[t].name
                /\ waiting' = waiting \cup {Commits + 1}
           ELSE UNCHANGED waiting
      /\ UNCHANGED <<next, receipts, graph, workspaceBase, draft, mark, picks, visits>>

renameNode(t, n, here) ==
  LET now == catalogue[Commits + 1]
  IN  /\ \A s \in Tables : now[s].name # n
      /\ Commit(t, [type |-> "table", source |-> now[t].name, before |-> now[t].name, after |-> n], here)

changeColumn(t, c, here) ==
  LET now == catalogue[Commits + 1]
  IN  /\ now[t].column # c
      /\ Commit(t, [type |-> "column", source |-> now[t].name, before |-> now[t].column, after |-> c], here)

(* ---------------------------- reconciliation ---------------------------- *)

\* The history of a reference when rename k is applied to it.
Track(ref, k) ==
  IF k \in receipts THEN ref
  ELSE IF ref.at = k THEN [ref EXCEPT !.at = k + 1]
  ELSE [ref EXCEPT !.ordered = FALSE]

\* renameInput: only a reference to the renamed source changes.
renameInput(ref, r) ==
  IF ref.name # r.source THEN ref
  ELSE IF r.type = "table" THEN [ref EXCEPT !.name = r.after]
  ELSE IF ref.column = r.before THEN [ref EXCEPT !.column = r.after] ELSE ref

\* The workspace stores know tables only; columns reach them by other ways.
renameMark(ref, r) ==
  IF r.type = "table" /\ ref.name = r.source THEN [ref EXCEPT !.name = r.after] ELSE ref

reconcileAnalysisDrafts(k) ==
  draft' = IF draft = None THEN None ELSE Track(renameInput(draft, renames[k]), k)
reconcileWorkspace(k) ==
  mark' = IF mark = None THEN None ELSE Track(renameMark(mark, renames[k]), k)

\* reconcileProjectRenames, entered by both deliveries.
Bug_reconcileProjectRenames(k) ==
  /\ receipts' = receipts \cup {k}
  /\ reconcileAnalysisDrafts(k)
  /\ IF workspaceBase THEN reconcileWorkspace(k) ELSE UNCHANGED mark
reconcileProjectRenames(k) ==
  IF k \in receipts THEN UNCHANGED <<receipts, draft, mark>>
  ELSE /\ receipts' = receipts \cup {k}
       /\ reconcileAnalysisDrafts(k)
       /\ IF workspaceBase THEN reconcileWorkspace(k) ELSE UNCHANGED mark

\* The answer to a rename of this window, also after its project was left.
Response(k) ==
  /\ k \in waiting
  /\ waiting' = waiting \ {k}
  /\ reconcileProjectRenames(k)
  /\ UNCHANGED <<catalogue, renames, next, graph, workspaceBase, picks, visits>>

\* The next event of the stream, which a mounted workspace subscribes to.
Event ==
  /\ workspaceBase /\ next <= Commits
  /\ next' = next + 1
  /\ reconcileProjectRenames(next)
  /\ UNCHANGED <<catalogue, renames, waiting, graph, workspaceBase, picks, visits>>

(* ------------------------------ the window ------------------------------ *)

Listed(g) == {catalogue[g][t].name : t \in Tables}
\* The effect on graph data drops references to names that are not listed.
retain(ref, g) == IF ref # None /\ ref.name \notin Listed(g) THEN None ELSE ref

\* The graph is refetched: for an event, for another query's sake, on focus.
Refetch ==
  /\ workspaceBase /\ graph # Commits + 1
  /\ graph' = Commits + 1
  /\ mark' = retain(mark, Commits + 1)
  /\ UNCHANGED <<catalogue, renames, waiting, next, receipts, workspaceBase, draft, picks, visits>>

\* The user chooses a listed table, for a request or for the workspace.
Pick(t) == [name |-> catalogue[graph][t].name, column |-> catalogue[graph][t].column, of |-> t,
            at |-> graph, fresh |-> receipts = 1..graph - 1, ordered |-> receipts = 1..graph - 1]
setDraft(t) ==
  /\ workspaceBase /\ picks < MaxPicks /\ picks' = picks + 1
  /\ draft' = Pick(t)
  /\ UNCHANGED <<catalogue, renames, waiting, next, receipts, graph, workspaceBase, mark, visits>>
toggleNode(t) ==
  /\ workspaceBase /\ picks < MaxPicks /\ picks' = picks + 1
  /\ mark' = Pick(t)
  /\ UNCHANGED <<catalogue, renames, waiting, next, receipts, graph, workspaceBase, draft, visits>>

\* Another project is selected: the workspace is captured and unmounted.
Leave ==
  /\ workspaceBase /\ visits < MaxVisits
  /\ visits' = visits + 1 /\ workspaceBase' = FALSE
  /\ UNCHANGED <<catalogue, renames, waiting, next, receipts, graph, draft, mark, picks>>

\* It is selected again: the captured copy is restored and pruned by the graph
\* still cached.  The new stream opens with a reset, not with what was missed.
Return ==
  /\ ~workspaceBase /\ workspaceBase' = TRUE
  /\ next' = Commits + 1
  /\ mark' = retain(mark, graph)
  /\ UNCHANGED <<catalogue, renames, waiting, receipts, graph, draft, picks, visits>>

Next ==
  \/ \E t \in Tables, n \in Names, here \in BOOLEAN : renameNode(t, n, here)
  \/ \E t \in Tables, c \in Columns, here \in BOOLEAN : changeColumn(t, c, here)
  \/ \E k \in waiting : Response(k)
  \/ Event
  \/ Refetch
  \/ \E t \in Tables : setDraft(t)
  \/ \E t \in Tables : toggleNode(t)
  \/ Leave
  \/ Return

Spec == Init /\ [][Next]_vars

(* ------------------------------ properties ------------------------------ *)

Names_it(ref) == ref.name = catalogue[ref.at][ref.of].name

\* A draft to which renames were applied in the order of their commits names,
\* at every moment, the table and the column the user chose, however often and
\* by whichever way each rename was delivered, cycles of renames included
\* (reconcileProjectRenames, renameInput).
DraftFollows ==
  draft # None /\ draft.ordered => Names_it(draft) /\ draft.column = catalogue[draft.at][draft.of].column

\* So does a reference of the mounted workspace: it never comes to name a table
\* other than the one chosen (reconcileProjectRenames, renameMark).
MarkFollows == mark # None /\ mark.ordered => Names_it(mark)

\* When the stream and all answers have been delivered and the project was
\* never left, every ordered reference is up to date: no delivery was wasted
\* on a receipt that was not followed by its effect.
Settled == workspaceBase /\ visits = 0 /\ waiting = {} /\ next = Commits + 1
UpToDate ==
  Settled => \A ref \in {draft, mark} \ {None} : ref.ordered => ref.at = Commits + 1

\* A rename leads from one catalogue to the next.
Leads(k, t) ==
  LET r == renames[k]
      old == catalogue[k][t]
  IN  /\ r.source = old.name /\ r.before = IF r.type = "table" THEN old.name ELSE old.column
      /\ catalogue[k + 1] = [catalogue[k] EXCEPT ![t] =
           [name |-> IF r.type = "table" THEN r.after ELSE old.name,
            column |-> IF r.type = "table" THEN old.column ELSE r.after]]
RenamesLead == \A k \in 1..Commits : \E t \in Tables : Leads(k, t)

\* A reference is taken from a catalogue the project has had, and an ordered one
\* has seen just what was reconciled, unless its project was left.
RefsKnown ==
  /\ \A ref \in {draft, mark} \ {None} : ref.at <= Commits + 1
  /\ draft # None /\ draft.ordered => receipts = 1..draft.at - 1
  /\ visits = 0 => workspaceBase /\ (mark # None /\ mark.ordered => receipts = 1..mark.at - 1)

\* Inductive.
RenamesInv == TypeOK /\ RenamesLead /\ RefsKnown /\ DraftFollows /\ MarkFollows /\ UpToDate

\* What native-projects.md says: the frontend reconciles both deliveries once,
\* "including response/event reordering", so that a settled draft names the
\* table the user chose (from a graph in step with the renames seen).
\* Not kept in every order of events: see the README, section 5.
DraftsSettle ==
  Settled /\ draft # None /\ draft.fresh => draft.name = catalogue[Commits + 1][draft.of].name

\* What desktop.md says: the state of a table survives its renames.  No table
\* is ever deleted here, so no reference may go while its project is shown.
\* Not kept in every order of events: see the README, section 5.
MarkSurvives == [][workspaceBase /\ mark # None => mark' # None]_vars
=============================================================================
