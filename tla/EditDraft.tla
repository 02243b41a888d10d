----------------------------- MODULE EditDraft ------------------------------
(***************************************************************************)
(* The draft of one table editor (useTableEditing.ts): patched cells,      *)
(* deleted rows, and inserted rows anchored to rows of the frozen snapshot, *)
(* shown page by page in the order of the current sorting.  The snapshot   *)
(* itself never changes while the editor is open.                          *)
(***************************************************************************)
EXTENDS Naturals, Sequences, FiniteSets, SequencesExt

CONSTANTS
  Rows,       \* row references of the snapshot
  Columns,    \* editable columns
  PageSizes,  \* page sizes offered
  MaxNew,     \* bound: rows ever added
  NoRow       \* the anchor of a row added to an empty table

DraftAssumption ==
  /\ IsFiniteSet(Rows) /\ NoRow \notin Rows
  /\ PageSizes \subseteq Nat \ {0} /\ MaxNew \in Nat

VARIABLES
  sorting,    \* the snapshot's rows in the order of the chosen sorting
  page,
  pageSize,
  patches,    \* cells of the snapshot whose value differs from the original
  deletions,  \* deleted snapshot rows
  insertions, \* inserted rows in the order Save sends them
  nextRow     \* number of the next inserted row

vars == <<sorting, page, pageSize, patches, deletions, insertions, nextRow>>

Snapshot == ToSet(sorting)
Insertion == [id : 0..MaxNew-1, before : Rows \cup {NoRow}]

\* The pages a table of this size has; an empty table has one.
LastPage(size) == LET n == (Len(sorting) + size - 1) \div size IN IF n = 0 THEN 1 ELSE n

\* The snapshot rows of a page.
rowRefs(p, size) ==
  LET last == IF p * size < Len(sorting) THEN p * size ELSE Len(sorting)
  IN  SubSeq(sorting, (p - 1) * size + 1, last)

\* The inserted rows anchored to ref, in the order of the draft.
before(ref) == SelectSeq(insertions, LAMBDA row : row.before = ref)

\* What page p shows: every snapshot row behind the rows inserted above it,
\* unless it is deleted, and on the first page the rows without an anchor.
Bug_displayed(p, size) ==
  LET rowsOf(ref) == IF ref \in deletions THEN <<>> ELSE Append(before(ref), ref)
      refs == rowRefs(p, size)
  IN  FlattenSeq([i \in DOMAIN refs |-> rowsOf(refs[i])]) \o (IF p = 1 THEN before(NoRow) ELSE <<>>)
displayed(p, size) ==
  LET rowsOf(ref) == before(ref) \o (IF ref \in deletions THEN <<>> ELSE <<ref>>)
      refs == rowRefs(p, size)
  IN  FlattenSeq([i \in DOMAIN refs |-> rowsOf(refs[i])]) \o (IF p = 1 THEN before(NoRow) ELSE <<>>)

Shown == displayed(page, pageSize)
IsInsertion(row) == row \notin Rows

\* Last page in the type: sorting and page size reset the page.
TypeOK ==
  /\ Snapshot \subseteq Rows /\ sorting \in SetToSeqs(Snapshot)
  /\ pageSize \in PageSizes /\ page \in 1..LastPage(pageSize)
  /\ patches \subseteq Snapshot \X Columns
  /\ deletions \subseteq Snapshot
  /\ insertions \in Seq(Insertion)
  /\ nextRow \in 0..MaxNew

Init ==
  /\ sorting \in UNION {SetToSeqs(S) : S \in SUBSET Rows}
  /\ page = 1 /\ pageSize \in PageSizes
  /\ patches = {} /\ deletions = {}
  /\ insertions = <<>> /\ nextRow = 0

\* "Add row above" the i-th row shown, or "Add row" of an empty page (i = 0).
\* Above an inserted row the new one takes its anchor and its place, above a
\* snapshot row it follows the others anchored there.
Anchor(i) ==
  IF i > 0 THEN (IF IsInsertion(Shown[i]) THEN Shown[i].before ELSE Shown[i])
  ELSE LET refs == rowRefs(page, pageSize) IN IF refs = <<>> THEN NoRow ELSE refs[1]
Place(i) ==
  IF i > 0 /\ IsInsertion(Shown[i])
  THEN CHOOSE k \in DOMAIN insertions : insertions[k].id = Shown[i].id
  ELSE Len(insertions) + 1
addRowAbove(i) ==
  /\ nextRow < MaxNew
  /\ insertions' = InsertAt(insertions, Place(i), [id |-> nextRow, before |-> Anchor(i)])
  /\ nextRow' = nextRow + 1
  /\ UNCHANGED <<sorting, page, pageSize, patches, deletions>>

\* Deleting an inserted row drops it; deleting a snapshot row drops its patches.
deleteRow(i) ==
  /\ IF IsInsertion(Shown[i])
       THEN /\ insertions' = SelectSeq(insertions, LAMBDA row : row.id # Shown[i].id)
            /\ UNCHANGED <<patches, deletions>>
       ELSE /\ patches' = {p \in patches : p[1] # Shown[i]}
            /\ deletions' = deletions \cup {Shown[i]}
            /\ UNCHANGED insertions
  /\ UNCHANGED <<sorting, page, pageSize, nextRow>>

\* A cell of a snapshot row gets another value, or its original one again.
onChange(i, column) ==
  /\ ~IsInsertion(Shown[i])
  /\ patches' \in {patches \cup {<<Shown[i], column>>}, patches \ {<<Shown[i], column>>}}
  /\ UNCHANGED <<sorting, page, pageSize, deletions, insertions, nextRow>>

setPage(p) ==
  /\ p \in 1..LastPage(pageSize)
  /\ page' = p
  /\ UNCHANGED <<sorting, pageSize, patches, deletions, insertions, nextRow>>

setPageSize(size) ==
  /\ pageSize' = size /\ page' = 1
  /\ UNCHANGED <<sorting, patches, deletions, insertions, nextRow>>

setSorting(order) ==
  /\ sorting' = order /\ page' = 1
  /\ UNCHANGED <<pageSize, patches, deletions, insertions, nextRow>>

Next ==
  \/ \E i \in DOMAIN Shown :
       \/ addRowAbove(i) \/ deleteRow(i)
       \/ \E c \in Columns : onChange(i, c)
  \/ Shown = <<>> /\ addRowAbove(0)
  \/ \E p \in 1..LastPage(pageSize) : setPage(p)
  \/ \E size \in PageSizes : setPageSize(size)
  \/ \E order \in SetToSeqs(Snapshot) : setSorting(order)

Spec == Init /\ [][Next]_vars

(* ------------------------------ properties ------------------------------ *)

\* Whatever was deleted, added and sorted, the pages together show every
\* remaining row of the table and every inserted row exactly once: no draft
\* row can be out of the user's reach when Save sends it.
EveryRowShownOnce ==
  LET all == FlattenSeq([p \in 1..LastPage(pageSize) |-> displayed(p, pageSize)])
  IN  /\ ToSet(all) = (Snapshot \ deletions) \cup ToSet(insertions)
      /\ Len(all) = Cardinality(ToSet(all))

\* Save never sends what the backend refuses by its shape: a patch of a row
\* that is also deleted, or one inserted row twice.
SaveIsWellFormed ==
  /\ \A p \in patches : p[1] \notin deletions
  /\ \A i, k \in DOMAIN insertions : insertions[i].id = insertions[k].id => i = k

\* "Add row above" puts the new row directly above the row it was asked for,
\* which keeps its own neighbours below.
AboveMeansAbove ==
  [][\A i \in DOMAIN Shown :
       addRowAbove(i) => Shown' = InsertAt(Shown, i, [id |-> nextRow, before |-> Anchor(i)])]_vars
=============================================================================
