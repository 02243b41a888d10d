---------------------------- MODULE DataLibrary -----------------------------
(***************************************************************************)
(* The data library of the web server (server/src/files.rs and the file    *)
(* routes of routes.rs): uploads that stream beside moves and deletions of *)
(* several files at once.  One gate serializes what changes the library;   *)
(* an upload registers its folder under it, streams without it and takes   *)
(* it again to publish.                                                    *)
(*                                                                         *)
(* A rename replaces a file of the same name.  Every rename may fail, and  *)
(* the one that undoes it as well.  A client may disconnect while its      *)
(* handler waits, and the process may end.                                 *)
(***************************************************************************)
EXTENDS Naturals, Sequences, FiniteSets, SequencesExt

CONSTANTS
  Folders, Files, Uploads, \* the items of the library, and those to come
  Home,      \* where each item is at first
  Stem,      \* its file name
  Root, Trash, Nowhere, None,
  MaxFaults, MaxBatches  \* bounds

Items == Folders \cup Files \cup Uploads

DataLibraryAssumption ==
  /\ IsFiniteSet(Items) /\ Folders \cap Files = {} /\ (Folders \cup Files) \cap Uploads = {}
  /\ Home \in [Folders \cup Files -> Folders \cup {Root}]
  /\ DOMAIN Stem = Items /\ {Root, Trash, Nowhere, None} \cap Items = {}
  /\ MaxFaults \in Nat /\ MaxBatches \in Nat

VARIABLES
  parent,   \* of each item
  name,     \* stem and number
  gate,     \* held by an upload that publishes, or by a batch
  uploads,  \* Mutations.uploads: the folders that receive one, with their ancestors
  stage,    \* of each upload
  batch,    \* the move or deletion that holds the gate
  asked,    \* what was to be deleted
  torn,     \* a rollback failed, or the process ended within a batch
  batches, faults

files == <<parent, name>>
vars == <<files, gate, uploads, stage, batch, asked, torn, batches, faults>>

Fault == faults < MaxFaults /\ faults' = faults + 1

Path[n \in Nat] ==
  IF n = 0 THEN [i \in Items |-> <<parent[i]>>]
  ELSE LET shorter == Path[n - 1]
       IN  [i \in Items |-> IF parent[i] \in Folders THEN Append(shorter[parent[i]], parent[i])
                                                   ELSE <<parent[i]>>]
Above(i) == Path[Cardinality(Folders)][i]
Within(i, f) == LET above == Above(i) IN \E k \in DOMAIN above : above[k] = f
Present(i) == Above(i)[1] = Root
At(folder, n) == {i \in Items : Present(i) /\ parent[i] = folder /\ name[i] = n}

(* -------------------------------- uploads ------------------------------- *)

Ended(u) == stage' = [stage EXCEPT ![u] = "ended"]

\* The destination is protected before the body is read.
upload(u, folder) ==
  /\ stage[u] = "none" /\ gate = None /\ (folder # Root => Present(folder))
  /\ uploads' = [uploads EXCEPT ![u] = IF folder = Root THEN <<Root>> ELSE Above(folder) \o <<folder>>]
  /\ stage' = [stage EXCEPT ![u] = "streaming"]
  /\ UNCHANGED <<files, gate, batch, asked, torn, batches, faults>>

Received(u) ==
  /\ stage[u] = "streaming" /\ stage' = [stage EXCEPT ![u] = "waiting"]
  /\ UNCHANGED <<files, gate, uploads, batch, asked, torn, batches, faults>>

\* The client disconnects, the body fails or the server is stopping.
Abort(u) ==
  /\ stage[u] \in {"streaming", "waiting"} /\ Ended(u)
  /\ UNCHANGED <<files, gate, uploads, batch, asked, torn, batches, faults>>

Bug_Accept(u) ==
  /\ stage[u] = "waiting" /\ stage' = [stage EXCEPT ![u] = "publishing"]
  /\ UNCHANGED <<files, gate, uploads, batch, asked, torn, batches, faults>>
Accept(u) ==
  /\ stage[u] = "waiting" /\ gate = None
  /\ gate' = u /\ stage' = [stage EXCEPT ![u] = "publishing"]
  /\ UNCHANGED <<files, uploads, batch, asked, torn, batches, faults>>

Into(u) == Last(uploads[u])
Arrived(u) == Into(u) = Root \/ (Present(Into(u)) /\ Above(Into(u)) \o <<Into(u)>> = uploads[u])
\* A hard link under the first name that is free.
publish(u) ==
  /\ stage[u] = "publishing" /\ Ended(u) /\ gate' = IF gate = u THEN None ELSE gate
  /\ IF Arrived(u)
     THEN /\ parent' = [parent EXCEPT ![u] = Into(u)]
          /\ name' = [name EXCEPT ![u] = CHOOSE n \in {Stem[u]} \X (1..Cardinality(Items)) :
                        /\ At(Into(u), n) = {}
                        /\ \A k \in 1..n[2] - 1 : At(Into(u), <<Stem[u], k>>) # {}]
     ELSE UNCHANGED files
  /\ UNCHANGED <<uploads, batch, asked, torn, batches, faults>>

\* A task of its own takes the gate to drop the protection.
Release(u) ==
  /\ stage[u] = "ended" /\ uploads[u] # <<>> /\ gate = None
  /\ uploads' = [uploads EXCEPT ![u] = <<>>]
  /\ UNCHANGED <<files, gate, stage, batch, asked, torn, batches, faults>>

(* -------------------------------- batches ------------------------------- *)

\* A folder stands for all it contains.
Selected(names) == {i \in names : ~\E f \in names \cap Folders : Within(i, f)}
\* No upload goes to a selected folder or below it.
preflight(chosen) == \A u \in Uploads : \A i \in chosen : ~\E k \in DOMAIN uploads[u] : uploads[u][k] = i

\* The order of the names is left open.
Take(dest, chosen) ==
  /\ batch' = [dest |-> dest, todo |-> chosen, done |-> <<>>, was |-> parent, back |-> FALSE]
  /\ gate' = Trash /\ batches' = batches + 1

move_files(names, folder) ==
  /\ gate = None /\ batches < MaxBatches
  /\ (\A i \in names : Present(i)) /\ preflight(Selected(names))
  /\ folder # Root => Present(folder) /\ \A i \in names : folder # i /\ ~Within(folder, i)
  /\ LET moves == {i \in Selected(names) : parent[i] # folder}
     IN  /\ \A i \in moves : At(folder, name[i]) = {} /\ \A k \in moves \ {i} : name[k] # name[i]
         /\ Take(folder, moves)
  /\ UNCHANGED <<files, uploads, stage, asked, torn, faults>>

delete_files(names) ==
  /\ gate = None /\ batches < MaxBatches
  /\ (\A i \in names : Present(i)) /\ preflight(Selected(names))
  /\ Take(Trash, Selected(names))
  /\ asked' = asked \cup {i \in Items : \E f \in names : i = f \/ Within(i, f)}
  /\ UNCHANGED <<files, uploads, stage, torn, faults>>

\* A file in the way is replaced; the trash has a place of its own for each.
rename(i, to) ==
  parent' = [k \in Items |-> IF k = i THEN to
                             ELSE IF to # Trash /\ k \in At(to, name[i]) THEN Trash ELSE parent[k]]
RenameNext ==
  /\ gate = Trash /\ ~batch.back
  /\ \E i \in batch.todo :
       /\ rename(i, batch.dest)
       /\ batch' = [batch EXCEPT !.todo = @ \ {i}, !.done = Append(@, i)]
  /\ UNCHANGED <<name, gate, uploads, stage, asked, torn, batches, faults>>
RenameFails ==
  /\ gate = Trash /\ ~batch.back /\ batch.todo # {} /\ Fault
  /\ batch' = [batch EXCEPT !.back = TRUE]
  /\ UNCHANGED <<files, gate, uploads, stage, asked, torn, batches>>
Undo ==
  /\ gate = Trash /\ batch.back /\ batch.done # <<>>
  /\ rename(Last(batch.done), batch.was[Last(batch.done)])
  /\ batch' = [batch EXCEPT !.done = Front(@)]
  /\ UNCHANGED <<name, gate, uploads, stage, asked, torn, batches, faults>>
Finish == gate' = None /\ batch' = None
\* What has been moved aside for a deletion goes with its folder, in any case.
\* After a rollback what is back in the library is no longer to be deleted.
BatchEnds ==
  /\ gate = Trash /\ (IF batch.back THEN batch.done = <<>> ELSE batch.todo = {}) /\ Finish
  /\ asked' = IF batch.back THEN {i \in asked : ~Present(i)} ELSE asked
  /\ UNCHANGED <<files, uploads, stage, torn, batches, faults>>
UndoFails ==
  /\ gate = Trash /\ batch.back /\ batch.done # <<>> /\ Fault /\ Finish /\ torn' = TRUE
  /\ UNCHANGED <<files, uploads, stage, asked, batches>>

\* The process ends.  Uploads and their protection are gone.
Exit ==
  /\ Fault /\ Finish /\ torn' = (torn \/ batch # None)
  /\ uploads' = [u \in Uploads |-> <<>>]
  /\ stage' = [u \in Uploads |-> IF stage[u] = "none" THEN "none" ELSE "ended"]
  /\ UNCHANGED <<files, asked, batches>>

Init ==
  /\ parent = [i \in Items |-> IF i \in Uploads THEN Nowhere ELSE Home[i]]
  /\ name = [i \in Items |-> <<Stem[i], 1>>]
  /\ gate = None /\ uploads = [u \in Uploads |-> <<>>] /\ stage = [u \in Uploads |-> "none"]
  /\ batch = None /\ asked = {} /\ torn = FALSE /\ batches = 0 /\ faults = 0

Next ==
  \/ \E u \in Uploads :
       \/ \E folder \in Folders \cup {Root} : upload(u, folder)
       \/ Received(u) \/ Abort(u) \/ Accept(u) \/ publish(u) \/ Release(u)
  \/ \E names \in SUBSET Items \ {{}} :
       delete_files(names) \/ \E folder \in Folders \cup {Root} : move_files(names, folder)
  \/ RenameNext \/ Undo \/ BatchEnds \/ RenameFails \/ UndoFails \/ Exit

Spec == Init /\ [][Next]_vars

(* ------------------------------ properties ------------------------------ *)

TypeOK ==
  /\ parent \in [Items -> Folders \cup {Root, Trash, Nowhere}] /\ asked \subseteq Items
  /\ DOMAIN name = Items /\ gate \in Uploads \cup {None, Trash} /\ torn \in BOOLEAN
  /\ \A u \in Uploads : uploads[u] \in Seq(Folders \cup {Root})
  /\ stage \in [Uploads -> {"none", "streaming", "waiting", "publishing", "ended"}]
  /\ batch = None <=> gate # Trash
  /\ batches \in 0..MaxBatches /\ faults \in 0..MaxFaults

\* However uploads, moves and deletions interleave and whatever fails, nothing
\* leaves the library but what was to be deleted, and no two items share a
\* place (files.rs: hard links and checked destinations under one gate).
NothingOverwritten ==
  /\ \A i \in Items : parent[i] = Trash => i \in asked
  /\ \A i, k \in Items : i # k /\ Present(i) /\ Present(k) => <<parent[i], name[i]>> # <<parent[k], name[k]>>

\* The folder of an upload stays where it was when the upload began, so that
\* its file can be published there (server.md: "Moves and deletion reject the
\* receiving folder and its ancestors while unrelated paths remain usable").
FolderStays == \A u \in Uploads : uploads[u] # <<>> => Arrived(u)

\* A batch moves all that was chosen and nothing else, or leaves the library as
\* it was, unless what undoes it fails as well or the process ends.
AllOrNothing ==
  [][batch # None /\ batch' = None /\ ~torn' =>
       parent = IF batch.back THEN batch.was
                ELSE [i \in Items |-> IF i \in ToSet(batch.done) THEN batch.dest ELSE batch.was[i]]]_vars
=============================================================================
